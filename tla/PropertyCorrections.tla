------------------------- MODULE PropertyCorrections -------------------------
(***************************************************************************)
(* Corrections of a canonical record, a property or a unit type, by        *)
(* several operators.  A client edits the record it has read, and sends    *)
(* its changes with the version that it read (If-Match).  The server runs  *)
(* a READ COMMITTED transaction that reads the record, updates it if it    *)
(* still has this version, and writes an audit event with its contents     *)
(* before and after.  The UPDATE looks for the row in its snapshot, waits  *)
(* until no other transaction has it locked, and looks at the version      *)
(* again; the operator's role is the one of the snapshot.                  *)
(*                                                                         *)
(* Source: Update and UpdatePropertyUnitType in                            *)
(* src/api/internal/repo/property.go, src/api/queries/properties.sql.      *)
(***************************************************************************)
EXTENDS Naturals, Sequences

CONSTANTS
  Users,          \* users with an operator role for some campus
  Fields,         \* fields that can be patched
  AuditedFields,  \* fields that the audit event shows: all of a property,
                  \* category, name, description and notes of a unit type
  Values,
  Patches,        \* what a PATCH can say: values for some of the fields
  Procs,
  MaxVersion,     \* bound on the version of the record
  None

ASSUME FieldAssumption ==
  /\ AuditedFields \subseteq Fields
  /\ Patches \subseteq UNION {[S -> Values] : S \in SUBSET Fields}
ASSUME VersionAssumption == MaxVersion \in Nat \ {0}
ASSUME NoneAssumption == None \notin Users \cup Values

VARIABLES
  operators,   \* the operators of the record's campus
  record,      \* Row, the committed row
  audit,       \* Seq(Event)
  form,        \* [Users -> Row or Blank], the record as the client shows it
  tx,          \* [Procs -> Transaction]
  work,        \* [Procs -> Row or Blank], the row that the UPDATE returned
  shown,       \* history: the record that the client showed when it sent the
               \* request of p
  authorized   \* history: the user of p's request was an operator of the
               \* campus at some moment since it was sent

vars == <<operators, record, audit, form, tx, work, shown, authorized>>

Content == [Fields -> Values]
Row     == [version : 1..MaxVersion, content : Content]
Blank   == [version |-> 0, content |-> None]
Event   == [before : [AuditedFields -> Values], after : [AuditedFields -> Values]]

Steps   == {"loadBefore", "findRow", "lockRow", "classify", "writeAudit", "commit"}
Answers == {"corrected", "ErrStaleUpdate", "ErrCampusForbidden", "ErrInternal"}

Transaction ==
  [pc : {"idle"} \cup Steps \cup Answers, user : Users \cup {None},
   expected : 0..MaxVersion, patch : Patches \cup {None}, before : Content \cup {None}]
Idle == [pc |-> "idle", user |-> None, expected |-> 0, patch |-> None, before |-> None]

InTransaction(p) == tx[p].pc \in Steps
Free(p) == \A q \in Procs \ {p} : tx[q].pc \notin {"writeAudit", "commit"}

\* SET name = COALESCE($2, name), ...
Apply(patch, content) ==
  [f \in Fields |-> IF f \in DOMAIN patch THEN patch[f] ELSE content[f]]

Audited(content) == [f \in AuditedFields |-> content[f]]
-----------------------------------------------------------------------------
Init ==
  /\ operators \in SUBSET Users
  /\ record \in {row \in Row : row.version = 1}
  /\ audit = <<>>
  /\ form = [u \in Users |-> Blank]
  /\ tx = [p \in Procs |-> Idle]
  /\ work = [p \in Procs |-> Blank]
  /\ shown = [p \in Procs |-> Blank]
  /\ authorized = [p \in Procs |-> FALSE]

Advance(p, pc) == tx' = [tx EXCEPT ![p].pc = pc]
\* The repository function returns, and its local variables are gone.
Finish(p, answer, row) ==
  /\ tx' = [tx EXCEPT ![p] = [Idle EXCEPT !.pc = answer, !.user = tx[p].user]]
  /\ work' = [work EXCEPT ![p] = row]
  /\ shown' = [shown EXCEPT ![p] = Blank]
  /\ authorized' = [authorized EXCEPT ![p] = FALSE]
Rollback(p, answer) ==
  Finish(p, answer, Blank) /\ UNCHANGED <<operators, record, audit, form>>

\* GET: the client shows the record and its ETag.
Read(u) ==
  /\ form' = [form EXCEPT ![u] = record]
  /\ UNCHANGED <<operators, record, audit, tx, work, shown, authorized>>

\* PATCH, first try or retry, with the ETag of the record that is shown.
StartUpdate(p, u, patch) ==
  /\ tx[p] = Idle
  /\ form[u] # Blank /\ form[u].version < MaxVersion
  /\ tx' = [tx EXCEPT ![p] = [pc |-> "loadBefore", user |-> u, patch |-> patch,
                              expected |-> form[u].version, before |-> None]]
  /\ shown' = [shown EXCEPT ![p] = form[u]]
  /\ authorized' = [authorized EXCEPT ![p] = u \in operators]
  /\ UNCHANGED <<operators, record, audit, form, work>>

\* GetProperty, without a lock
LoadBefore(p) ==
  /\ tx[p].pc = "loadBefore"
  /\ tx' = [tx EXCEPT ![p].pc = "findRow", ![p].before = record.content]
  /\ UNCHANGED <<operators, record, audit, form, work, shown, authorized>>

\* (fault) The statement relies on requireCampusOperator, which accepts the
\* operators of any campus.
FindRowOfAnyCampus(p) ==
  /\ tx[p].pc = "findRow"
  /\ Advance(p, IF record.version = tx[p].expected THEN "lockRow" ELSE "classify")
  /\ UNCHANGED <<operators, record, audit, form, work, shown, authorized>>

\* UpdateProperty: the row of the snapshot, with the version and the role ...
FindRow(p) ==
  /\ tx[p].pc = "findRow"
  /\ Advance(p, IF record.version = tx[p].expected /\ tx[p].user \in operators
                THEN "lockRow" ELSE "classify")
  /\ UNCHANGED <<operators, record, audit, form, work, shown, authorized>>

\* (fault) The version is compared by the SELECT, not by the UPDATE.
LockRowUnchecked(p) ==
  /\ tx[p].pc = "lockRow"
  /\ Free(p)
  /\ Advance(p, "writeAudit")
  /\ work' = [work EXCEPT ![p] = [version |-> record.version + 1,
                                  content |-> Apply(tx[p].patch, record.content)]]
  /\ UNCHANGED <<operators, record, audit, form, shown, authorized>>

\* ... and the same row once it is free, if it still has this version.
LockRow(p) ==
  /\ tx[p].pc = "lockRow"
  /\ Free(p)
  /\ IF record.version # tx[p].expected
     THEN Advance(p, "classify") /\ UNCHANGED work
     ELSE /\ Advance(p, "writeAudit")
          /\ work' = [work EXCEPT ![p] = [version |-> record.version + 1,
                                          content |-> Apply(tx[p].patch, record.content)]]
  /\ UNCHANGED <<operators, record, audit, form, shown, authorized>>

\* GetPropertyMutationStatus: the update is stale whenever it is not forbidden.
Classify(p) ==
  /\ tx[p].pc = "classify"
  /\ Rollback(p, IF tx[p].user \in operators THEN "ErrStaleUpdate"
                                             ELSE "ErrCampusForbidden")

EventOf(p) == [before |-> Audited(tx[p].before), after |-> Audited(work[p].content)]

\* CreateAuditEvent, visible after the commit
WriteAudit(p) ==
  /\ tx[p].pc = "writeAudit"
  /\ Advance(p, "commit")
  /\ UNCHANGED <<operators, record, audit, form, work, shown, authorized>>

\* COMMIT, whose acknowledgement can be late.
Commit(p) ==
  /\ tx[p].pc = "commit"
  /\ Finish(p, "corrected", work[p]) \/ Finish(p, "ErrInternal", Blank)
  /\ record' = work[p]
  /\ audit' = Append(audit, EventOf(p))
  /\ UNCHANGED <<operators, form>>

\* queryTimeout, a lost connection or a crash: the transaction rolls back.
Interrupt(p) == InTransaction(p) /\ Rollback(p, "ErrInternal")

\* The response, with the new record and its ETag, reaches the client or not.
Return(p) ==
  /\ tx[p].pc \in Answers
  /\ \/ UNCHANGED form
     \/ tx[p].pc = "corrected" /\ form' = [form EXCEPT ![tx[p].user] = work[p]]
  /\ tx' = [tx EXCEPT ![p] = Idle]
  /\ work' = [work EXCEPT ![p] = Blank]
  /\ UNCHANGED <<operators, record, audit, shown, authorized>>

\* `admin grant` and `admin revoke`
ChangeRole(u) ==
  /\ operators' = IF u \in operators THEN operators \ {u} ELSE operators \cup {u}
  /\ authorized' = [p \in Procs |->
       authorized[p] \/ (InTransaction(p) /\ tx[p].user = u /\ u \notin operators)]
  /\ UNCHANGED <<record, audit, form, tx, work, shown>>

Statement(p) ==
  \/ LoadBefore(p) \/ FindRow(p)    \/ LockRow(p)
  \/ Classify(p)   \/ WriteAudit(p) \/ Commit(p)

Next ==
  \/ \E p \in Procs : \/ \E u \in Users, patch \in Patches : StartUpdate(p, u, patch)
                      \/ Statement(p) \/ Interrupt(p) \/ Return(p)
  \/ \E u \in Users : Read(u) \/ ChangeRole(u)

Spec == Init /\ [][Next]_vars
-----------------------------------------------------------------------------
TypeOK ==
  /\ operators \subseteq Users
  /\ record \in Row
  /\ audit \in Seq(Event)
  /\ form \in [Users -> Row \cup {Blank}]
  /\ tx \in [Procs -> Transaction]
  /\ work \in [Procs -> Row \cup {Blank}]
  /\ shown \in [Procs -> Row \cup {Blank}]
  /\ authorized \in [Procs -> BOOLEAN]

\* The audit events tell the record's history without a gap, one for each
\* version: each starts where the one before it ended, and the last ends in
\* the current record.  The transaction reads the contents "before" without a
\* lock; that they are the ones that it replaces follows from the version the
\* client has read.
AuditChain ==
  /\ Len(audit) = record.version - 1
  /\ \A i \in 1..Len(audit) :
       audit[i].after = IF i < Len(audit) THEN audit[i+1].before
                                          ELSE Audited(record.content)

\* A version names one state of the record: what a client has is older, or it
\* is the record.
Genuine(row) ==
  row.version <= record.version /\ (row.version = record.version => row = record)

VersionsNameContents ==
  /\ \A u \in Users : Genuine(form[u])
  /\ \A p \in Procs : tx[p].pc = "corrected" => Genuine(work[p])

\* What each statement of a transaction can rely on when it is executed: the
\* request is that of a client with a record and a form, the contents "before"
\* are those of the version it expects, if that is still the record's, and
\* from the UPDATE on it is, because the row is locked.
Writing(p) == tx[p].pc \in {"writeAudit", "commit"}
RequestOK(p) ==
  InTransaction(p) =>
    LET t == tx[p] IN
    /\ t.user \in Users /\ t.patch \in Patches
    /\ shown[p] \in Row /\ Genuine(shown[p])
    /\ t.expected = shown[p].version /\ t.expected < MaxVersion
    /\ t.pc # "loadBefore" =>
         t.before \in Content /\ (t.expected = record.version => t.before = record.content)
    /\ t.user \in operators => authorized[p]
    /\ t.pc = "lockRow" => authorized[p]
    /\ Writing(p) =>
         /\ authorized[p] /\ t.expected = record.version
         /\ work[p] = [version |-> record.version + 1,
                       content |-> Apply(t.patch, record.content)]

\* Only one transaction has the row locked.
OneWriter == \A p, q \in Procs : Writing(p) /\ Writing(q) => p = q

\* What every state satisfies, and enough to be preserved by every step.
RecordInv ==
  /\ TypeOK /\ AuditChain /\ VersionsNameContents /\ OneWriter
  /\ \A p \in Procs : RequestOK(p)

\* A correction replaces exactly the record that its client showed: the fields
\* that it does not mention have the values that the client showed, whoever
\* else corrects the record meanwhile.
NoLostUpdate ==
  [][\A p \in Procs : Commit(p) =>
       record' = [version |-> shown[p].version + 1,
                  content |-> Apply(tx[p].patch, shown[p].content)]]_vars

\* An operator whose role for the campus was revoked before the request, or
\* who has one for another campus, corrects nothing.
CorrectedInScope ==
  [][\A p \in Procs : Commit(p) => authorized[p]]_vars
=============================================================================
