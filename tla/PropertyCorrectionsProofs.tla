---------------------- MODULE PropertyCorrectionsProofs ----------------------
(***************************************************************************)
(* Proofs about PropertyCorrections, for every set of operators, fields,   *)
(* values, patches and concurrent requests, and every bound on versions.   *)
(***************************************************************************)
EXTENDS PropertyCorrections, TLAPS

USE FieldAssumption, VersionAssumption, NoneAssumption

Pcs == {"idle"} \cup Steps \cup Answers

\* The contents of a record are corrected field by field.
LEMMA ApplyType ==
  ASSUME NEW patch \in Patches, NEW content \in Content
  PROVE  Apply(patch, content) \in Content
<1>1. PICK S \in SUBSET Fields : patch \in [S -> Values]
  OBVIOUS
<1> QED
  BY <1>1 DEF Apply, Content

\* What an audit event says of some contents has the type of an event's half.
LEMMA AuditedType ==
  ASSUME NEW content \in Content
  PROVE  Audited(content) \in [AuditedFields -> Values]
BY DEF Audited, Content

\* A client that shows nothing has no version of the record.
LEMMA BlankIsNoRow == Blank \notin Row /\ Blank.version = 0
BY DEF Blank, Row

\* Going on to another statement changes only the program counter of p.
LEMMA AdvanceType ==
  ASSUME TypeOK, NEW p \in Procs, NEW pc \in Pcs, Advance(p, pc)
  PROVE  /\ tx' \in [Procs -> Transaction]
         /\ tx'[p] = [tx[p] EXCEPT !.pc = pc]
         /\ \A q \in Procs \ {p} : tx'[q] = tx[q]
<1>1. tx \in [Procs -> Transaction]
  BY DEF TypeOK
<1>2. tx[p] \in Transaction /\ [tx[p] EXCEPT !.pc = pc] \in Transaction
  BY <1>1 DEF Transaction, Pcs
<1> QED
  BY <1>1, <1>2 DEF Advance

\* A request that has its answer keeps nothing else.
LEMMA FinishedType ==
  ASSUME NEW answer \in Answers, NEW user \in Users \cup {None}
  PROVE  [Idle EXCEPT !.pc = answer, !.user = user] \in Transaction
<1>1. Idle \in Transaction
  BY DEF Idle, Transaction
<1> QED
  BY <1>1 DEF Transaction

-----------------------------------------------------------------------------
\* A step that leaves the record alone has to be checked for p only.

Same(q) == tx'[q] = tx[q] /\ work'[q] = work[q] /\ shown'[q] = shown[q]
           /\ authorized'[q] = authorized[q]

\* What a request relies on survives a step of another one that leaves the
\* record and the roles alone.
LEMMA RequestSame ==
  ASSUME NEW q \in Procs, RequestOK(q), Same(q), UNCHANGED <<operators, record>>
  PROVE  RequestOK(q)'
BY DEF RequestOK, Same, Genuine, Writing, InTransaction

\* A step of p that leaves the record, its audit and the roles alone preserves
\* the invariant once it preserves what is said of p.
LEMMA Frame ==
  ASSUME RecordInv, NEW p \in Procs, UNCHANGED <<operators, record, audit>>, TypeOK',
         \A q \in Procs \ {p} : Same(q),
         \A u \in Users : Genuine(form'[u]),
         tx'[p].pc = "corrected" => Genuine(work'[p]),
         RequestOK(p)',
         Writing(p)' => Writing(p) \/ Free(p)
  PROVE  RecordInv'
<1>1. \A q \in Procs : RequestOK(q)'
  BY RequestSame DEF RecordInv
<1>2. AuditChain'
  BY DEF RecordInv, AuditChain
<1>3. VersionsNameContents'
  BY DEF RecordInv, VersionsNameContents, Genuine, Same
<1>4. OneWriter'
  BY DEF RecordInv, OneWriter, Writing, Free, Same
<1> QED
  BY <1>1, <1>2, <1>3, <1>4 DEF RecordInv

\* p goes on to another statement of its transaction.
LEMMA StatementFrame ==
  ASSUME RecordInv, NEW p \in Procs, InTransaction(p), NEW pc \in Steps, Advance(p, pc),
         UNCHANGED <<operators, record, audit, form, shown, authorized>>,
         work' \in [Procs -> Row \cup {Blank}],
         \A q \in Procs \ {p} : work'[q] = work[q],
         RequestOK(p)',
         pc \in {"writeAudit", "commit"} => Writing(p) \/ Free(p)
  PROVE  RecordInv'
<1>1. /\ tx' \in [Procs -> Transaction]
      /\ tx'[p] = [tx[p] EXCEPT !.pc = pc]
      /\ \A q \in Procs \ {p} : tx'[q] = tx[q]
  BY AdvanceType DEF RecordInv, Pcs
<1>2. TypeOK'
  BY <1>1 DEF RecordInv, TypeOK
<1>3. tx'[p].pc = pc
  BY <1>1 DEF RecordInv, TypeOK, Transaction
<1>4. \A q \in Procs \ {p} : Same(q)
  BY <1>1 DEF Same
<1>5. \A u \in Users : Genuine(form'[u])
  BY DEF RecordInv, VersionsNameContents
<1> QED
  BY <1>2, <1>3, <1>4, <1>5, Frame DEF Steps, Writing

\* A request that ends without a commit preserves the invariant.
LEMMA RollbackInv ==
  ASSUME RecordInv, NEW p \in Procs, NEW answer \in Answers \ {"corrected"},
         Rollback(p, answer)
  PROVE  RecordInv'
<1>1. /\ tx'[p] = [Idle EXCEPT !.pc = answer, !.user = tx[p].user]
      /\ \A q \in Procs \ {p} : Same(q)
  BY DEF Rollback, Finish, Same, RecordInv, TypeOK
<1>2. TypeOK'
  <2>1. [Idle EXCEPT !.pc = answer, !.user = tx[p].user] \in Transaction
    <3>1. tx[p].user \in Users \cup {None}
      BY DEF RecordInv, TypeOK, Transaction
    <3> QED
      BY <3>1, FinishedType
  <2> QED
    BY <2>1 DEF Rollback, Finish, RecordInv, TypeOK
<1>3. tx'[p].pc = answer
  BY <1>1 DEF Idle
<1>4. RequestOK(p)' /\ ~Writing(p)'
  BY <1>3 DEF RequestOK, InTransaction, Steps, Answers, Writing
<1>5. \A u \in Users : Genuine(form'[u])
  BY DEF RecordInv, VersionsNameContents, Rollback
<1> QED
  BY <1>1, <1>2, <1>3, <1>4, <1>5, Frame DEF Rollback

-----------------------------------------------------------------------------
\* The first version of a record, without requests, satisfies the invariant.
LEMMA InitInv == Init => RecordInv
<1> SUFFICES ASSUME Init PROVE RecordInv
  OBVIOUS
<1>1. record \in Row /\ record.version = 1
  BY DEF Init
<1>2. TypeOK
  <2>1. Idle \in Transaction
    BY DEF Idle, Transaction
  <2>2. audit \in Seq(Event)
    BY DEF Init
  <2> QED
    BY <1>1, <2>1, <2>2 DEF Init, TypeOK
<1>3. AuditChain
  BY <1>1 DEF Init, AuditChain
<1>4. VersionsNameContents
  BY <1>1, BlankIsNoRow DEF Init, VersionsNameContents, Genuine, Idle
<1>5. \A p \in Procs : tx[p].pc = "idle"
  BY DEF Init, Idle
<1> QED
  BY <1>2, <1>3, <1>4, <1>5
     DEF RecordInv, OneWriter, RequestOK, InTransaction, Writing, Steps

\* A request starts with the record that its client shows.
LEMMA StartUpdateInv ==
  ASSUME RecordInv, NEW p \in Procs, NEW u \in Users, NEW patch \in Patches,
         StartUpdate(p, u, patch)
  PROVE  RecordInv'
<1> DEFINE t == [pc |-> "loadBefore", user |-> u, patch |-> patch,
                 expected |-> form[u].version, before |-> None]
<1>1. form[u] \in Row /\ form[u].version \in 1..MaxVersion /\ Genuine(form[u])
  BY DEF StartUpdate, RecordInv, TypeOK, VersionsNameContents, Row
<1>2. t \in Transaction
  BY <1>1 DEF Transaction, Steps
<1>3. /\ tx' = [tx EXCEPT ![p] = t] /\ tx'[p] = t
      /\ shown'[p] = form[u] /\ (authorized'[p] <=> u \in operators)
      /\ \A q \in Procs \ {p} : Same(q)
  BY DEF StartUpdate, RecordInv, TypeOK, Same
<1>4. TypeOK'
  BY <1>1, <1>2, <1>3 DEF StartUpdate, RecordInv, TypeOK
<1>5. RequestOK(p)'
  BY <1>1, <1>3 DEF RequestOK, StartUpdate, Genuine, Writing
<1>6. tx'[p].pc # "corrected" /\ ~Writing(p)'
  BY <1>3 DEF Writing
<1>7. \A v \in Users : Genuine(form'[v])
  BY DEF StartUpdate, RecordInv, VersionsNameContents
<1> QED
  BY <1>3, <1>4, <1>5, <1>6, <1>7, Frame DEF StartUpdate

\* The contents "before" are those of the record when they are read.
LEMMA LoadBeforeInv ==
  ASSUME RecordInv, NEW p \in Procs, LoadBefore(p)
  PROVE  RecordInv'
<1>1. tx[p] \in Transaction /\ record.content \in Content
  BY DEF RecordInv, TypeOK, Row
<1> DEFINE t == [tx[p] EXCEPT !.pc = "findRow", !.before = record.content]
<1>2. /\ tx' = [tx EXCEPT ![p] = t] /\ tx'[p] = t
      /\ \A q \in Procs \ {p} : Same(q)
  BY DEF LoadBefore, RecordInv, TypeOK, Same
<1>3. t \in Transaction /\ t.pc = "findRow" /\ t.before = record.content
      /\ t.user = tx[p].user /\ t.patch = tx[p].patch /\ t.expected = tx[p].expected
  BY <1>1 DEF Transaction, Steps
<1>4. TypeOK'
  BY <1>2, <1>3 DEF LoadBefore, RecordInv, TypeOK
<1>5. RequestOK(p)'
  <2>1. InTransaction(p) /\ RequestOK(p)
    BY DEF LoadBefore, RecordInv, InTransaction, Steps
  <2> QED
    BY <1>1, <1>2, <1>3, <2>1 DEF RequestOK, LoadBefore, Genuine, Writing
<1>6. tx'[p].pc # "corrected" /\ ~Writing(p)'
  BY <1>2, <1>3 DEF Writing
<1>7. \A v \in Users : Genuine(form'[v])
  BY DEF LoadBefore, RecordInv, VersionsNameContents
<1> QED
  BY <1>2, <1>4, <1>5, <1>6, <1>7, Frame DEF LoadBefore

\* The row is found with the role of its operator, or the update is classified.
LEMMA FindRowInv ==
  ASSUME RecordInv, NEW p \in Procs, FindRow(p)
  PROVE  RecordInv'
<1>1. InTransaction(p) /\ RequestOK(p) /\ tx[p] \in Transaction
  BY DEF FindRow, RecordInv, InTransaction, Steps, TypeOK
<1>2. PICK pc \in {"lockRow", "classify"} :
        Advance(p, pc) /\ (pc = "lockRow" => tx[p].user \in operators)
  BY DEF FindRow
<1>3. tx'[p] = [tx[p] EXCEPT !.pc = pc]
  BY <1>2 DEF Advance, RecordInv, TypeOK
<1>4. RequestOK(p)'
  BY <1>1, <1>2, <1>3 DEF FindRow, RequestOK, Genuine, Writing, Transaction
<1> QED
  BY <1>1, <1>2, <1>4, StatementFrame DEF FindRow, Steps, RecordInv, TypeOK

\* The UPDATE has found the row free: if the version is still the expected one,
\* the transaction is the only one to write, and it writes the next version.
LEMMA LockRowInv ==
  ASSUME RecordInv, NEW p \in Procs, LockRow(p)
  PROVE  RecordInv'
<1>1. /\ InTransaction(p) /\ RequestOK(p) /\ tx[p] \in Transaction
      /\ tx[p].pc = "lockRow" /\ Free(p)
  BY DEF LockRow, RecordInv, InTransaction, Steps, TypeOK
<1>2. CASE record.version # tx[p].expected
  <2>1. Advance(p, "classify") /\ UNCHANGED work
    BY <1>2 DEF LockRow
  <2>2. tx'[p] = [tx[p] EXCEPT !.pc = "classify"]
    BY <2>1 DEF Advance, RecordInv, TypeOK
  <2>3. RequestOK(p)'
    BY <1>1, <2>1, <2>2 DEF LockRow, RequestOK, Genuine, Writing, Transaction
  <2> QED
    BY <1>1, <2>1, <2>3, StatementFrame DEF LockRow, Steps, RecordInv, TypeOK
<1>3. CASE record.version = tx[p].expected
  <2> DEFINE row == [version |-> record.version + 1,
                     content |-> Apply(tx[p].patch, record.content)]
  <2>1. Advance(p, "writeAudit") /\ work' = [work EXCEPT ![p] = row]
    BY <1>3 DEF LockRow
  <2>2. tx'[p] = [tx[p] EXCEPT !.pc = "writeAudit"] /\ work'[p] = row
        /\ \A q \in Procs \ {p} : work'[q] = work[q]
    BY <2>1 DEF Advance, RecordInv, TypeOK
  <2>3. row \in Row
    <3>1. record.version \in 1..MaxVersion /\ record.content \in Content
          /\ tx[p].patch \in Patches /\ record.version < MaxVersion
      BY <1>1, <1>3 DEF RecordInv, TypeOK, Row, RequestOK
    <3>2. Apply(tx[p].patch, record.content) \in Content
      BY <3>1, ApplyType
    <3> QED
      BY <3>1, <3>2 DEF Row
  <2>4. work' \in [Procs -> Row \cup {Blank}]
    BY <2>1, <2>3 DEF RecordInv, TypeOK
  <2>5. tx'[p].pc = "writeAudit" /\ tx'[p].user = tx[p].user /\ tx'[p].patch = tx[p].patch
        /\ tx'[p].expected = tx[p].expected /\ tx'[p].before = tx[p].before
    BY <1>1, <2>2 DEF Transaction
  <2>6. RequestOK(p)'
    BY <1>1, <1>3, <2>2, <2>5 DEF LockRow, RequestOK, Genuine, Writing
  <2> HIDE DEF row
  <2> QED
    BY <1>1, <2>1, <2>2, <2>4, <2>6, StatementFrame DEF LockRow, Steps
<1> QED
  BY <1>2, <1>3

\* Writing the audit event changes nothing that others see.
LEMMA WriteAuditInv ==
  ASSUME RecordInv, NEW p \in Procs, WriteAudit(p)
  PROVE  RecordInv'
<1>1. /\ InTransaction(p) /\ RequestOK(p) /\ tx[p] \in Transaction /\ Writing(p)
  BY DEF WriteAudit, RecordInv, InTransaction, Steps, TypeOK, Writing
<1>2. tx'[p] = [tx[p] EXCEPT !.pc = "commit"]
  BY DEF WriteAudit, Advance, RecordInv, TypeOK
<1>3. RequestOK(p)'
  BY <1>1, <1>2 DEF WriteAudit, RequestOK, Genuine, Writing, Transaction
<1> QED
  BY <1>1, <1>3, StatementFrame DEF WriteAudit, Steps, RecordInv, TypeOK

\* The commit makes the next version of the record that was read.  A client
\* that shows an older version names it still, and a request that expects one
\* will find that it is not the record's.
LEMMA CommitInv ==
  ASSUME RecordInv, NEW p \in Procs, Commit(p)
  PROVE  RecordInv'
<1>1. /\ InTransaction(p) /\ RequestOK(p) /\ tx[p] \in Transaction /\ Writing(p)
      /\ tx[p].pc = "commit"
  BY DEF Commit, RecordInv, InTransaction, Steps, TypeOK, Writing
<1>2. /\ work[p] = [version |-> record.version + 1,
                    content |-> Apply(tx[p].patch, record.content)]
      /\ tx[p].expected = record.version /\ record.version < MaxVersion
      /\ tx[p].before = record.content /\ tx[p].patch \in Patches
      /\ tx[p].user \in Users
  BY <1>1 DEF RequestOK, Writing
<1>3. record' = work[p] /\ record' \in Row /\ record'.version = record.version + 1
  <2>1. record \in Row /\ record.content \in Content /\ record.version \in 1..MaxVersion
    BY DEF RecordInv, TypeOK, Row
  <2>2. Apply(tx[p].patch, record.content) \in Content
    BY <1>2, <2>1, ApplyType
  <2>3. record' = work[p]
    BY DEF Commit
  <2> QED
    BY <1>2, <2>1, <2>2, <2>3 DEF Row
<1>4. PICK answer \in {"corrected", "ErrInternal"}, row \in {work[p], Blank} :
        Finish(p, answer, row) /\ (answer = "corrected" => row = work[p])
  BY DEF Commit
<1>5. /\ tx'[p] = [Idle EXCEPT !.pc = answer, !.user = tx[p].user]
      /\ work'[p] = row /\ \A q \in Procs \ {p} : Same(q)
  BY <1>4 DEF Finish, Same, RecordInv, TypeOK
<1>6. tx'[p].pc = answer
  BY <1>5 DEF Idle
<1>7. EventOf(p) \in Event /\ EventOf(p).before = Audited(record.content)
      /\ EventOf(p).after = Audited(record'.content)
  <2>1. record.content \in Content /\ record'.content \in Content
    BY <1>3 DEF RecordInv, TypeOK, Row
  <2> QED
    BY <1>2, <1>3, <2>1, AuditedType DEF EventOf, Event
<1>8. audit' = Append(audit, EventOf(p)) /\ audit \in Seq(Event)
  BY DEF Commit, RecordInv, TypeOK
<1>9. TypeOK'
  <2>2. [Idle EXCEPT !.pc = answer, !.user = tx[p].user] \in Transaction
    BY <1>2, FinishedType DEF Answers
  <2>3. audit' \in Seq(Event)
    BY <1>7, <1>8
  <2>4. row \in Row \cup {Blank}
    BY <1>3
  <2>5. tx' \in [Procs -> Transaction] /\ work' \in [Procs -> Row \cup {Blank}]
    BY <1>4, <2>2, <2>4 DEF Finish, RecordInv, TypeOK
  <2>6. shown' \in [Procs -> Row \cup {Blank}] /\ authorized' \in [Procs -> BOOLEAN]
    BY <1>4 DEF Finish, RecordInv, TypeOK
  <2>7. operators' \subseteq Users /\ form' \in [Users -> Row \cup {Blank}]
    BY DEF Commit, RecordInv, TypeOK
  <2> QED
    BY <1>3, <2>3, <2>5, <2>6, <2>7 DEF TypeOK
<1>10. AuditChain'
  <2>1. /\ Len(audit) = record.version - 1 /\ record.version \in 1..MaxVersion
        /\ \A i \in 1..Len(audit) :
             audit[i].after = IF i < Len(audit) THEN audit[i+1].before
                                                ELSE Audited(record.content)
    BY DEF RecordInv, AuditChain, TypeOK, Row
  <2>2. /\ Len(audit') = Len(audit) + 1 /\ Len(audit) \in Nat
        /\ audit'[Len(audit) + 1] = EventOf(p)
        /\ \A i \in 1..Len(audit) : audit'[i] = audit[i]
    BY <1>7, <1>8
  <2>3. Len(audit') = record'.version - 1
    BY <1>3, <2>1, <2>2
  <2>4. ASSUME NEW i \in 1..Len(audit')
        PROVE  audit'[i].after = IF i < Len(audit') THEN audit'[i+1].before
                                                    ELSE Audited(record'.content)
    <3>1. CASE i = Len(audit) + 1
      BY <1>7, <2>2, <3>1
    <3>2. CASE i = Len(audit)
      <4>1. i \in 1..Len(audit) /\ audit'[i].after = Audited(record.content)
        <5>1. i \in 1..Len(audit) /\ ~(i < Len(audit))
          BY <2>2, <2>4, <3>2
        <5> QED
          BY <2>1, <2>2, <5>1
      <4>2. audit'[i+1].before = Audited(record.content) /\ i < Len(audit')
        BY <1>7, <2>2, <3>2
      <4> QED
        BY <4>1, <4>2
    <3>3. CASE i < Len(audit)
      <4>1. i \in 1..Len(audit) /\ i + 1 \in 1..Len(audit) /\ i < Len(audit')
        BY <2>2, <2>4, <3>3
      <4>2. audit'[i] = audit[i] /\ audit'[i+1] = audit[i+1]
        BY <2>2, <4>1
      <4> QED
        BY <2>1, <3>3, <4>1, <4>2
    <3> QED
      BY <2>2, <2>4, <3>1, <3>2, <3>3
  <2> QED
    BY <2>3, <2>4 DEF AuditChain
<1>11. ASSUME NEW old \in Row \cup {Blank}, Genuine(old)
       PROVE  old.version <= record'.version /\ old.version # record'.version
  BY <1>3, <1>11, BlankIsNoRow DEF Genuine, RecordInv, TypeOK, Row
<1>12. VersionsNameContents'
  <2>1. ASSUME NEW u \in Users PROVE Genuine(form[u])'
    <3>1. form' = form /\ form[u] \in Row \cup {Blank} /\ Genuine(form[u])
      BY DEF Commit, RecordInv, TypeOK, VersionsNameContents
    <3> QED
      BY <1>11, <3>1 DEF Genuine
  <2>2. ASSUME NEW q \in Procs, (tx[q].pc = "corrected")' PROVE Genuine(work[q])'
    <3>1. CASE q = p
      <4>1. tx'[p].pc = "corrected"
        BY <2>2, <3>1
      <4>2. work'[p] = record'
        BY <1>3, <1>4, <1>5, <1>6, <4>1
      <4>3. record'.version \in Nat
        BY <1>3 DEF Row
      <4> QED
        BY <3>1, <4>2, <4>3 DEF Genuine
    <3>2. CASE q # p
      <4>1. Same(q) /\ work[q] \in Row \cup {Blank} /\ Genuine(work[q])
        BY <1>5, <2>2, <3>2 DEF Same, RecordInv, TypeOK, VersionsNameContents
      <4> QED
        BY <1>11, <4>1 DEF Same, Genuine
    <3> QED
      BY <3>1, <3>2
  <2> QED
    BY <2>1, <2>2 DEF VersionsNameContents
<1>13. ASSUME NEW q \in Procs PROVE RequestOK(q)'
  <2>1. CASE q = p
    BY <1>6, <2>1 DEF RequestOK, InTransaction, Steps
  <2>2. CASE q # p
    <3>1. Same(q) /\ operators' = operators
      BY <1>5, <2>2 DEF Commit
    <3>2. ~Writing(q)
      BY <1>1, <2>2 DEF RecordInv, OneWriter
    <3>3. RequestOK(q)
      BY DEF RecordInv
    <3>4. CASE InTransaction(q)
      <4>1. shown[q].version <= record'.version /\ shown[q].version # record'.version
        BY <1>11, <3>3, <3>4 DEF RequestOK
      <4> QED
        BY <3>1, <3>2, <3>3, <3>4, <4>1 DEF RequestOK, Same, InTransaction, Writing, Genuine
    <3>5. CASE ~InTransaction(q)
      BY <3>1, <3>5 DEF RequestOK, Same, InTransaction
    <3> QED
      BY <3>4, <3>5
  <2> QED
    BY <2>1, <2>2
<1>14. OneWriter'
  BY <1>5, <1>6 DEF RecordInv, OneWriter, Writing, Same
<1> QED
  BY <1>9, <1>10, <1>12, <1>13, <1>14 DEF RecordInv

\* The client shows the record of the response.
LEMMA ReturnInv ==
  ASSUME RecordInv, NEW p \in Procs, Return(p)
  PROVE  RecordInv'
<1>1. /\ tx'[p] = Idle /\ work'[p] = Blank /\ \A q \in Procs \ {p} : Same(q)
      /\ UNCHANGED <<operators, record, audit>>
  BY DEF Return, Same, RecordInv, TypeOK
<1>2. \A u \in Users : form'[u] \in Row \cup {Blank} /\ Genuine(form'[u])
  <2>1. CASE UNCHANGED form
    BY <2>1 DEF RecordInv, TypeOK, VersionsNameContents
  <2>2. CASE tx[p].pc = "corrected" /\ form' = [form EXCEPT ![tx[p].user] = work[p]]
    BY <2>2 DEF RecordInv, TypeOK, VersionsNameContents
  <2> QED
    BY <2>1, <2>2 DEF Return
<1>3. TypeOK'
  <2>1. Idle \in Transaction
    BY DEF Idle, Transaction
  <2>2. tx' \in [Procs -> Transaction] /\ work' \in [Procs -> Row \cup {Blank}]
    BY <2>1 DEF Return, RecordInv, TypeOK
  <2>3. form' \in [Users -> Row \cup {Blank}]
    BY <1>2 DEF Return, RecordInv, TypeOK
  <2> QED
    BY <2>2, <2>3 DEF Return, RecordInv, TypeOK
<1>4. tx'[p].pc = "idle"
  BY <1>1 DEF Idle
<1>5. RequestOK(p)' /\ ~Writing(p)'
  BY <1>4 DEF RequestOK, InTransaction, Writing, Steps
<1> QED
  BY <1>1, <1>2, <1>3, <1>4, <1>5, Frame

\* A client that reads shows the record.
LEMMA ReadInv ==
  ASSUME RecordInv, NEW u \in Users, Read(u)
  PROVE  RecordInv'
<1>1. TypeOK'
  BY DEF Read, RecordInv, TypeOK
<1>2. \A q \in Procs : RequestOK(q)'
  BY RequestSame DEF Read, RecordInv, Same
<1>3. VersionsNameContents'
  BY DEF Read, RecordInv, TypeOK, Row, VersionsNameContents, Genuine
<1>4. AuditChain' /\ OneWriter'
  BY DEF Read, RecordInv, AuditChain, OneWriter, Writing
<1> QED
  BY <1>1, <1>2, <1>3, <1>4 DEF RecordInv

\* A grant authorizes the requests that are under way; a revocation takes
\* nothing from those that have found their row.
LEMMA ChangeRoleInv ==
  ASSUME RecordInv, NEW u \in Users, ChangeRole(u)
  PROVE  RecordInv'
<1>1. TypeOK'
  BY DEF ChangeRole, RecordInv, TypeOK
<1>2. ASSUME NEW q \in Procs PROVE RequestOK(q)'
  <2>1. /\ authorized[q] => authorized'[q]
        /\ InTransaction(q) /\ tx[q].user \in operators' =>
             tx[q].user \in operators \/ authorized'[q]
    BY DEF ChangeRole, RecordInv, TypeOK
  <2>2. UNCHANGED <<record, tx, work, shown>>
    BY DEF ChangeRole
  <2> QED
    BY <2>1, <2>2 DEF RecordInv, RequestOK, InTransaction, Genuine, Writing
<1>3. VersionsNameContents' /\ AuditChain' /\ OneWriter'
  BY DEF ChangeRole, RecordInv, VersionsNameContents, Genuine, AuditChain, OneWriter, Writing
<1> QED
  BY <1>1, <1>2, <1>3 DEF RecordInv

-----------------------------------------------------------------------------
LEMMA NextInv == RecordInv /\ [Next]_vars => RecordInv'
<1> SUFFICES ASSUME RecordInv, [Next]_vars PROVE RecordInv'
  OBVIOUS
<1>1. ASSUME NEW p \in Procs, NEW u \in Users, NEW patch \in Patches, StartUpdate(p, u, patch)
      PROVE  RecordInv'
  BY <1>1, StartUpdateInv
<1>2. ASSUME NEW p \in Procs, Statement(p) PROVE RecordInv'
  BY <1>2, LoadBeforeInv, FindRowInv, LockRowInv, WriteAuditInv, CommitInv, RollbackInv
     DEF Statement, Classify, Answers
<1>3. ASSUME NEW p \in Procs, Interrupt(p) PROVE RecordInv'
  BY <1>3, RollbackInv DEF Interrupt, Answers
<1>4. ASSUME NEW p \in Procs, Return(p) PROVE RecordInv'
  BY <1>4, ReturnInv
<1>5. ASSUME NEW u \in Users, Read(u) \/ ChangeRole(u) PROVE RecordInv'
  BY <1>5, ReadInv, ChangeRoleInv
<1>6. CASE UNCHANGED vars
  BY <1>6 DEF vars, RecordInv, TypeOK, AuditChain, VersionsNameContents, Genuine,
              OneWriter, RequestOK, InTransaction, Writing
<1> QED
  BY <1>1, <1>2, <1>3, <1>4, <1>5, <1>6 DEF Next

\* In every reachable state the audit events tell the record's history without
\* a gap, a version that some client holds names one state of the record, and
\* one transaction at a time has the row locked: Update of
\* src/api/internal/repo/property.go, whoever reads, corrects and is granted or
\* revoked a role meanwhile, and wherever a transaction is interrupted.
THEOREM Inductive == Spec => []RecordInv
BY InitInv, NextInv, PTL DEF Spec

\* A correction that commits replaces exactly the record its client showed,
\* although the UPDATE is the only statement that compares versions.
THEOREM UpdateNotLost == Spec => NoLostUpdate
<1>1. RecordInv /\ [Next]_vars =>
        [\A p \in Procs : Commit(p) =>
           record' = [version |-> shown[p].version + 1,
                      content |-> Apply(tx[p].patch, shown[p].content)]]_vars
  <2> SUFFICES ASSUME RecordInv, NEW p \in Procs, Commit(p)
               PROVE  record' = [version |-> shown[p].version + 1,
                                 content |-> Apply(tx[p].patch, shown[p].content)]
    OBVIOUS
  <2>1. InTransaction(p) /\ Writing(p) /\ RequestOK(p) /\ record' = work[p]
    BY DEF Commit, RecordInv, InTransaction, Steps, Writing
  <2>2. shown[p] = record
    BY <2>1 DEF RequestOK, Genuine
  <2> QED
    BY <2>1, <2>2 DEF RequestOK
<1> QED
  BY <1>1, Inductive, PTL DEF Spec, NoLostUpdate

\* A correction that commits is one of an operator of the record's campus: the
\* role is checked by the statement that finds the row, not by the middleware.
THEOREM CorrectionsInScope == Spec => CorrectedInScope
<1>1. RecordInv /\ [Next]_vars => [\A p \in Procs : Commit(p) => authorized[p]]_vars
  BY DEF Commit, RecordInv, RequestOK, InTransaction, Steps, Writing
<1> QED
  BY <1>1, Inductive, PTL DEF Spec, CorrectedInScope
=============================================================================
