----------------------------- MODULE AgentOffers -----------------------------
(***************************************************************************)
(* The offers of agents for one unit type: an agent creates one, and its   *)
(* agent or an operator updates and archives it with the version read last *)
(* (If-Match), while agents are suspended and reinstated.  Each SQL        *)
(* statement is a transaction of its own, but not one step: it looks for   *)
(* its rows in a snapshot, and may wait before it writes, a creation for   *)
(* the agent's row, which it references and a suspension locks.            *)
(*                                                                         *)
(* Source: CreateAgentOffer, UpdateAgentOffer and ArchiveAgentOffer in     *)
(* src/api/internal/repo/property.go, src/api/queries/properties.sql.      *)
(***************************************************************************)
EXTENDS Naturals

CONSTANTS
  Agents,      \* agents of the unit type's campus, with their users
  Operators,   \* users, agents or not, who can have an operator role for the
               \* campus or be global admins
  Prices,
  Drafts,      \* what a new offer can say
  Patches,     \* what a PATCH can say, with None for a field it leaves out
  Procs,
  MaxVersion,  \* bound on the version of an offer
  None

OfferStatuses == {"available", "unavailable"}   \* "unavailable": paused as well

ASSUME VersionAssumption == MaxVersion \in Nat \ {0}
ASSUME ContentAssumption ==
  /\ Drafts \subseteq [price : Prices, status : OfferStatuses]
  /\ Patches \subseteq [price : Prices \cup {None},
                        status : OfferStatuses \cup {None}]
ASSUME NoneAssumption ==
  None \notin Agents \cup Operators \cup Prices \cup OfferStatuses

VARIABLES
  operators,   \* the operators of the campus, and the global admins
  status,      \* [Agents -> AgentStatus], agents.status
  offer,       \* [Agents -> Offer], at most one for each agent
  form,        \* [Users -> [Agents -> Offer]], the offers as clients show them
  tx,          \* [Procs -> Request], a request, or the answer to the last one
  shown,       \* history: the offer as the client showed it when it sent p's
               \* request
  authorized   \* history: the user could manage the offer at some moment of
               \* p's request

vars == <<operators, status, offer, form, tx, shown, authorized>>

Users         == Agents \cup Operators   \* an agent stands for its user
AgentStatus   == {"active", "suspended"}

Offer   == [version : 0..MaxVersion, price : Prices \cup {None},
            status : OfferStatuses \cup {None}, archived : BOOLEAN]
NoOffer == [version |-> 0, price |-> None, status |-> None, archived |-> FALSE]

NoPatch == [price |-> None, status |-> None]

Steps   == {"getAgent", "selectUnit", "insert", "referenceAgent",
            "findRow", "lockRow", "classify"}
Answers == {"done", "ErrAgentForbidden", "ErrDuplicate", "ErrNotFound",
            "ErrStaleUpdate", "ErrInternal"}

Request == [pc : {"idle"} \cup Steps \cup Answers,
            op : {"none", "create", "update", "archive"}, user : Users \cup {None},
            agent : Agents \cup {None}, expected : 0..MaxVersion,
            patch : Drafts \cup Patches \cup {NoPatch}]
Idle == [pc |-> "idle", op |-> "none", user |-> None, agent |-> None,
         expected |-> 0, patch |-> NoPatch]

Serving(p) == tx[p].pc \in Steps

\* The condition of UpdateAgentOffer, ArchiveAgentOffer and their classification:
\* a user can have both ways to manage an offer, and lose one of them.
CanManage(u, a) == u \in operators \/ (u = a /\ status[a] = "active")

Patched(row, patch) ==
  [row EXCEPT !.version = @ + 1,
              !.price  = IF patch.price = None THEN @ ELSE patch.price,
              !.status = IF patch.status = None THEN @ ELSE patch.status]

\* (fault) Archiving leaves the version as it is.
ArchivedSameVersion(row) ==
  [row EXCEPT !.status = "unavailable", !.archived = TRUE]

Archived(row) ==
  [row EXCEPT !.version = @ + 1, !.status = "unavailable", !.archived = TRUE]

Written(p, row) == IF tx[p].op = "archive" THEN Archived(row)
                                           ELSE Patched(row, tx[p].patch)
-----------------------------------------------------------------------------
Init ==
  /\ operators \in SUBSET Operators
  /\ status = [a \in Agents |-> "active"]
  /\ offer = [a \in Agents |-> NoOffer]
  /\ form = [u \in Users |-> [a \in Agents |-> NoOffer]]
  /\ tx = [p \in Procs |-> Idle]
  /\ shown = [p \in Procs |-> NoOffer]
  /\ authorized = [p \in Procs |-> FALSE]

Advance(p, pc) == tx' = [tx EXCEPT ![p].pc = pc]

\* The request ends and is answered.
Answer(p, answer) ==
  /\ tx' = [tx EXCEPT ![p] = [Idle EXCEPT !.pc = answer]]
  /\ shown' = [shown EXCEPT ![p] = NoOffer]
  /\ authorized' = [authorized EXCEPT ![p] = FALSE]
  /\ UNCHANGED <<operators, status>>
Refuse(p, answer) == Answer(p, answer) /\ UNCHANGED <<offer, form>>

\* The statement commits.  The response, with the row and its ETag, reaches
\* the client or not.
Write(p, row) ==
  /\ offer' = [offer EXCEPT ![tx[p].agent] = row]
  /\ \/ Answer(p, "done") /\ form' = [form EXCEPT ![tx[p].user][tx[p].agent] = row]
     \/ \E answer \in {"done", "ErrInternal"} : Answer(p, answer) /\ UNCHANGED form

\* A client reads the offers of the unit type, with their versions.
Read(u) ==
  /\ form' = [form EXCEPT ![u] = [a \in Agents |->
                IF offer[a].archived THEN form[u][a] ELSE offer[a]]]
  /\ UNCHANGED <<operators, status, offer, tx, shown, authorized>>

Begin(p, request) ==
  /\ ~Serving(p)
  /\ tx' = [tx EXCEPT ![p] = request]
  /\ shown' = [shown EXCEPT ![p] = form[request.user][request.agent]]
  /\ authorized' = [authorized EXCEPT ![p] = CanManage(request.user, request.agent)]
  /\ UNCHANGED <<operators, status, offer, form>>

\* createAgentOffer, behind requireActiveAgent
StartCreate(p, a) ==
  /\ status[a] = "active"
  /\ \E draft \in Drafts :
       Begin(p, [Idle EXCEPT !.pc = "getAgent", !.op = "create", !.user = a, !.agent = a,
                             !.patch = draft])

\* updateAgentOffer, archiveAgentOffer: any user, first try or retry
StartEdit(p, u, a) ==
  /\ form[u][a].version \in 1..(MaxVersion - 1)
  /\ \E op \in {"update", "archive"}, patch \in Patches \cup {NoPatch} :
       /\ op = "archive" <=> patch = NoPatch
       /\ Begin(p, [pc |-> "findRow", op |-> op, user |-> u, agent |-> a,
                    expected |-> form[u][a].version, patch |-> patch])

-----------------------------------------------------------------------------
\* CreateAgentOffer.

GetAgent(p) ==
  /\ tx[p].pc = "getAgent"
  /\ IF status[tx[p].agent] = "active"
     THEN /\ Advance(p, "selectUnit")
          /\ UNCHANGED <<operators, status, offer, form, shown, authorized>>
     ELSE Refuse(p, "ErrAgentForbidden")

\* CreateAuthorizedAgentOffer: what its SELECT finds ...
SelectUnit(p) ==
  /\ tx[p].pc = "selectUnit"
  /\ IF status[tx[p].agent] = "active"
     THEN /\ Advance(p, "insert")
          /\ UNCHANGED <<operators, status, offer, form, shown, authorized>>
     ELSE Refuse(p, "ErrAgentForbidden")

\* ... is inserted, unless the agent has an offer, archived or not, ...
Insert(p) ==
  LET a == tx[p].agent IN
  /\ tx[p].pc = "insert"
  /\ \A q \in Procs : tx[q].pc = "referenceAgent" => tx[q].agent # a
  /\ IF offer[a] = NoOffer
     THEN /\ Advance(p, "referenceAgent")
          /\ UNCHANGED <<operators, status, offer, form, shown, authorized>>
     ELSE Refuse(p, "ErrDuplicate")

\* ... and the foreign keys are checked, and the statement commits.
ReferenceAgent(p) ==
  /\ tx[p].pc = "referenceAgent"
  /\ Write(p, Patched(NoOffer, tx[p].patch))

-----------------------------------------------------------------------------
\* UpdateAgentOffer and ArchiveAgentOffer.

\* (fault) The condition on archived_at is missing.
MatchesArchived(p) == offer[tx[p].agent].version = tx[p].expected

Matches(p) == LET row == offer[tx[p].agent] IN
  row.version = tx[p].expected /\ ~row.archived

\* (fault) The handler has authenticated the user, and that is all.
FindRowOfAnybody(p) ==
  /\ tx[p].pc = "findRow"
  /\ Advance(p, IF Matches(p) THEN "lockRow" ELSE "classify")
  /\ UNCHANGED <<operators, status, offer, form, shown, authorized>>

\* The row of the statement's snapshot ...
FindRow(p) ==
  /\ tx[p].pc = "findRow"
  /\ Advance(p, IF Matches(p) /\ CanManage(tx[p].user, tx[p].agent)
                THEN "lockRow" ELSE "classify")
  /\ UNCHANGED <<operators, status, offer, form, shown, authorized>>

\* (fault) The row that was found is written without a second look.
LockRowUnchecked(p) ==
  /\ tx[p].pc = "lockRow"
  /\ Write(p, Written(p, offer[tx[p].agent]))

\* ... is updated if it still matches when it is locked.
LockRow(p) ==
  /\ tx[p].pc = "lockRow"
  /\ IF Matches(p)
     THEN Write(p, Written(p, offer[tx[p].agent]))
     ELSE /\ Advance(p, "classify")
          /\ UNCHANGED <<operators, status, offer, form, shown, authorized>>

\* GetAgentOfferMutationStatus, after an update that found no row
Classify(p) ==
  /\ tx[p].pc = "classify"
  /\ Refuse(p, CASE offer[tx[p].agent] = NoOffer            -> "ErrNotFound"
                 [] offer[tx[p].agent] # NoOffer
                    /\ ~CanManage(tx[p].user, tx[p].agent) -> "ErrAgentForbidden"
                 [] OTHER                                  -> "ErrStaleUpdate")

-----------------------------------------------------------------------------
\* queryTimeout, a lost connection or a crash.
Interrupt(p) == Serving(p) /\ Refuse(p, "ErrInternal")

\* changeAgentStatus commits.
ChangeAgent(a) ==
  /\ status' = [status EXCEPT ![a] = IF @ = "active" THEN "suspended" ELSE "active"]
  /\ authorized' = [p \in Procs |-> authorized[p] \/
       (Serving(p) /\ tx[p].agent = a /\ tx[p].user = a /\ status[a] = "suspended")]
  /\ UNCHANGED <<operators, offer, form, tx, shown>>

\* `admin grant` and `admin revoke`
ChangeRole(u) ==
  /\ operators' = IF u \in operators THEN operators \ {u} ELSE operators \cup {u}
  /\ authorized' = [p \in Procs |-> authorized[p] \/
       (Serving(p) /\ tx[p].user = u /\ u \notin operators)]
  /\ UNCHANGED <<status, offer, form, tx, shown>>

Statement(p) ==
  \/ GetAgent(p) \/ SelectUnit(p) \/ Insert(p) \/ ReferenceAgent(p)
  \/ FindRow(p)  \/ LockRow(p)    \/ Classify(p)

Next ==
  \/ \E p \in Procs : \/ \E a \in Agents : \/ StartCreate(p, a)
                                           \/ \E u \in Users : StartEdit(p, u, a)
                      \/ Statement(p) \/ Interrupt(p)
  \/ \E a \in Agents : ChangeAgent(a)
  \/ \E u \in Users : Read(u)
  \/ \E u \in Operators : ChangeRole(u)

Spec == Init /\ [][Next]_vars
-----------------------------------------------------------------------------
TypeOK ==
  /\ operators \subseteq Operators
  /\ status \in [Agents -> AgentStatus]
  /\ offer \in [Agents -> {NoOffer} \cup
       {row \in Offer : row.version > 0 /\ row.price # None /\ row.status # None}]
  /\ form \in [Users -> [Agents -> Offer]]
  /\ tx \in [Procs -> Request]
  /\ shown \in [Procs -> Offer]
  /\ authorized \in [Procs -> BOOLEAN]

\* A version names one state of an offer: a client never shows a newer version
\* than the row has, and the same version only with the same contents, so that
\* to compare versions is to compare contents.
Genuine(row, a) ==
  row.version <= offer[a].version /\ (row.version = offer[a].version => row = offer[a])
VersionsNameContents == \A u \in Users, a \in Agents : Genuine(form[u][a], a)

\* What each statement of a request can rely on when it is executed.  A
\* creation is its own agent's, and references the agent only if there is no
\* offer yet; an edit expects the version of an offer that its client showed,
\* and has found its row with the authority of its user.
Creating(p) == tx[p].pc \in {"getAgent", "selectUnit", "insert", "referenceAgent"}
Inserting(p) == tx[p].pc = "referenceAgent"
Editing(p)  == tx[p].pc \in {"findRow", "lockRow", "classify"}

CreateOK(p) ==
  Creating(p) =>
    /\ tx[p].op = "create" /\ tx[p].patch \in Drafts
    /\ tx[p].agent \in Agents /\ tx[p].user = tx[p].agent
    /\ Inserting(p) => offer[tx[p].agent] = NoOffer
EditOK(p) ==
  Editing(p) =>
    /\ tx[p].op = "archive" \/ (tx[p].op = "update" /\ tx[p].patch \in Patches)
    /\ tx[p].agent \in Agents /\ tx[p].user \in Users
    /\ Genuine(shown[p], tx[p].agent)
    /\ tx[p].expected = shown[p].version /\ tx[p].expected \in 1..(MaxVersion - 1)
    /\ CanManage(tx[p].user, tx[p].agent) => authorized[p]
    /\ tx[p].pc = "lockRow" => authorized[p]

\* The unique index lets one transaction insert an offer of an agent.
OneInsert ==
  \A p, q \in Procs : Inserting(p) /\ Inserting(q) /\ tx[p].agent = tx[q].agent => p = q

\* What every state satisfies, and enough to be preserved by every step.
OfferInv ==
  /\ TypeOK /\ VersionsNameContents /\ OneInsert
  /\ \A p \in Procs : CreateOK(p) /\ EditOK(p)

\* An edit replaces exactly the offer that its client showed, whatever the
\* agent, the operators and the retries of lost requests do meanwhile.
NoLostUpdate ==
  [][\A p \in Procs : LockRow(p) /\ offer' # offer =>
       offer'[tx[p].agent] = Written(p, shown[p])]_vars

\* An archived offer never comes back, though the response that archived it
\* brings the version that the next edit would need.
ArchiveIsFinal ==
  [][\A a \in Agents : offer[a].archived => offer'[a] = offer[a]]_vars

\* Nobody edits an offer who could not manage it at any moment of the request.
EditedInScope ==
  [][\A p \in Procs : LockRow(p) /\ offer' # offer => authorized[p]]_vars
=============================================================================
