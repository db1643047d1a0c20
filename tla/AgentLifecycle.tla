--------------------------- MODULE AgentLifecycle ---------------------------
(***************************************************************************)
(* Suspension and reinstatement of agents, and the sessions that a         *)
(* suspension revokes while their user signs in and out and loses roles,   *)
(* which revokes sessions too.  Each request is a READ COMMITTED           *)
(* transaction, taken one SQL statement at a time.  The statements update  *)
(* rows, which they lock until the transaction ends, one after the other   *)
(* in an order that nothing fixes, and an UPDATE that waited for a row     *)
(* evaluates its WHERE clause again.                                       *)
(*                                                                         *)
(* Source: src/api/internal/repo/agent_lifecycle.go, identity.go, roles.go *)
(* and the queries they call.                                              *)
(***************************************************************************)
EXTENDS Naturals, Sequences, RowLocks

CONSTANTS
  Agents,      \* rows of agents, each linked to a user and to one application
  Sessions,    \* keys of sessions
  AgentOf,     \* [Sessions -> Agents], the agent of the session's user
  Procs,
  MaxEvents,   \* bound on the lifecycle changes of an agent
  None

ASSUME SessionAssumption == AgentOf \in [Sessions -> Agents]
ASSUME DistinctAssumption ==
  /\ Agents \cap Sessions = {}
  /\ None \notin Agents \cup Sessions
ASSUME BoundAssumption == MaxEvents \in Nat

VARIABLES
  status,         \* [Agents -> AgentStatus], agents.status
  applications,   \* [Agents -> AgentStatus], status of the linked application
  session,        \* [Sessions -> SessionStatus]
  audit,          \* [Agents \cup Sessions -> Seq(Actions)]
  tx, work,       \* [Procs -> ...], as in AgentApplications
  locked,         \* [Procs -> SUBSET (Agents \cup Sessions)], the rows p updates
  present         \* history: the sessions of the user that p suspends or
                  \* revokes a role of, not revoked when the request began

tables == <<status, applications, session, audit>>
vars == <<tables, tx, work, locked, present>>

AgentStatus   == {"active", "suspended"}
SessionStatus == {"none", "live", "expired", "revoked"}
Actions == {"agent_suspended", "agent_reinstated", "user_signed_in",
            "session_revoked", "session_revoked_by_agent_suspension",
            "session_revoked_by_role_change"}

LifecycleOps == {"suspend", "reinstate"}
Ops == LifecycleOps \cup {"signIn", "logout", "revokeRole"}
Revoking == {"suspend", "revokeRole"}
Steps == {"lockAgent", "checkScope", "updateAgent", "updateApplications",
          "findSessions", "lockSessions", "insertSession", "getSession",
          "revokeSession", "writeAudit", "commit"}
Answers == {"done", "ErrAgentNotFound", "ErrCampusForbidden",
            "ErrAgentLifecycleConflict", "ErrUnauthenticated", "ErrInternal"}

Transaction == [pc : {"idle"} \cup Steps \cup Answers, op : Ops \cup {"none"},
                row : Agents \cup Sessions \cup {None}]
Idle == [pc |-> "idle", op |-> "none", row |-> None]

\* status, applications: the agent whose row was changed, to After(op).
\* targets: the sessions RevokeUserSessions has still to lock.
Work == [status : SUBSET Agents, applications : SUBSET Agents,
         targets : SUBSET Sessions, inserted : SUBSET Sessions,
         revoked : SUBSET Sessions,
         events : SUBSET ((Agents \cup Sessions) \X Actions)]
NoWork == [status |-> {}, applications |-> {}, targets |-> {}, inserted |-> {},
           revoked |-> {}, events |-> {}]

Before(op) == IF op = "suspend" THEN "active" ELSE "suspended"
After(op)  == IF op = "suspend" THEN "suspended" ELSE "active"
NotRevoked == {"live", "expired"}   \* revoked_at IS NULL

InTransaction(p) == tx[p].pc \in Steps
Free(p, row) == \A q \in Procs \ {p} : row \notin locked[q]

\* The transactions that keep p from its next statement.
Blockers(p) ==
  LET wanted == CASE tx[p].pc \in {"lockAgent", "updateAgent", "getSession",
                                   "revokeSession"} -> {tx[p].row}
                  [] tx[p].pc = "lockSessions" -> work[p].targets
                  [] OTHER -> {} IN
  IF \E row \in wanted : Free(p, row)
  THEN {} ELSE {q \in Procs \ {p} : wanted \cap locked[q] # {}}
-----------------------------------------------------------------------------
Init ==
  /\ status = [a \in Agents |-> "active"]
  /\ applications = [a \in Agents |-> "active"]
  /\ session = [s \in Sessions |-> "none"]
  /\ audit = [r \in Agents \cup Sessions |-> <<>>]
  /\ tx = [p \in Procs |-> Idle]
  /\ work = [p \in Procs |-> NoWork]
  /\ locked = [p \in Procs |-> {}]
  /\ present = [p \in Procs |-> {}]

Advance(p, pc) == tx' = [tx EXCEPT ![p].pc = pc]
Lock(p, row)   == locked' = [locked EXCEPT ![p] = @ \cup {row}]

\* (fault) An error path that returns without the deferred Rollback.
FinishWithoutRollback(p, answer) ==
  /\ tx' = [tx EXCEPT ![p] = [Idle EXCEPT !.pc = answer]]
  /\ work' = [work EXCEPT ![p] = NoWork]
  /\ present' = [present EXCEPT ![p] = {}]
  /\ locked' = locked

\* The transaction ends, its locks go, and the request is answered.
Finish(p, answer) ==
  /\ tx' = [tx EXCEPT ![p] = [Idle EXCEPT !.pc = answer]]
  /\ work' = [work EXCEPT ![p] = NoWork]
  /\ locked' = [locked EXCEPT ![p] = {}]
  /\ present' = [present EXCEPT ![p] = {}]
Rollback(p, answer) == Finish(p, answer) /\ UNCHANGED tables

Begin(p, op, pc, row) ==
  /\ tx[p] = Idle
  /\ tx' = [tx EXCEPT ![p] = [pc |-> pc, op |-> op, row |-> row]]
  /\ present' = [present EXCEPT ![p] =
       {s \in Sessions : op \in Revoking /\ AgentOf[s] = row /\ session[s] \in NotRevoked}]
  /\ UNCHANGED <<tables, work, locked>>

\* requireCampusOperator has found a role of the operator, for some campus.
StartLifecycle(p, op, a) ==
  /\ Len(audit[a]) < MaxEvents
  /\ Begin(p, op, "lockAgent", a)

\* The last statement of Complete: a session with a new token.
StartSignIn(p, s) ==
  /\ session[s] = "none"
  /\ \A q \in Procs : tx[q].row # s
  /\ Begin(p, "signIn", "insertSession", s)

StartLogout(p, s) == Begin(p, "logout", "getSession", s)

\* Revoke of the admin CLI has deleted a role of the agent's user; what is
\* left of the transaction is revokeRoleSessions.
StartRoleRevocation(p, a) == Begin(p, "revokeRole", "findSessions", a)

\* GetAgentForLifecycleUpdate
LockAgent(p) ==
  /\ tx[p].pc = "lockAgent"
  /\ Free(p, tx[p].row)
  /\ Advance(p, "checkScope")
  /\ Lock(p, tx[p].row)
  /\ UNCHANGED <<tables, work, present>>

\* CanManageAgent, then the check of the status that was read.  Roles change
\* at any time, so that this one look at them may find either.
CheckScope(p) ==
  /\ tx[p].pc = "checkScope"
  /\ \E authorized \in BOOLEAN :
       CASE ~authorized -> Rollback(p, "ErrCampusForbidden")
         [] authorized /\ status[tx[p].row] # Before(tx[p].op) ->
              Rollback(p, "ErrAgentLifecycleConflict")
         [] OTHER -> /\ Advance(p, "updateAgent")
                     /\ UNCHANGED <<tables, work, locked, present>>

\* SuspendAgent or ReinstateAgent: no row is an unexpected error.
UpdateAgent(p) ==
  LET a == tx[p].row IN
  /\ tx[p].pc = "updateAgent"
  /\ Free(p, a)
  /\ IF status[a] # Before(tx[p].op)
     THEN Rollback(p, "ErrInternal")
     ELSE /\ Advance(p, "updateApplications")
          /\ Lock(p, a)
          /\ work' = [work EXCEPT ![p].status = {a}]
          /\ UNCHANGED <<tables, present>>

\* (fault) The applications are not updated when an agent is reinstated.
UpdateSuspendedOnly(p) ==
  /\ tx[p].pc = "updateApplications"
  /\ Advance(p, IF tx[p].op = "suspend" THEN "findSessions" ELSE "writeAudit")
  /\ work' = [work EXCEPT ![p].applications =
                {a \in {tx[p].row} : tx[p].op = "suspend"}]
  /\ UNCHANGED <<tables, locked, present>>

\* SuspendActiveAgentApplications, ReinstateSuspendedAgentApplications
UpdateApplications(p) ==
  /\ tx[p].pc = "updateApplications"
  /\ Advance(p, IF tx[p].op = "suspend" THEN "findSessions" ELSE "writeAudit")
  /\ work' = [work EXCEPT ![p].applications =
                {a \in {tx[p].row} : applications[a] = Before(tx[p].op)}]
  /\ UNCHANGED <<tables, locked, present>>

\* (fault) RevokeUserSessions skips the sessions that another transaction has
\* locked.
FindUnlockedSessions(p) ==
  LET found == {s \in Sessions : /\ AgentOf[s] = tx[p].row
                                 /\ session[s] \in NotRevoked /\ Free(p, s)} IN
  /\ tx[p].pc = "findSessions"
  /\ Advance(p, IF found = {} THEN "writeAudit" ELSE "lockSessions")
  /\ work' = [work EXCEPT ![p].targets = found]
  /\ UNCHANGED <<tables, locked, present>>

\* RevokeUserSessions finds the rows its snapshot shows ...
FindSessions(p) ==
  LET found == {s \in Sessions : AgentOf[s] = tx[p].row /\ session[s] \in NotRevoked} IN
  /\ tx[p].pc = "findSessions"
  /\ Advance(p, IF found = {} THEN "writeAudit" ELSE "lockSessions")
  /\ work' = [work EXCEPT ![p].targets = found]
  /\ UNCHANGED <<tables, locked, present>>

\* (fault) No second look at a session that was locked.
RevokeFoundSession(p, s) ==
  /\ tx[p].pc = "lockSessions"
  /\ s \in work[p].targets /\ Free(p, s)
  /\ Advance(p, IF work[p].targets = {s} THEN "writeAudit" ELSE "lockSessions")
  /\ work' = [work EXCEPT ![p].targets = @ \ {s}, ![p].revoked = @ \cup {s}]
  /\ Lock(p, s)
  /\ UNCHANGED <<tables, present>>

\* ... and updates each, if it is still not revoked once it is unlocked.
LockSession(p, s) ==
  /\ tx[p].pc = "lockSessions"
  /\ s \in work[p].targets /\ Free(p, s)
  /\ Advance(p, IF work[p].targets = {s} THEN "writeAudit" ELSE "lockSessions")
  /\ work' = [work EXCEPT ![p].targets = @ \ {s},
                ![p].revoked = @ \cup {r \in {s} : session[r] \in NotRevoked}]
  /\ Lock(p, s)
  /\ UNCHANGED <<tables, present>>

\* CreateSession
InsertSession(p) ==
  /\ tx[p].pc = "insertSession"
  /\ Advance(p, "writeAudit")
  /\ work' = [work EXCEPT ![p].inserted = {tx[p].row}]
  /\ UNCHANGED <<tables, locked, present>>

\* GetActiveSession, a statement of its own that writes last_used_at.
GetSession(p) ==
  /\ tx[p].pc = "getSession"
  /\ Free(p, tx[p].row)
  /\ IF session[tx[p].row] # "live"
     THEN Rollback(p, "ErrUnauthenticated")
     ELSE Advance(p, "revokeSession") /\ UNCHANGED <<tables, work, locked, present>>

\* RevokeSession: nothing is left to do when the session is revoked already.
RevokeSession(p) ==
  LET s == tx[p].row IN
  /\ tx[p].pc = "revokeSession"
  /\ Free(p, s)
  /\ IF session[s] \notin NotRevoked
     THEN Rollback(p, "done")
     ELSE /\ Advance(p, "writeAudit")
          /\ Lock(p, s)
          /\ work' = [work EXCEPT ![p].revoked = {s}]
          /\ UNCHANGED <<tables, present>>

\* The audit events of each transaction.
EventsOf(p) ==
  CASE tx[p].op = "signIn" -> {<<tx[p].row, "user_signed_in">>}
    [] tx[p].op = "logout" -> {<<tx[p].row, "session_revoked">>}
    [] tx[p].op = "reinstate" -> {<<tx[p].row, "agent_reinstated">>}
    [] tx[p].op = "revokeRole" ->
         {<<s, "session_revoked_by_role_change">> : s \in work[p].revoked}
    [] OTHER -> {<<tx[p].row, "agent_suspended">>} \cup
         {<<s, "session_revoked_by_agent_suspension">> : s \in work[p].revoked}

Record(log, events) ==
  [r \in DOMAIN log |-> IF \E e \in events : e[1] = r
                        THEN Append(log[r], (CHOOSE e \in events : e[1] = r)[2])
                        ELSE log[r]]

\* CreateAuditEvent, for every session and for the agent
WriteAudit(p) ==
  /\ tx[p].pc = "writeAudit"
  /\ Advance(p, "commit")
  /\ work' = [work EXCEPT ![p].events = EventsOf(p)]
  /\ UNCHANGED <<tables, locked, present>>

\* COMMIT, whose acknowledgement can be late.
Commit(p) ==
  LET w == work[p] IN
  /\ tx[p].pc = "commit"
  /\ \E answer \in {"done", "ErrInternal"} : Finish(p, answer)
  /\ status' = [a \in Agents |-> IF a \in w.status THEN After(tx[p].op) ELSE status[a]]
  /\ applications' = [a \in Agents |-> IF a \in w.applications THEN After(tx[p].op)
                                                               ELSE applications[a]]
  /\ session' = [s \in Sessions |-> CASE s \in w.inserted -> "live"
                                      [] s \in w.revoked  -> "revoked"
                                      [] OTHER            -> session[s]]
  /\ audit' = Record(audit, w.events)

\* queryTimeout, a lost connection or a crash.
Interrupt(p) == InTransaction(p) /\ Rollback(p, "ErrInternal")

\* PostgreSQL ends a wait cycle by aborting one of its transactions.
DeadlockAbort(p) ==
  /\ Blockers(p) # {}
  /\ InCycle([q \in Procs |-> Blockers(q)], p)
  /\ Rollback(p, "ErrInternal")

Return(p) ==
  /\ tx[p].pc \in Answers
  /\ tx' = [tx EXCEPT ![p] = Idle]
  /\ UNCHANGED <<tables, work, locked, present>>

\* expires_at passes.
Expire(s) ==
  /\ session[s] = "live"
  /\ session' = [session EXCEPT ![s] = "expired"]
  /\ UNCHANGED <<status, applications, audit, tx, work, locked, present>>

Start(p) ==
  \/ \E op \in LifecycleOps, a \in Agents : StartLifecycle(p, op, a)
  \/ \E s \in Sessions : StartSignIn(p, s) \/ StartLogout(p, s)
  \/ \E a \in Agents : StartRoleRevocation(p, a)

Statement(p) ==
  \/ LockAgent(p)    \/ CheckScope(p)    \/ UpdateAgent(p) \/ UpdateApplications(p)
  \/ FindSessions(p) \/ InsertSession(p) \/ GetSession(p)  \/ RevokeSession(p)
  \/ WriteAudit(p)   \/ Commit(p)
  \/ \E s \in Sessions : LockSession(p, s)

Next ==
  \/ \E p \in Procs : \/ Start(p)         \/ Statement(p) \/ Interrupt(p)
                      \/ DeadlockAbort(p) \/ Return(p)
  \/ \E s \in Sessions : Expire(s)

Spec == Init /\ [][Next]_vars

\* A connection keeps executing statements, and a row goes to its waiters in
\* order, hence strong fairness; PostgreSQL looks for cycles.
Fairness == \A p \in Procs : SF_vars(Statement(p)) /\ WF_vars(DeadlockAbort(p))

FairSpec == Spec /\ Fairness
-----------------------------------------------------------------------------
TypeOK ==
  /\ status \in [Agents -> AgentStatus]
  /\ applications \in [Agents -> AgentStatus]
  /\ session \in [Sessions -> SessionStatus]
  /\ audit \in [Agents \cup Sessions -> Seq(Actions)]
  /\ tx \in [Procs -> Transaction]
  /\ work \in [Procs -> Work]
  /\ locked \in [Procs -> SUBSET (Agents \cup Sessions)]
  /\ present \in [Procs -> SUBSET Sessions]

\* No interleaving of suspensions and reinstatements separates an agent from
\* its application.
ApplicationsFollow == applications = status

\* The audit events of an agent are a history that could have happened, one
\* change after the other, and that ends in the agent's status.
AgentsAudited ==
  \A a \in Agents :
    /\ \A i \in 1..Len(audit[a]) :
         audit[a][i] = IF i % 2 = 1 THEN "agent_suspended" ELSE "agent_reinstated"
    /\ status[a] = IF Len(audit[a]) % 2 = 1 THEN "suspended" ELSE "active"

Revocations == {"session_revoked", "session_revoked_by_agent_suspension",
                "session_revoked_by_role_change"}

\* A session has one sign-in event and, once revoked, one revocation event,
\* though its user, a suspension and a role change may all be ending it.
SessionsAudited ==
  \A s \in Sessions :
    /\ session[s] = "none" => audit[s] = <<>>
    /\ session[s] \in NotRevoked => audit[s] = <<"user_signed_in">>
    /\ session[s] = "revoked" => /\ Len(audit[s]) = 2 /\ audit[s][1] = "user_signed_in"
                                 /\ audit[s][2] \in Revocations

\* What the statements of a request can rely on.  Its place: the statements of
\* its operation, and a row of the kind that the operation is about.
Path(op) ==
  {"writeAudit", "commit"} \cup
  CASE op = "suspend"    -> {"lockAgent", "checkScope", "updateAgent", "updateApplications",
                             "findSessions", "lockSessions"}
    [] op = "reinstate"  -> {"lockAgent", "checkScope", "updateAgent", "updateApplications"}
    [] op = "revokeRole" -> {"findSessions", "lockSessions"}
    [] op = "signIn"     -> {"insertSession"}
    [] OTHER             -> {"getSession", "revokeSession"}
RequestOK(p) ==
  /\ tx[p].op \in Ops /\ tx[p].pc \in Path(tx[p].op)
  /\ tx[p].row \in IF tx[p].op \in {"signIn", "logout"} THEN Sessions ELSE Agents
  /\ tx[p].op = "signIn" => session[tx[p].row] = "none"

\* The agent's row is locked before its status is looked at, and has this
\* status until the commit, which changes it and the application's.
Past(p, steps) == tx[p].op \in LifecycleOps /\ tx[p].pc \notin steps
AgentOK(p) ==
  /\ Past(p, {"lockAgent"}) => tx[p].row \in locked[p]
  /\ Past(p, {"lockAgent", "checkScope"}) => status[tx[p].row] = Before(tx[p].op)
  /\ work[p].status = {a \in {tx[p].row} :
                         Past(p, {"lockAgent", "checkScope", "updateAgent"})}
  /\ work[p].applications = {a \in {tx[p].row} :
       Past(p, {"lockAgent", "checkScope", "updateAgent", "updateApplications"})}

\* The sessions it ends are locked and not revoked.  Those that it could know of
\* when it began are revoked, to be locked, or ended by it once it has looked.
SessionsOK(p) ==
  /\ work[p].inserted = {s \in {tx[p].row} : tx[p].op = "signIn" /\ tx[p].pc # "insertSession"}
  /\ work[p].revoked \subseteq locked[p]
  /\ \A s \in work[p].revoked : session[s] \in NotRevoked
  /\ tx[p].op \notin Revoking =>
       work[p].revoked = {s \in {tx[p].row} : tx[p].op = "logout"
                                             /\ tx[p].pc \in {"writeAudit", "commit"}}
  /\ tx[p].pc # "lockSessions" => work[p].targets = {}
  /\ tx[p].op \in Revoking =>
       \A s \in present[p] :
         /\ AgentOf[s] = tx[p].row /\ session[s] # "none"
         /\ tx[p].pc \in {"lockSessions", "writeAudit", "commit"} =>
              session[s] = "revoked" \/ s \in work[p].targets \cup work[p].revoked

OwnOK(p) ==
  IF InTransaction(p)
  THEN /\ RequestOK(p) /\ AgentOK(p) /\ SessionsOK(p)
       /\ tx[p].pc = "commit" => work[p].events = EventsOf(p)
  ELSE work[p] = NoWork /\ locked[p] = {}

\* Two transactions have locked different rows, and insert different sessions.
ApartOK(p, q) ==
  /\ locked[p] \cap locked[q] = {}
  /\ tx[p].op = "signIn" /\ tx[q].op = "signIn" => tx[p].row # tx[q].row

\* The audit log tells what happened to agents and to sessions, in tables that
\* keep their types; with what each request relies on, enough to be preserved
\* by every step.
LifecycleInv ==
  /\ TypeOK /\ ApplicationsFollow /\ AgentsAudited /\ SessionsAudited
  /\ \A p \in Procs : OwnOK(p)
  /\ \A p, q \in Procs : p # q => ApartOK(p, q)

\* Whatever else updates them meanwhile, the sessions that a suspension or a
\* role revocation could know of when it began have ended when it commits.
KnownSessionsEnd ==
  [][\A p \in Procs : tx[p].op \in Revoking /\ Commit(p) =>
       \A s \in present[p] : session'[s] = "revoked"]_vars

\* docs/domain.md: "all non-revoked sessions for the linked user are revoked".
SuspensionRevokesEverySession ==
  [][\A p \in Procs : tx[p].op = "suspend" /\ Commit(p) =>
       \A s \in Sessions : AgentOf[s] = tx[p].row => session'[s] \notin NotRevoked]_vars

\* Requests wait for each other's rows, a suspension and a role revocation for
\* sessions in opposite orders too, but no request waits for ever.
EveryRequestAnswered ==
  \A p \in Procs : InTransaction(p) ~> ~InTransaction(p)
=============================================================================
