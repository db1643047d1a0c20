------------------------- MODULE AgentApplications -------------------------
(***************************************************************************)
(* Applications to become an agent: a user submits one for a campus, a     *)
(* reviewer of that campus activates or declines it, and activation        *)
(* creates the agent.  Each request is one READ COMMITTED transaction,     *)
(* taken here one SQL statement at a time, with the row locks and unique   *)
(* indexes it can wait for.  What a transaction writes stays in work[p],   *)
(* invisible to the others, until it commits.                              *)
(*                                                                         *)
(* Source: src/api/internal/repo/agent_application.go and                  *)
(* src/api/queries/agent_applications.sql.                                 *)
(***************************************************************************)
EXTENDS Sequences, RowLocks

CONSTANTS
  Users, Campuses, Phones, Agents, Procs,
  Apps,           \* keys of agent_applications, one for each submission
  ApplicantOf, CampusOf, PhoneOf,   \* what each submission says
  ActiveCampuses, \* campuses with is_active
  Roles,          \* the reviewer roles the admin CLI grants and revokes
  Global,         \* the scope of a global_admin role
  None

ASSUME ContentAssumption ==
  /\ ApplicantOf \in [Apps -> Users]
  /\ CampusOf \in [Apps -> Campuses]
  /\ PhoneOf \in [Apps -> Phones]
  /\ ActiveCampuses \subseteq Campuses

ASSUME RoleAssumption ==
  /\ Global \notin Campuses
  /\ Roles \subseteq Users \X (Campuses \cup {Global})

ASSUME NoneAssumption ==
  None \notin Apps \cup Users \cup Agents

VARIABLES
  roles,          \* rows of global_admin_roles and campus_operators
  application,    \* [Apps -> ApplicationRow]
  agents,         \* rows of agents
  agentCampuses,  \* rows of agent_campuses
  audit,          \* [Apps -> Seq(Event)], audit_events of each application
  tx,             \* [Procs -> Transaction], the request a process serves
  work,           \* [Procs -> Work], the rows it has written, uncommitted
  held,           \* [Procs -> SUBSET Locks], the row locks it holds
  scope           \* history: the campuses the actor of p's request could
                  \* review at some moment since the request began

tables == <<application, agents, agentCampuses, audit>>
vars == <<roles, tables, tx, work, held, scope>>

-----------------------------------------------------------------------------
\* The rows.

Statuses == {"none", "pending", "active", "declined"}
ApplicationRow ==
  [status : Statuses, agent : Agents \cup {None}, reviewer : Users \cup {None}]
NoRow == [status |-> "none", agent |-> None, reviewer |-> None]

AgentRow == [id : Agents, user : Users, phone : Phones]
Event    == [action : {"activated", "declined"}, actor : Users]

ApplicationKey(a) == Row("agent_applications", a)
UserKey(u)        == Row("users", u)
Locks == LocksOn([table : {"agent_applications", "users"}, id : Apps \cup Users])

Ops == {"create", "activate", "decline"}
Answers == {"created", "activated", "declined", "ErrNotFound",
            "ErrAlreadyLinked", "ErrApplicationConflict", "ErrCampusForbidden",
            "ErrApplicationResolved", "ErrPhoneConflict", "ErrInternal"}
Waiting == {"loadApplication", "lockApplicant", "insertApplication",
            "insertAgent", "referenceReviewer"}
Running == {"checkScope", "checkLinked", "associateCampus",
            "updateApplication", "writeAudit", "commit"}

Transaction ==
  [pc : {"idle"} \cup Waiting \cup Running \cup Answers,
   op : Ops \cup {"none"}, app : Apps \cup {None}, actor : Users \cup {None}]
Idle == [pc |-> "idle", op |-> "none", app |-> None, actor |-> None]

Work == [application : ApplicationRow, agents : SUBSET AgentRow,
         campuses : SUBSET (Agents \X Campuses), events : Seq(Event)]
NoWork == [application |-> NoRow, agents |-> {}, campuses |-> {}, events |-> <<>>]

InTransaction(p) == tx[p].pc \in Waiting \cup Running

-----------------------------------------------------------------------------
\* The queries.

CanReviewCampus(u, c) == <<u, Global>> \in roles \/ <<u, c>> \in roles
HasLinkedAgent(u)     == \E g \in agents : g.user = u

\* (fault) The schema before migration 8: phone numbers are not unique.
ClashingUsers(a) == {g \in agents : g.user = ApplicantOf[a]}

\* agents.phone_number and agents.user_id are unique.
ClashingAgents(a) ==
  {g \in agents : g.user = ApplicantOf[a] \/ g.phone = PhoneOf[a]}

\* (fault) The partial unique index is missing.
NoDuplicates(a) == {}

\* agent_applications_pending_user_campus_unique
SamePendingKey(a, b) ==
  ApplicantOf[a] = ApplicantOf[b] /\ CampusOf[a] = CampusOf[b]
PendingDuplicates(a) ==
  {b \in Apps : SamePendingKey(a, b) /\ application[b].status = "pending"}

\* An insert into a unique index waits for the transactions that are writing
\* a row with the same key.
PendingWriters(p) ==
  {q \in Procs \ {p} : /\ work[q].application # NoRow
                       /\ SamePendingKey(tx[p].app, tx[q].app)
                       /\ "pending" \in {application[tx[q].app].status,
                                         work[q].application.status}}
AgentWriters(p) ==
  {q \in Procs \ {p} : \E g \in work[q].agents :
     g.user = ApplicantOf[tx[p].app] \/ g.phone = PhoneOf[tx[p].app]}

\* The transactions that p's next statement has to wait for.
Blockers(p) ==
  LET a == tx[p].app IN
  CASE tx[p].pc = "loadApplication" ->
         IF application[a] = NoRow THEN {}
         ELSE Holders(held, p, ForUpdate(ApplicationKey(a)))
    [] tx[p].pc = "lockApplicant" ->
         Holders(held, p, ForUpdate(UserKey(ApplicantOf[a])))
    [] tx[p].pc = "referenceReviewer" ->
         Holders(held, p, KeyShare(UserKey(tx[p].actor)))
    [] tx[p].pc = "insertApplication" -> PendingWriters(p)
    [] tx[p].pc = "insertAgent"       -> AgentWriters(p)
    [] OTHER -> {}

\* Process p executes the statement at pc: nothing it waits for is left.
At(p, pc) == tx[p].pc = pc /\ Blockers(p) = {}

Advance(p, pc) == tx' = [tx EXCEPT ![p].pc = pc]
Acquire(p, l)  == held' = [held EXCEPT ![p] = @ \cup {l}]

\* (fault) An error path that returns without the deferred Rollback.
FinishWithoutRollback(p, answer) ==
  /\ Advance(p, answer)
  /\ work' = [work EXCEPT ![p] = NoWork]
  /\ held' = held

\* The transaction ends, its locks go and the request is answered.
Finish(p, answer) ==
  /\ Advance(p, answer)
  /\ work' = [work EXCEPT ![p] = NoWork]
  /\ held' = [held EXCEPT ![p] = {}]

Rollback(p, answer) == Finish(p, answer) /\ UNCHANGED <<roles, tables, scope>>
-----------------------------------------------------------------------------
Init ==
  /\ roles \in SUBSET Roles
  /\ application = [a \in Apps |-> NoRow]
  /\ agents = {}
  /\ agentCampuses = {}
  /\ audit = [a \in Apps |-> <<>>]
  /\ tx = [p \in Procs |-> Idle]
  /\ work = [p \in Procs |-> NoWork]
  /\ held = [p \in Procs |-> {}]
  /\ scope = [p \in Procs |-> {}]

Begin(p, op, pc, a, u) ==
  /\ tx[p] = Idle
  /\ tx' = [tx EXCEPT ![p] = [pc |-> pc, op |-> op, app |-> a, actor |-> u]]
  /\ scope' = [scope EXCEPT ![p] = {c \in Campuses : CanReviewCampus(u, c)}]
  /\ UNCHANGED <<roles, tables, work, held>>

\* createAgentApplication: a new submission, whose key no other request has.
StartCreate(p, a) ==
  /\ application[a] = NoRow
  /\ \A q \in Procs : tx[q].op = "create" => tx[q].app # a
  /\ Begin(p, "create", "lockApplicant", a, ApplicantOf[a])

\* The admin CLI activates for any actor it is given, with no role check.
StartActivate(p, a, u) == Begin(p, "activate", "loadApplication", a, u)

\* requireCampusOperator lets a request through for any campus role.
StartDecline(p, a, u) ==
  /\ \E c \in Campuses : CanReviewCampus(u, c)
  /\ Begin(p, "decline", "loadApplication", a, u)

\* SELECT ... FOR UPDATE OF aa
LoadApplication(p) ==
  LET a == tx[p].app IN
  /\ At(p, "loadApplication")
  /\ IF application[a] = NoRow
     THEN Rollback(p, "ErrNotFound")
     ELSE /\ Advance(p, "checkScope")
          /\ Acquire(p, ForUpdate(ApplicationKey(a)))
          /\ UNCHANGED <<roles, tables, work, scope>>

\* (fault) Only the middleware checks the operator, for any campus.
CheckScopeOfMiddleware(p) ==
  /\ At(p, "checkScope")
  /\ IF application[tx[p].app].status # "pending"
     THEN Rollback(p, "ErrApplicationResolved")
     ELSE /\ Advance(p, IF tx[p].op = "activate" THEN "lockApplicant"
                                                 ELSE "updateApplication")
          /\ UNCHANGED <<roles, tables, work, held, scope>>

\* CanReviewCampus, then the check of the status that was read: the row is
\* locked, so it still has that status.
CheckScope(p) ==
  LET a == tx[p].app IN
  /\ At(p, "checkScope")
  /\ CASE ~CanReviewCampus(tx[p].actor, CampusOf[a]) ->
            Rollback(p, "ErrCampusForbidden")
       [] CanReviewCampus(tx[p].actor, CampusOf[a])
          /\ application[a].status # "pending" ->
            Rollback(p, "ErrApplicationResolved")
       [] OTHER ->
            /\ Advance(p, IF tx[p].op = "activate" THEN "lockApplicant"
                                                   ELSE "updateApplication")
            /\ UNCHANGED <<roles, tables, work, held, scope>>

\* (fault) SELECT ... FROM users without FOR UPDATE.
ReadApplicant(p) ==
  /\ At(p, "lockApplicant")
  /\ Advance(p, "checkLinked")
  /\ UNCHANGED <<roles, tables, work, held, scope>>

\* SELECT ... FROM users ... FOR UPDATE
LockApplicant(p) ==
  /\ At(p, "lockApplicant")
  /\ Advance(p, "checkLinked")
  /\ Acquire(p, ForUpdate(UserKey(ApplicantOf[tx[p].app])))
  /\ UNCHANGED <<roles, tables, work, scope>>

CheckLinked(p) ==
  /\ At(p, "checkLinked")
  /\ IF HasLinkedAgent(ApplicantOf[tx[p].app])
     THEN Rollback(p, "ErrAlreadyLinked")
     ELSE /\ Advance(p, IF tx[p].op = "activate" THEN "insertAgent"
                                                 ELSE "insertApplication")
          /\ UNCHANGED <<roles, tables, work, held, scope>>

\* INSERT ... SELECT ... FROM campuses WHERE is_active
InsertApplication(p) ==
  LET a == tx[p].app IN
  /\ At(p, "insertApplication")
  /\ CASE CampusOf[a] \notin ActiveCampuses -> Rollback(p, "ErrNotFound")
       [] CampusOf[a] \in ActiveCampuses /\ PendingDuplicates(a) # {} ->
            Rollback(p, "ErrApplicationConflict")
       [] OTHER ->
            /\ Advance(p, "commit")
            /\ work' = [work EXCEPT ![p].application =
                          [NoRow EXCEPT !.status = "pending"]]
            /\ UNCHANGED <<roles, tables, held, scope>>

\* CreateAgent, under a new key; any unique violation is a phone conflict.
InsertAgent(p) ==
  LET a == tx[p].app IN
  /\ At(p, "insertAgent")
  /\ IF ClashingAgents(a) # {}
     THEN Rollback(p, "ErrPhoneConflict")
     ELSE /\ Advance(p, "associateCampus")
          /\ \E g \in Agents :
               /\ \A row \in agents \cup UNION {work[q].agents : q \in Procs} :
                    row.id # g
               /\ work' = [work EXCEPT ![p].agents =
                    {[id |-> g, user |-> ApplicantOf[a], phone |-> PhoneOf[a]]}]
          /\ UNCHANGED <<roles, tables, held, scope>>

\* AssociateAgentWithCampus
AssociateCampus(p) ==
  /\ At(p, "associateCampus")
  /\ Advance(p, "updateApplication")
  /\ work' = [work EXCEPT ![p].campuses =
                {<<g.id, CampusOf[tx[p].app]>> : g \in work[p].agents}]
  /\ UNCHANGED <<roles, tables, held, scope>>

\* The row an UPDATE of the application writes.
Decided(p) ==
  IF tx[p].op = "decline"
  THEN {[status |-> "declined", agent |-> None, reviewer |-> tx[p].actor]}
  ELSE {[status |-> "active", agent |-> g.id, reviewer |-> tx[p].actor]
          : g \in work[p].agents}

\* ActivateAgentApplication or DeclineAgentApplication: UPDATE ... WHERE
\* status = 'pending'.
UpdateApplication(p) ==
  /\ At(p, "updateApplication")
  /\ IF application[tx[p].app].status # "pending"
     THEN Rollback(p, "ErrApplicationResolved")
     ELSE /\ Advance(p, "referenceReviewer")
          /\ \E row \in Decided(p) :
               work' = [work EXCEPT ![p].application = row]
          /\ UNCHANGED <<roles, tables, held, scope>>

\* The foreign key of reviewer_user_id, checked at the end of the UPDATE.
ReferenceReviewer(p) ==
  /\ At(p, "referenceReviewer")
  /\ Advance(p, "writeAudit")
  /\ Acquire(p, KeyShare(UserKey(tx[p].actor)))
  /\ UNCHANGED <<roles, tables, work, scope>>

\* (fault) The event is written on another connection, outside the transaction.
WriteAuditOutside(p) ==
  /\ At(p, "writeAudit")
  /\ Advance(p, "commit")
  /\ audit' = [audit EXCEPT ![tx[p].app] = Append(@,
       [action |-> IF tx[p].op = "activate" THEN "activated" ELSE "declined",
        actor |-> tx[p].actor])]
  /\ UNCHANGED <<roles, application, agents, agentCampuses, work, held, scope>>

\* CreateAuditEvent
WriteAudit(p) ==
  /\ At(p, "writeAudit")
  /\ Advance(p, "commit")
  /\ work' = [work EXCEPT ![p].events = Append(@,
       [action |-> IF tx[p].op = "activate" THEN "activated" ELSE "declined",
        actor |-> tx[p].actor])]
  /\ UNCHANGED <<roles, tables, held, scope>>

Success(op) == CASE op = "create"   -> "created"
                 [] op = "activate" -> "activated"
                 [] OTHER           -> "declined"

\* COMMIT makes the writes visible.  The request can still fail after it: the
\* acknowledgement is late, or CreateApplication cannot read the row back.
Commit(p) ==
  LET a == tx[p].app IN
  /\ At(p, "commit")
  /\ \E answer \in {Success(tx[p].op), "ErrInternal"} : Finish(p, answer)
  /\ application' = [application EXCEPT ![a] = work[p].application]
  /\ agents' = agents \cup work[p].agents
  /\ agentCampuses' = agentCampuses \cup work[p].campuses
  /\ audit' = [audit EXCEPT ![a] = @ \o work[p].events]
  /\ UNCHANGED <<roles, scope>>

\* queryTimeout, a lost connection or a crash: the transaction rolls back.
Interrupt(p) == InTransaction(p) /\ Rollback(p, "ErrInternal")

\* PostgreSQL ends a wait cycle by aborting one of its transactions.
DeadlockAbort(p) ==
  /\ InTransaction(p)
  /\ InCycle([q \in Procs |-> Blockers(q)], p)
  /\ Rollback(p, "ErrInternal")

\* The answer has been sent.
Return(p) ==
  /\ tx[p].pc \in Answers
  /\ tx' = [tx EXCEPT ![p] = Idle]
  /\ scope' = [scope EXCEPT ![p] = {}]
  /\ UNCHANGED <<roles, tables, work, held>>

\* `admin grant` and `admin revoke`.
ChangeRole(r) ==
  /\ roles' = IF r \in roles THEN roles \ {r} ELSE roles \cup {r}
  /\ scope' = [p \in Procs |-> scope[p] \cup
       {c \in Campuses : /\ tx[p] # Idle
                         /\ r[1] = tx[p].actor /\ r[2] \in {c, Global}
                         /\ r \notin roles}]
  /\ UNCHANGED <<tables, tx, work, held>>

Statement(p) ==
  \/ LoadApplication(p)   \/ CheckScope(p)        \/ LockApplicant(p)
  \/ CheckLinked(p)       \/ InsertApplication(p) \/ InsertAgent(p)
  \/ AssociateCampus(p)   \/ UpdateApplication(p) \/ ReferenceReviewer(p)
  \/ WriteAudit(p)        \/ Commit(p)

Start(p) ==
  \E a \in Apps :
    \/ StartCreate(p, a)
    \/ \E u \in Users : StartActivate(p, a, u) \/ StartDecline(p, a, u)

Next ==
  \/ \E p \in Procs : \/ Start(p)     \/ Statement(p) \/ Interrupt(p)
                      \/ DeadlockAbort(p) \/ Return(p)
  \/ \E r \in Roles : ChangeRole(r)

Spec == Init /\ [][Next]_vars

\* A connection keeps executing statements, PostgreSQL grants a lock to its
\* waiters in order (hence strong fairness) and looks for cycles.
Fairness ==
  \A p \in Procs : SF_vars(Statement(p)) /\ WF_vars(DeadlockAbort(p))

FairSpec == Spec /\ Fairness
-----------------------------------------------------------------------------
TypeOK ==
  /\ roles \subseteq Roles
  /\ application \in [Apps -> ApplicationRow]
  /\ agents \subseteq AgentRow
  /\ agentCampuses \subseteq Agents \X Campuses
  /\ audit \in [Apps -> Seq(Event)]
  /\ tx \in [Procs -> Transaction]
  /\ work \in [Procs -> Work]
  /\ held \in [Procs -> SUBSET Locks]
  /\ scope \in [Procs -> SUBSET Campuses]

\* Whatever was interrupted and retried, an application has an audit event
\* exactly when it was decided, one that names the decision and its reviewer.
AuditMatches ==
  \A a \in Apps :
    audit[a] = CASE application[a].status \in {"none", "pending"} -> <<>>
                 [] application[a].status = "active" ->
                      <<[action |-> "activated", actor |-> application[a].reviewer]>>
                 [] OTHER ->
                      <<[action |-> "declined", actor |-> application[a].reviewer]>>

\* agents, agent_campuses and the active applications are one relation: each
\* agent came from one application, with its user, phone number and campus.
AgentsMatch ==
  /\ \A a \in Apps : application[a].status = "active" =>
       /\ [id |-> application[a].agent, user |-> ApplicantOf[a],
           phone |-> PhoneOf[a]] \in agents
       /\ <<application[a].agent, CampusOf[a]>> \in agentCampuses
  /\ \A g \in agents : \E a \in Apps :
       application[a].status = "active" /\ application[a].agent = g.id
  /\ \A g \in agents, h \in agents :
       g.id = h.id \/ g.user = h.user \/ g.phone = h.phone => g = h

\* An answer that names a reason names the real one.  In particular a request
\* that raced another for the same user is told ErrAlreadyLinked; it is told
\* ErrPhoneConflict only if another user's agent has the phone number, though
\* the code reports every unique violation of CreateAgent that way.
Truthful(p) ==
  LET a == tx[p].app
      answer == tx[p].pc IN
  /\ answer = "created"   => application[a].status # "none"
  /\ answer = "activated" => application[a].status = "active"
  /\ answer = "declined"  => application[a].status = "declined"
  /\ answer = "ErrAlreadyLinked" => HasLinkedAgent(ApplicantOf[a])
  /\ answer = "ErrPhoneConflict" =>
       \E g \in agents : g.phone = PhoneOf[a] /\ g.user # ApplicantOf[a]
  /\ answer = "ErrApplicationResolved" =>
       application[a].status \in {"active", "declined"}
TruthfulAnswers == \A p \in Procs : Truthful(p)

\* The role check comes before the commit, and roles change in between: what
\* is certain is that the reviewer of a decision had authority over the campus
\* at some moment of the request.
ReviewedInScope ==
  [][\A p \in Procs : tx[p].op \in {"activate", "decline"} /\ Commit(p)
       => CampusOf[tx[p].app] \in scope[p]]_vars

\* Onboarding implements its abstract specification.
Stages == INSTANCE AgentStages
            WITH stage <- [a \in Apps |-> application[a].status]
ImplementsStages == Stages!Spec

\* Requests wait for each other's locks, in cycles too, but no request waits
\* for ever.
EveryRequestAnswered ==
  \A p \in Procs : InTransaction(p) ~> ~InTransaction(p)
=============================================================================
