------------------------ MODULE AgentLifecycleProofs ------------------------
(***************************************************************************)
(* Proofs about AgentLifecycle, for every set of agents, sessions and      *)
(* concurrent requests, and every bound on changes.                        *)
(***************************************************************************)
EXTENDS AgentLifecycle, TLAPS

\* Suspensions and reinstatements alternate: one more event of a log changes
\* the parity.
LEMMA Parity ==
  /\ \A n : n = 0 => ~(n % 2 = 1)
  /\ \A n \in Nat : ((n + 1) % 2 = 1) <=> ~(n % 2 = 1)
OBVIOUS

USE SessionAssumption, DistinctAssumption, BoundAssumption

Pcs == {"idle"} \cup Steps \cup Answers

\* A request that is idle, or has its answer, keeps nothing else.
LEMMA IdleType ==
  /\ Idle \in Transaction /\ Idle.pc = "idle" /\ Idle.op = "none" /\ Idle.row = None
  /\ \A answer \in Answers : /\ [Idle EXCEPT !.pc = answer] \in Transaction
                             /\ [Idle EXCEPT !.pc = answer].pc = answer
                             /\ [Idle EXCEPT !.pc = answer].op = "none"
<1>1. Idle \in Transaction /\ Idle.pc = "idle" /\ Idle.op = "none" /\ Idle.row = None
  BY DEF Idle, Transaction
<1> QED
  BY <1>1 DEF Transaction

LEMMA NoWorkType ==
  /\ NoWork \in Work /\ NoWork.status = {} /\ NoWork.applications = {}
  /\ NoWork.targets = {} /\ NoWork.inserted = {} /\ NoWork.revoked = {}
BY DEF NoWork, Work

\* Going on to another statement changes only the program counter of p.
LEMMA AdvanceType ==
  ASSUME TypeOK, NEW p \in Procs, NEW pc \in Pcs, Advance(p, pc)
  PROVE  /\ tx' \in [Procs -> Transaction]
         /\ tx'[p].pc = pc /\ tx'[p].op = tx[p].op /\ tx'[p].row = tx[p].row
         /\ \A q \in Procs \ {p} : tx'[q] = tx[q]
<1>1. tx \in [Procs -> Transaction]
  BY DEF TypeOK
<1>2. tx[p] \in Transaction /\ [tx[p] EXCEPT !.pc = pc] \in Transaction
  BY <1>1 DEF Transaction, Pcs
<1>3. tx'[p] = [tx[p] EXCEPT !.pc = pc]
  BY <1>1 DEF Advance
<1> QED
  BY <1>1, <1>2, <1>3 DEF Advance, Transaction

\* Locking a row changes only what p has locked.
LEMMA LockType ==
  ASSUME TypeOK, NEW p \in Procs, NEW row \in Agents \cup Sessions, Lock(p, row)
  PROVE  /\ locked' \in [Procs -> SUBSET (Agents \cup Sessions)]
         /\ locked'[p] = locked[p] \cup {row}
         /\ \A q \in Procs \ {p} : locked'[q] = locked[q]
BY DEF Lock, TypeOK

-----------------------------------------------------------------------------
\* A step that leaves the tables alone has to be checked for p only.

Same(q) == /\ tx'[q] = tx[q] /\ work'[q] = work[q]
           /\ locked'[q] = locked[q] /\ present'[q] = present[q]

\* What a request relies on survives a step of another one that leaves the
\* tables alone.
LEMMA OwnSame ==
  ASSUME NEW q \in Procs, OwnOK(q), Same(q), UNCHANGED tables
  PROVE  OwnOK(q)'
<1>1. tx'[q] = tx[q] /\ work'[q] = work[q] /\ locked'[q] = locked[q]
      /\ present'[q] = present[q] /\ status' = status /\ session' = session
  BY DEF Same, tables
<1>2. InTransaction(q)' <=> InTransaction(q)
  BY <1>1 DEF InTransaction
<1>3. RequestOK(q) => RequestOK(q)'
  BY <1>1 DEF RequestOK
<1>4. AgentOK(q) => AgentOK(q)'
  BY <1>1 DEF AgentOK, Past
<1>5. SessionsOK(q) => SessionsOK(q)'
  BY <1>1 DEF SessionsOK
<1>6. EventsOf(q)' = EventsOf(q)
  BY <1>1 DEF EventsOf
<1> QED
  BY <1>1, <1>2, <1>3, <1>4, <1>5, <1>6 DEF OwnOK

\* A step of p that leaves the tables alone preserves the invariant once it
\* preserves what is said of p.
LEMMA Frame ==
  ASSUME LifecycleInv, NEW p \in Procs, UNCHANGED tables, TypeOK',
         \A q \in Procs \ {p} : Same(q),
         OwnOK(p)', \A q \in Procs \ {p} : ApartOK(p, q)'
  PROVE  LifecycleInv'
<1>1. \A q \in Procs : OwnOK(q)'
  BY OwnSame DEF LifecycleInv
<1>2. ASSUME NEW q \in Procs, NEW r \in Procs, q # r PROVE ApartOK(q, r)'
  <2>1. CASE q = p
    BY <1>2, <2>1
  <2>2. CASE r = p
    <3>1. ApartOK(p, q)'
      BY <1>2, <2>2
    <3> QED
      BY <3>1, <2>2 DEF ApartOK
  <2>3. CASE q # p /\ r # p
    <3>1. ApartOK(q, r) /\ Same(q) /\ Same(r)
      BY <1>2, <2>3 DEF LifecycleInv
    <3> QED
      BY <3>1 DEF ApartOK, Same
  <2> QED
    BY <2>1, <2>2, <2>3
<1>3. ApplicationsFollow' /\ AgentsAudited' /\ SessionsAudited'
  BY DEF LifecycleInv, ApplicationsFollow, AgentsAudited, SessionsAudited, tables
<1> QED
  BY <1>1, <1>2, <1>3 DEF LifecycleInv

\* p goes on to another statement of its transaction, and may lock a row that
\* nobody else has locked.
LEMMA StatementFrame ==
  ASSUME LifecycleInv, NEW p \in Procs, InTransaction(p), NEW pc \in Steps, Advance(p, pc),
         UNCHANGED <<tables, present>>,
         work' \in [Procs -> Work], locked' \in [Procs -> SUBSET (Agents \cup Sessions)],
         \A q \in Procs \ {p} : work'[q] = work[q] /\ locked'[q] = locked[q],
         \A q \in Procs \ {p} : locked'[p] # locked[p] => locked'[p] \cap locked[q] = {},
         RequestOK(p)', AgentOK(p)', SessionsOK(p)',
         pc = "commit" => work'[p].events = EventsOf(p)'
  PROVE  LifecycleInv'
<1>1. /\ tx' \in [Procs -> Transaction]
      /\ tx'[p].pc = pc /\ tx'[p].op = tx[p].op /\ tx'[p].row = tx[p].row
      /\ \A q \in Procs \ {p} : tx'[q] = tx[q]
  BY AdvanceType DEF LifecycleInv, Pcs
<1>2. TypeOK'
  BY <1>1 DEF LifecycleInv, TypeOK, tables
<1>3. \A q \in Procs \ {p} : Same(q)
  BY <1>1 DEF Same
<1>4. OwnOK(p)'
  BY <1>1 DEF OwnOK, InTransaction
<1>5. ASSUME NEW q \in Procs \ {p} PROVE ApartOK(p, q)'
  <2>1. ApartOK(p, q) /\ locked'[q] = locked[q] /\ tx'[q] = tx[q]
    BY <1>1 DEF LifecycleInv
  <2>2. locked'[p] \cap locked[q] = {}
    BY <2>1 DEF ApartOK
  <2> QED
    BY <1>1, <2>1, <2>2 DEF ApartOK
<1> QED
  BY <1>2, <1>3, <1>4, <1>5, Frame

\* The end of a transaction leaves its request with an answer.
LEMMA FinishType ==
  ASSUME LifecycleInv, NEW p \in Procs, NEW answer \in Answers, Finish(p, answer)
  PROVE  /\ tx' \in [Procs -> Transaction] /\ work' \in [Procs -> Work]
         /\ locked' \in [Procs -> SUBSET (Agents \cup Sessions)]
         /\ present' \in [Procs -> SUBSET Sessions]
         /\ OwnOK(p)' /\ \A q \in Procs \ {p} : ApartOK(p, q)' /\ Same(q)
<1>1. /\ tx'[p] = [Idle EXCEPT !.pc = answer] /\ work'[p] = NoWork /\ locked'[p] = {}
      /\ \A q \in Procs \ {p} : Same(q)
  BY DEF Finish, LifecycleInv, TypeOK, Same
<1>2. /\ tx' \in [Procs -> Transaction] /\ work' \in [Procs -> Work]
      /\ locked' \in [Procs -> SUBSET (Agents \cup Sessions)]
      /\ present' \in [Procs -> SUBSET Sessions]
  BY IdleType, NoWorkType DEF Finish, LifecycleInv, TypeOK
<1>3. tx'[p].pc = answer /\ tx'[p].op = "none"
  BY <1>1, IdleType
<1>4. OwnOK(p)'
  BY <1>1, <1>3 DEF OwnOK, InTransaction, Steps, Answers
<1>5. \A q \in Procs \ {p} : ApartOK(p, q)'
  BY <1>1, <1>3 DEF ApartOK
<1> QED
  BY <1>1, <1>2, <1>4, <1>5

\* A request that ends without a commit preserves the invariant.
LEMMA RollbackInv ==
  ASSUME LifecycleInv, NEW p \in Procs, NEW answer \in Answers, Rollback(p, answer)
  PROVE  LifecycleInv'
<1>1. Finish(p, answer) /\ UNCHANGED tables
  BY DEF Rollback
<1>2. TypeOK'
  BY <1>1, FinishType DEF LifecycleInv, TypeOK, tables
<1> QED
  BY <1>1, <1>2, FinishType, Frame

-----------------------------------------------------------------------------
LEMMA InitInv == Init => LifecycleInv
<1> SUFFICES ASSUME Init PROVE LifecycleInv
  OBVIOUS
<1>1. audit \in [Agents \cup Sessions -> Seq(Actions)]
  BY DEF Init
<1>2. TypeOK
  BY <1>1, IdleType, NoWorkType DEF Init, TypeOK, AgentStatus, SessionStatus
<1>3. \A p \in Procs : OwnOK(p)
  BY IdleType DEF Init, OwnOK, InTransaction, Steps
<1>4. \A p, q \in Procs : p # q => ApartOK(p, q)
  BY IdleType DEF Init, ApartOK
<1>5. AgentsAudited
  <2> SUFFICES ASSUME NEW a \in Agents
               PROVE  /\ \A i \in 1..Len(audit[a]) : FALSE
                      /\ ~(Len(audit[a]) % 2 = 1) /\ status[a] = "active"
    BY DEF AgentsAudited
  <2>1. Len(audit[a]) = 0 /\ status[a] = "active"
    BY DEF Init
  <2>2. ~(Len(audit[a]) % 2 = 1)
    BY <2>1, Parity
  <2>3. \A i \in 1..Len(audit[a]) : FALSE
    BY <2>1
  <2> QED
    BY <2>1, <2>2, <2>3
<1>6. SessionsAudited
  <2> SUFFICES ASSUME NEW s \in Sessions PROVE session[s] = "none" /\ audit[s] = <<>>
    BY DEF SessionsAudited, NotRevoked
  <2> QED
    BY DEF Init
<1>7. ApplicationsFollow
  BY DEF Init, ApplicationsFollow
<1> QED
  BY <1>2, <1>3, <1>4, <1>5, <1>6, <1>7 DEF LifecycleInv

\* What each operation begins with.
First(op) == CASE op = "signIn" -> "insertSession"   [] op = "logout" -> "getSession"
               [] op = "revokeRole" -> "findSessions" [] OTHER -> "lockAgent"

LEMMA BeginInv ==
  ASSUME LifecycleInv, NEW p \in Procs, NEW op \in Ops,
         NEW row \in IF op \in {"signIn", "logout"} THEN Sessions ELSE Agents,
         Begin(p, op, First(op), row),
         op = "signIn" => session[row] = "none" /\ \A q \in Procs : tx[q].row # row
  PROVE  LifecycleInv'
<1> DEFINE pc == First(op)
           t  == [pc |-> pc, op |-> op, row |-> row]
           known == {s \in Sessions : op \in Revoking /\ AgentOf[s] = row
                                      /\ session[s] \in NotRevoked}
<1>1. /\ pc \in Path(op) \cap Steps /\ row \in Agents \cup Sessions
      /\ pc \notin {"lockSessions", "writeAudit", "commit", "checkScope", "updateAgent",
                    "updateApplications"}
      /\ op = "signIn" => pc = "insertSession"
      /\ op \in LifecycleOps => pc = "lockAgent"
  BY DEF First, Path, Steps, Ops, LifecycleOps
<1> HIDE DEF pc
<1>2. t \in Transaction /\ t.pc = pc /\ t.op = op /\ t.row = row
  BY <1>1 DEF Transaction
<1>3. /\ tx' = [tx EXCEPT ![p] = t] /\ present' = [present EXCEPT ![p] = known]
      /\ UNCHANGED <<tables, work, locked>>
  BY DEF Begin, pc
<1> HIDE DEF t, known
<1>4. /\ tx'[p] = t /\ present'[p] = known /\ \A q \in Procs \ {p} : Same(q)
  BY <1>3 DEF LifecycleInv, TypeOK, Same
<1>5. TypeOK'
  BY <1>2, <1>3 DEF LifecycleInv, TypeOK, tables, known
<1>6. work[p] = NoWork /\ locked[p] = {}
  <2>1. tx[p].pc = "idle" /\ OwnOK(p)
    BY IdleType DEF Begin, LifecycleInv
  <2> QED
    BY <2>1 DEF OwnOK, InTransaction, Steps
<1>7. RequestOK(p)'
  BY <1>1, <1>2, <1>3, <1>4 DEF RequestOK, tables
<1>8. AgentOK(p)'
  BY <1>1, <1>2, <1>3, <1>4, <1>6, NoWorkType DEF AgentOK, Past
<1>9. SessionsOK(p)'
  BY <1>1, <1>2, <1>3, <1>4, <1>6, NoWorkType DEF SessionsOK, tables, known, NotRevoked, Revoking
<1>10. OwnOK(p)'
  BY <1>1, <1>2, <1>4, <1>7, <1>8, <1>9 DEF OwnOK, InTransaction
<1>11. \A q \in Procs \ {p} : ApartOK(p, q)'
  BY <1>2, <1>3, <1>4, <1>6 DEF ApartOK, Same
<1> QED
  BY <1>3, <1>4, <1>5, <1>10, <1>11, Frame

LEMMA StartInv ==
  ASSUME LifecycleInv, NEW p \in Procs, Start(p)
  PROVE  LifecycleInv'
<1>1. CASE \E op \in LifecycleOps, a \in Agents : StartLifecycle(p, op, a)
  <2>1. PICK op \in LifecycleOps, a \in Agents : Begin(p, op, "lockAgent", a)
    BY <1>1 DEF StartLifecycle
  <2>2. /\ op \in Ops /\ First(op) = "lockAgent" /\ op # "signIn"
        /\ a \in IF op \in {"signIn", "logout"} THEN Sessions ELSE Agents
    BY DEF Ops, LifecycleOps, First
  <2> QED
    BY <2>1, <2>2, BeginInv
<1>2. CASE \E s \in Sessions : StartSignIn(p, s)
  <2>1. PICK s \in Sessions : Begin(p, "signIn", "insertSession", s) /\ session[s] = "none"
                              /\ \A q \in Procs : tx[q].row # s
    BY <1>2 DEF StartSignIn
  <2>2. "signIn" \in Ops /\ First("signIn") = "insertSession"
    BY DEF Ops, First
  <2> QED
    BY <2>1, <2>2, BeginInv
<1>3. CASE \E s \in Sessions : StartLogout(p, s)
  <2>1. PICK s \in Sessions : Begin(p, "logout", "getSession", s)
    BY <1>3 DEF StartLogout
  <2>2. "logout" \in Ops /\ First("logout") = "getSession"
    BY DEF Ops, First
  <2> QED
    BY <2>1, <2>2, BeginInv
<1>4. CASE \E a \in Agents : StartRoleRevocation(p, a)
  <2>1. PICK a \in Agents : Begin(p, "revokeRole", "findSessions", a)
    BY <1>4 DEF StartRoleRevocation
  <2>2. "revokeRole" \in Ops /\ First("revokeRole") = "findSessions"
    BY DEF Ops, First
  <2> QED
    BY <2>1, <2>2, BeginInv
<1> QED
  BY <1>1, <1>2, <1>3, <1>4 DEF Start

\* What is known of a request at one of its statements.
LEMMA Running ==
  ASSUME LifecycleInv, NEW p \in Procs, tx[p].pc \in Steps
  PROVE  /\ InTransaction(p) /\ RequestOK(p) /\ AgentOK(p) /\ SessionsOK(p)
         /\ tx[p].pc = "commit" => work[p].events = EventsOf(p)
         /\ tx[p] \in Transaction /\ work[p] \in Work
         /\ locked[p] \in SUBSET (Agents \cup Sessions)
         /\ TypeOK
BY DEF InTransaction, LifecycleInv, OwnOK, TypeOK

\* What a step from one statement to the next keeps.
LEMMA Going ==
  ASSUME LifecycleInv, NEW p \in Procs, NEW pc \in Steps, Advance(p, pc),
         UNCHANGED <<tables, present>>
  PROVE  /\ tx'[p].pc = pc /\ tx'[p].op = tx[p].op /\ tx'[p].row = tx[p].row
         /\ status' = status /\ session' = session /\ present' = present
BY AdvanceType DEF LifecycleInv, Pcs, tables

\* A statement that changes neither the work of p nor its locks.
LEMMA ContinueInv ==
  ASSUME LifecycleInv, NEW p \in Procs, InTransaction(p), NEW pc \in Steps \ {"commit"},
         Advance(p, pc), UNCHANGED <<tables, work, locked, present>>,
         RequestOK(p)', AgentOK(p)', SessionsOK(p)'
  PROVE  LifecycleInv'
<1>1. /\ work' \in [Procs -> Work] /\ locked' \in [Procs -> SUBSET (Agents \cup Sessions)]
      /\ work' = work /\ locked' = locked
  BY DEF LifecycleInv, TypeOK
<1> QED
  BY <1>1, StatementFrame

\* The statements about the agent's row, which p locks with the first one.
LEMMA LockAgentInv ==
  ASSUME LifecycleInv, NEW p \in Procs, LockAgent(p)
  PROVE  LifecycleInv'
<1>1. /\ tx[p].pc = "lockAgent" /\ InTransaction(p) /\ RequestOK(p) /\ AgentOK(p)
      /\ SessionsOK(p) /\ tx[p] \in Transaction /\ TypeOK
  BY Running DEF LockAgent, Steps
<1>2. Advance(p, "checkScope") /\ Lock(p, tx[p].row) /\ UNCHANGED <<tables, work, present>>
  BY DEF LockAgent
<1>3. /\ tx'[p].pc = "checkScope" /\ tx'[p].op = tx[p].op /\ tx'[p].row = tx[p].row
      /\ status' = status /\ session' = session /\ present' = present
  BY <1>2, Going DEF Steps
<1>4. tx[p].op \in LifecycleOps /\ tx[p].row \in Agents
  BY <1>1 DEF RequestOK, Path, LifecycleOps, Ops
<1>5. /\ locked' \in [Procs -> SUBSET (Agents \cup Sessions)]
      /\ locked'[p] = locked[p] \cup {tx[p].row}
      /\ \A q \in Procs \ {p} : locked'[q] = locked[q]
  BY <1>1, <1>2, <1>4, LockType
<1>6. \A q \in Procs \ {p} : locked'[p] \cap locked[q] = {}
  BY <1>5 DEF LockAgent, Free, LifecycleInv, ApartOK
<1>7. /\ work' \in [Procs -> Work] /\ work' = work
  BY <1>1, <1>2 DEF TypeOK
<1>8. RequestOK(p)'
  BY <1>1, <1>3, <1>4 DEF RequestOK, Path, LifecycleOps
<1>9. AgentOK(p)'
  BY <1>1, <1>3, <1>5, <1>7 DEF AgentOK, Past
<1>10. SessionsOK(p)'
  BY <1>1, <1>3, <1>4, <1>5, <1>7 DEF SessionsOK, LifecycleOps
<1> QED
  BY <1>1, <1>2, <1>5, <1>6, <1>7, <1>8, <1>9, <1>10, StatementFrame DEF Steps

LEMMA CheckScopeInv ==
  ASSUME LifecycleInv, NEW p \in Procs, CheckScope(p)
  PROVE  LifecycleInv'
<1>1. /\ tx[p].pc = "checkScope" /\ InTransaction(p) /\ RequestOK(p) /\ AgentOK(p)
      /\ SessionsOK(p) /\ tx[p] \in Transaction /\ TypeOK
  BY Running DEF CheckScope, Steps
<1>2. CASE \E answer \in Answers : Rollback(p, answer)
  BY <1>2, RollbackInv
<1>3. CASE /\ Advance(p, "updateAgent") /\ UNCHANGED <<tables, work, locked, present>>
           /\ status[tx[p].row] = Before(tx[p].op)
  <2>1. /\ tx'[p].pc = "updateAgent" /\ tx'[p].op = tx[p].op /\ tx'[p].row = tx[p].row
        /\ status' = status /\ session' = session /\ present' = present
        /\ work' = work /\ locked' = locked
    BY <1>3, Going DEF Steps
  <2>2. tx[p].op \in LifecycleOps /\ tx[p].row \in Agents
    BY <1>1 DEF RequestOK, Path, LifecycleOps, Ops
  <2>3. RequestOK(p)'
    BY <1>1, <2>1, <2>2 DEF RequestOK, Path, LifecycleOps
  <2>4. AgentOK(p)'
    BY <1>1, <1>3, <2>1 DEF AgentOK, Past
  <2>5. SessionsOK(p)'
    BY <1>1, <2>1, <2>2 DEF SessionsOK, LifecycleOps
  <2> QED
    BY <1>1, <1>3, <2>3, <2>4, <2>5, ContinueInv DEF Steps
<1>4. \/ \E answer \in Answers : Rollback(p, answer)
      \/ /\ Advance(p, "updateAgent") /\ UNCHANGED <<tables, work, locked, present>>
         /\ status[tx[p].row] = Before(tx[p].op)
  BY DEF CheckScope, Answers
<1> QED
  BY <1>2, <1>3, <1>4

LEMMA UpdateAgentInv ==
  ASSUME LifecycleInv, NEW p \in Procs, UpdateAgent(p)
  PROVE  LifecycleInv'
<1> DEFINE a == tx[p].row
<1>1. /\ tx[p].pc = "updateAgent" /\ InTransaction(p) /\ RequestOK(p) /\ AgentOK(p)
      /\ SessionsOK(p) /\ tx[p] \in Transaction /\ work[p] \in Work /\ TypeOK
  BY Running DEF UpdateAgent, Steps
<1>2. tx[p].op \in LifecycleOps /\ a \in Agents /\ a \in locked[p]
      /\ status[a] = Before(tx[p].op)
  BY <1>1 DEF RequestOK, Path, LifecycleOps, Ops, AgentOK, Past
<1>3. /\ Advance(p, "updateApplications") /\ Lock(p, a)
      /\ work' = [work EXCEPT ![p].status = {a}] /\ UNCHANGED <<tables, present>>
  BY <1>2 DEF UpdateAgent
<1>4. /\ tx'[p].pc = "updateApplications" /\ tx'[p].op = tx[p].op /\ tx'[p].row = a
      /\ status' = status /\ session' = session /\ present' = present
  BY <1>3, Going DEF Steps
<1>5. /\ locked' \in [Procs -> SUBSET (Agents \cup Sessions)]
      /\ locked'[p] = locked[p] /\ \A q \in Procs \ {p} : locked'[q] = locked[q]
  <2>1. a \in Agents \cup Sessions /\ Lock(p, a) /\ TypeOK /\ locked[p] \cup {a} = locked[p]
    BY <1>1, <1>2, <1>3
  <2> HIDE DEF a
  <2> QED
    BY <2>1, LockType
<1>6. /\ work' \in [Procs -> Work] /\ \A q \in Procs \ {p} : work'[q] = work[q]
      /\ work'[p].status = {a} /\ work'[p].applications = work[p].applications
      /\ work'[p].targets = work[p].targets /\ work'[p].inserted = work[p].inserted
      /\ work'[p].revoked = work[p].revoked
  BY <1>1, <1>2, <1>3 DEF TypeOK, Work
<1>7. RequestOK(p)'
  BY <1>1, <1>2, <1>4 DEF RequestOK, Path, LifecycleOps
<1>8. AgentOK(p)'
  BY <1>1, <1>2, <1>4, <1>5, <1>6 DEF AgentOK, Past
<1>9. SessionsOK(p)'
  BY <1>1, <1>2, <1>4, <1>5, <1>6 DEF SessionsOK, LifecycleOps
<1> QED
  BY <1>1, <1>3, <1>5, <1>6, <1>7, <1>8, <1>9, StatementFrame DEF Steps

\* The application has the status of its agent, which is still the one before.
LEMMA UpdateApplicationsInv ==
  ASSUME LifecycleInv, NEW p \in Procs, UpdateApplications(p)
  PROVE  LifecycleInv'
<1> DEFINE a  == tx[p].row
           pc == IF tx[p].op = "suspend" THEN "findSessions" ELSE "writeAudit"
<1>1. /\ tx[p].pc = "updateApplications" /\ InTransaction(p) /\ RequestOK(p) /\ AgentOK(p)
      /\ SessionsOK(p) /\ tx[p] \in Transaction /\ work[p] \in Work /\ TypeOK
  BY Running DEF UpdateApplications, Steps
<1>2. tx[p].op \in LifecycleOps /\ a \in Agents /\ status[a] = Before(tx[p].op)
  BY <1>1 DEF RequestOK, Path, LifecycleOps, Ops, AgentOK, Past
<1>3. applications[a] = Before(tx[p].op)
  BY <1>2 DEF LifecycleInv, ApplicationsFollow
<1>4. /\ Advance(p, pc) /\ work' = [work EXCEPT ![p].applications = {a}]
      /\ UNCHANGED <<tables, locked, present>>
  BY <1>3 DEF UpdateApplications
<1>5. pc \in Steps \ {"commit"} /\ pc \in {"findSessions", "writeAudit"}
      /\ (pc = "findSessions" <=> tx[p].op = "suspend")
  BY DEF Steps
<1> HIDE DEF pc
<1>6. /\ tx'[p].pc = pc /\ tx'[p].op = tx[p].op /\ tx'[p].row = a
      /\ status' = status /\ session' = session /\ present' = present
  BY <1>4, <1>5, Going
<1>7. /\ work' \in [Procs -> Work] /\ \A q \in Procs \ {p} : work'[q] = work[q]
      /\ work'[p].status = work[p].status /\ work'[p].applications = {a}
      /\ work'[p].targets = work[p].targets /\ work'[p].inserted = work[p].inserted
      /\ work'[p].revoked = work[p].revoked
  BY <1>1, <1>2, <1>4 DEF TypeOK, Work
<1>8. /\ locked' \in [Procs -> SUBSET (Agents \cup Sessions)] /\ locked' = locked
  BY <1>1, <1>4 DEF TypeOK
<1>9. RequestOK(p)'
  BY <1>1, <1>2, <1>5, <1>6 DEF RequestOK, Path, LifecycleOps
<1>10. AgentOK(p)'
  BY <1>1, <1>2, <1>5, <1>6, <1>7, <1>8 DEF AgentOK, Past
<1>11. SessionsOK(p)'
  BY <1>1, <1>2, <1>5, <1>6, <1>7, <1>8 DEF SessionsOK, LifecycleOps, Revoking
<1> QED
  BY <1>1, <1>4, <1>5, <1>7, <1>8, <1>9, <1>10, <1>11, StatementFrame

\* The sessions that a request knew of and that are not revoked are found ...
LEMMA FindSessionsInv ==
  ASSUME LifecycleInv, NEW p \in Procs, FindSessions(p)
  PROVE  LifecycleInv'
<1> DEFINE found == {s \in Sessions : AgentOf[s] = tx[p].row /\ session[s] \in NotRevoked}
           pc == IF found = {} THEN "writeAudit" ELSE "lockSessions"
<1>1. /\ tx[p].pc = "findSessions" /\ InTransaction(p) /\ RequestOK(p) /\ AgentOK(p)
      /\ SessionsOK(p) /\ tx[p] \in Transaction /\ work[p] \in Work /\ TypeOK
  BY Running DEF FindSessions, Steps
<1>2. tx[p].op \in Revoking
  BY <1>1 DEF RequestOK, Path, Revoking, Ops, LifecycleOps
<1>3. \A s \in present[p] : s \in found \/ session[s] = "revoked"
  <2>1. \A s \in present[p] : session[s] # "none" /\ AgentOf[s] = tx[p].row
    BY <1>1, <1>2 DEF SessionsOK
  <2>2. \A s \in present[p] : s \in Sessions /\ session[s] \in SessionStatus
    BY <1>1 DEF TypeOK
  <2> QED
    BY <2>1, <2>2 DEF SessionStatus, NotRevoked
<1>4. /\ Advance(p, pc) /\ work' = [work EXCEPT ![p].targets = found]
      /\ UNCHANGED <<tables, locked, present>>
  BY DEF FindSessions
<1>5. pc \in Steps \ {"commit"} /\ pc \in {"lockSessions", "writeAudit"}
      /\ found \in SUBSET Sessions /\ (pc # "lockSessions" => found = {})
  BY DEF Steps
<1> HIDE DEF pc, found
<1>6. /\ tx'[p].pc = pc /\ tx'[p].op = tx[p].op /\ tx'[p].row = tx[p].row
      /\ status' = status /\ session' = session /\ present' = present
  BY <1>4, <1>5, Going
<1>7. /\ work' \in [Procs -> Work] /\ \A q \in Procs \ {p} : work'[q] = work[q]
      /\ work'[p].status = work[p].status /\ work'[p].applications = work[p].applications
      /\ work'[p].targets = found /\ work'[p].inserted = work[p].inserted
      /\ work'[p].revoked = work[p].revoked
  BY <1>1, <1>4, <1>5 DEF TypeOK, Work
<1>8. /\ locked' \in [Procs -> SUBSET (Agents \cup Sessions)] /\ locked' = locked
  BY <1>1, <1>4 DEF TypeOK
<1>9. RequestOK(p)'
  BY <1>1, <1>2, <1>5, <1>6 DEF RequestOK, Path, Revoking
<1>10. AgentOK(p)'
  BY <1>1, <1>2, <1>5, <1>6, <1>7, <1>8 DEF AgentOK, Past
<1>11. SessionsOK(p)'
  BY <1>1, <1>2, <1>3, <1>5, <1>6, <1>7, <1>8 DEF SessionsOK
<1> QED
  BY <1>1, <1>4, <1>5, <1>7, <1>8, <1>9, <1>10, <1>11, StatementFrame

\* ... and locked one after the other: a session that somebody else has revoked
\* meanwhile is left as it is.
LEMMA LockSessionInv ==
  ASSUME LifecycleInv, NEW p \in Procs, NEW s \in Sessions, LockSession(p, s)
  PROVE  LifecycleInv'
<1> DEFINE now == work[p].revoked \cup {r \in {s} : session[r] \in NotRevoked}
           pc  == IF work[p].targets = {s} THEN "writeAudit" ELSE "lockSessions"
           left == work[p].targets \ {s}
<1>1. /\ tx[p].pc = "lockSessions" /\ InTransaction(p) /\ RequestOK(p) /\ AgentOK(p)
      /\ SessionsOK(p) /\ tx[p] \in Transaction /\ work[p] \in Work /\ TypeOK
  BY Running DEF LockSession, Steps
<1>2. tx[p].op \in Revoking
  BY <1>1 DEF RequestOK, Path, Revoking, Ops, LifecycleOps
<1>3. /\ Advance(p, pc) /\ Lock(p, s) /\ UNCHANGED <<tables, present>>
      /\ work' = [work EXCEPT ![p].targets = left, ![p].revoked = now]
  BY <1>1 DEF LockSession, TypeOK
<1>4. /\ locked' \in [Procs -> SUBSET (Agents \cup Sessions)]
      /\ locked'[p] = locked[p] \cup {s}
      /\ \A q \in Procs \ {p} : locked'[q] = locked[q]
  <2>1. s \in Agents \cup Sessions
    OBVIOUS
  <2> QED
    BY <1>1, <1>3, <2>1, LockType
<1>5. \A q \in Procs \ {p} : locked'[p] \cap locked[q] = {}
  BY <1>4 DEF LockSession, Free, LifecycleInv, ApartOK
<1>6. /\ pc \in Steps \ {"commit"} /\ pc \in {"lockSessions", "writeAudit"}
      /\ left \in SUBSET Sessions /\ now \in SUBSET Sessions
      /\ pc # "lockSessions" => left = {}
      /\ \A r \in now : session[r] \in NotRevoked
      /\ now \subseteq locked'[p]
      /\ \A r \in present[p] : session[r] = "revoked" \/ r \in left \cup now
  <2>1. pc \in Steps \ {"commit"} /\ pc \in {"lockSessions", "writeAudit"}
    BY DEF Steps
  <2>2. left \in SUBSET Sessions /\ now \in SUBSET Sessions
    BY <1>1 DEF Work
  <2>3. /\ \A r \in now : session[r] \in NotRevoked
        /\ now \subseteq locked'[p]
    BY <1>1, <1>4 DEF SessionsOK
  <2>4. \A r \in present[p] : session[r] # "none" /\ session[r] \in SessionStatus
    BY <1>1, <1>2 DEF SessionsOK, TypeOK
  <2>5. \A r \in present[p] : session[r] = "revoked" \/ r \in work[p].targets \cup work[p].revoked
    BY <1>1, <1>2 DEF SessionsOK
  <2> QED
    BY <2>1, <2>2, <2>3, <2>4, <2>5 DEF SessionStatus, NotRevoked
<1> HIDE DEF pc, now, left
<1>7. /\ tx'[p].pc = pc /\ tx'[p].op = tx[p].op /\ tx'[p].row = tx[p].row
      /\ status' = status /\ session' = session /\ present' = present
  BY <1>3, <1>6, Going
<1>8. /\ work' \in [Procs -> Work] /\ \A q \in Procs \ {p} : work'[q] = work[q]
      /\ work'[p].status = work[p].status /\ work'[p].applications = work[p].applications
      /\ work'[p].targets = left /\ work'[p].inserted = work[p].inserted
      /\ work'[p].revoked = now
  <2> DEFINE w == [work[p] EXCEPT !.targets = left, !.revoked = now]
  <2>1. w \in Work /\ w.targets = left /\ w.revoked = now /\ w.status = work[p].status
        /\ w.applications = work[p].applications /\ w.inserted = work[p].inserted
    BY <1>1, <1>6 DEF Work
  <2>2. work' = [work EXCEPT ![p] = w]
    BY <1>1, <1>3 DEF TypeOK
  <2> HIDE DEF w
  <2> QED
    BY <1>1, <2>1, <2>2 DEF TypeOK
<1>9. RequestOK(p)'
  BY <1>1, <1>2, <1>6, <1>7 DEF RequestOK, Path, Revoking
<1>10. AgentOK(p)'
  BY <1>1, <1>2, <1>4, <1>6, <1>7, <1>8 DEF AgentOK, Past
<1>11. SessionsOK(p)'
  BY <1>1, <1>2, <1>4, <1>6, <1>7, <1>8 DEF SessionsOK
<1> QED
  BY <1>1, <1>3, <1>4, <1>5, <1>6, <1>8, <1>9, <1>10, <1>11, StatementFrame

\* The statements of a sign-in and of a logout.
LEMMA InsertSessionInv ==
  ASSUME LifecycleInv, NEW p \in Procs, InsertSession(p)
  PROVE  LifecycleInv'
<1>1. /\ tx[p].pc = "insertSession" /\ InTransaction(p) /\ RequestOK(p) /\ AgentOK(p)
      /\ SessionsOK(p) /\ tx[p] \in Transaction /\ work[p] \in Work /\ TypeOK
  BY Running DEF InsertSession, Steps
<1>2. tx[p].op = "signIn" /\ tx[p].row \in Sessions
  BY <1>1 DEF RequestOK, Path, Ops, LifecycleOps
<1>3. /\ Advance(p, "writeAudit") /\ work' = [work EXCEPT ![p].inserted = {tx[p].row}]
      /\ UNCHANGED <<tables, locked, present>>
  BY DEF InsertSession
<1>4. /\ tx'[p].pc = "writeAudit" /\ tx'[p].op = tx[p].op /\ tx'[p].row = tx[p].row
      /\ status' = status /\ session' = session /\ present' = present
  BY <1>3, Going DEF Steps
<1>5. /\ work' \in [Procs -> Work] /\ \A q \in Procs \ {p} : work'[q] = work[q]
      /\ work'[p].status = work[p].status /\ work'[p].applications = work[p].applications
      /\ work'[p].targets = work[p].targets /\ work'[p].inserted = {tx[p].row}
      /\ work'[p].revoked = work[p].revoked
  BY <1>1, <1>2, <1>3 DEF TypeOK, Work
<1>6. /\ locked' \in [Procs -> SUBSET (Agents \cup Sessions)] /\ locked' = locked
  BY <1>1, <1>3 DEF TypeOK
<1>7. RequestOK(p)'
  BY <1>1, <1>2, <1>4 DEF RequestOK, Path
<1>8. AgentOK(p)'
  BY <1>1, <1>2, <1>4, <1>5, <1>6 DEF AgentOK, Past, LifecycleOps
<1>9. SessionsOK(p)'
  BY <1>1, <1>2, <1>4, <1>5, <1>6 DEF SessionsOK, Revoking
<1> QED
  BY <1>1, <1>3, <1>5, <1>6, <1>7, <1>8, <1>9, StatementFrame DEF Steps

LEMMA GetSessionInv ==
  ASSUME LifecycleInv, NEW p \in Procs, GetSession(p)
  PROVE  LifecycleInv'
<1>1. /\ tx[p].pc = "getSession" /\ InTransaction(p) /\ RequestOK(p) /\ AgentOK(p)
      /\ SessionsOK(p) /\ tx[p] \in Transaction /\ work[p] \in Work /\ TypeOK
  BY Running DEF GetSession, Steps
<1>2. tx[p].op = "logout"
  BY <1>1 DEF RequestOK, Path, Ops, LifecycleOps
<1>3. CASE Rollback(p, "ErrUnauthenticated")
  BY <1>3, RollbackInv DEF Answers
<1>4. CASE Advance(p, "revokeSession") /\ UNCHANGED <<tables, work, locked, present>>
  <2>1. /\ tx'[p].pc = "revokeSession" /\ tx'[p].op = tx[p].op /\ tx'[p].row = tx[p].row
        /\ status' = status /\ session' = session /\ present' = present
        /\ work' = work /\ locked' = locked
    BY <1>4, Going DEF Steps
  <2>2. RequestOK(p)'
    BY <1>1, <1>2, <2>1 DEF RequestOK, Path
  <2>3. AgentOK(p)'
    BY <1>1, <1>2, <2>1 DEF AgentOK, Past, LifecycleOps
  <2>4. SessionsOK(p)'
    BY <1>1, <1>2, <2>1 DEF SessionsOK, Revoking
  <2> QED
    BY <1>1, <1>4, <2>2, <2>3, <2>4, ContinueInv DEF Steps
<1> QED
  BY <1>3, <1>4 DEF GetSession

LEMMA RevokeSessionInv ==
  ASSUME LifecycleInv, NEW p \in Procs, RevokeSession(p)
  PROVE  LifecycleInv'
<1> DEFINE s == tx[p].row
<1>1. /\ tx[p].pc = "revokeSession" /\ InTransaction(p) /\ RequestOK(p) /\ AgentOK(p)
      /\ SessionsOK(p) /\ tx[p] \in Transaction /\ work[p] \in Work /\ TypeOK
  BY Running DEF RevokeSession, Steps
<1>2. tx[p].op = "logout" /\ s \in Sessions
  BY <1>1 DEF RequestOK, Path, Ops, LifecycleOps
<1>3. CASE session[s] \notin NotRevoked
  BY <1>3, RollbackInv DEF RevokeSession, Answers
<1>4. CASE session[s] \in NotRevoked
  <2>1. /\ Advance(p, "writeAudit") /\ Lock(p, s)
        /\ work' = [work EXCEPT ![p].revoked = {s}] /\ UNCHANGED <<tables, present>>
    BY <1>4 DEF RevokeSession
  <2>2. /\ tx'[p].pc = "writeAudit" /\ tx'[p].op = tx[p].op /\ tx'[p].row = s
        /\ status' = status /\ session' = session /\ present' = present
    BY <2>1, Going DEF Steps
  <2>3. /\ locked' \in [Procs -> SUBSET (Agents \cup Sessions)]
        /\ locked'[p] = locked[p] \cup {s}
        /\ \A q \in Procs \ {p} : locked'[q] = locked[q]
    <3>1. s \in Agents \cup Sessions /\ Lock(p, s) /\ TypeOK
      BY <1>1, <1>2, <2>1
    <3> HIDE DEF s
    <3> QED
      BY <3>1, LockType
  <2>4. \A q \in Procs \ {p} : locked'[p] \cap locked[q] = {}
    BY <2>3 DEF RevokeSession, Free, LifecycleInv, ApartOK
  <2>5. /\ work' \in [Procs -> Work] /\ \A q \in Procs \ {p} : work'[q] = work[q]
        /\ work'[p].status = work[p].status /\ work'[p].applications = work[p].applications
        /\ work'[p].targets = work[p].targets /\ work'[p].inserted = work[p].inserted
        /\ work'[p].revoked = {s}
    BY <1>1, <1>2, <2>1 DEF TypeOK, Work
  <2>6. RequestOK(p)'
    BY <1>1, <1>2, <2>2 DEF RequestOK, Path
  <2>7. AgentOK(p)'
    BY <1>1, <1>2, <2>2, <2>3, <2>5 DEF AgentOK, Past, LifecycleOps
  <2>8. SessionsOK(p)'
    BY <1>1, <1>2, <1>4, <2>2, <2>3, <2>5 DEF SessionsOK, Revoking
  <2> QED
    BY <1>1, <2>1, <2>3, <2>4, <2>5, <2>6, <2>7, <2>8, StatementFrame DEF Steps
<1> QED
  BY <1>3, <1>4

\* The events are about agents and sessions.
LEMMA EventsType ==
  ASSUME NEW p \in Procs, RequestOK(p), work[p] \in Work
  PROVE  EventsOf(p) \in SUBSET ((Agents \cup Sessions) \X Actions)
<1> DEFINE of(e) == {<<s, e>> : s \in work[p].revoked}
<1>1. tx[p].op \in Ops /\ tx[p].row \in Agents \cup Sessions /\ work[p].revoked \subseteq Sessions
  BY DEF RequestOK, Work
<1>2. \A e \in Actions : /\ of(e) \in SUBSET ((Agents \cup Sessions) \X Actions)
                         /\ {<<tx[p].row, e>>} \in SUBSET ((Agents \cup Sessions) \X Actions)
  BY <1>1
<1> QED
  BY <1>1, <1>2 DEF EventsOf, Actions

\* The events of a request are those of the work that it commits.
LEMMA WriteAuditInv ==
  ASSUME LifecycleInv, NEW p \in Procs, WriteAudit(p)
  PROVE  LifecycleInv'
<1>1. /\ tx[p].pc = "writeAudit" /\ InTransaction(p) /\ RequestOK(p) /\ AgentOK(p)
      /\ SessionsOK(p) /\ tx[p] \in Transaction /\ work[p] \in Work /\ TypeOK
  BY Running DEF WriteAudit, Steps
<1>2. /\ Advance(p, "commit") /\ work' = [work EXCEPT ![p].events = EventsOf(p)]
      /\ UNCHANGED <<tables, locked, present>>
  BY DEF WriteAudit
<1>3. /\ tx'[p].pc = "commit" /\ tx'[p].op = tx[p].op /\ tx'[p].row = tx[p].row
      /\ status' = status /\ session' = session /\ present' = present
  BY <1>2, Going DEF Steps
<1>4. EventsOf(p) \in SUBSET ((Agents \cup Sessions) \X Actions)
  BY <1>1, EventsType
<1>5. /\ work' \in [Procs -> Work] /\ \A q \in Procs \ {p} : work'[q] = work[q]
      /\ work'[p].status = work[p].status /\ work'[p].applications = work[p].applications
      /\ work'[p].targets = work[p].targets /\ work'[p].inserted = work[p].inserted
      /\ work'[p].revoked = work[p].revoked /\ work'[p].events = EventsOf(p)
  BY <1>1, <1>2, <1>4 DEF TypeOK, Work
<1>6. /\ locked' \in [Procs -> SUBSET (Agents \cup Sessions)] /\ locked' = locked
  BY <1>1, <1>2 DEF TypeOK
<1>7. RequestOK(p)'
  BY <1>1, <1>3 DEF RequestOK, Path
<1>8. AgentOK(p)'
  BY <1>1, <1>3, <1>5, <1>6 DEF AgentOK, Past
<1>9. SessionsOK(p)'
  BY <1>1, <1>3, <1>5, <1>6 DEF SessionsOK
<1>10. EventsOf(p)' = EventsOf(p)
  BY <1>3, <1>5 DEF EventsOf
<1> QED
  BY <1>1, <1>2, <1>5, <1>6, <1>7, <1>8, <1>9, <1>10, StatementFrame DEF Steps

\* Requests that end without a commit, and the end of a session by itself.
LEMMA EndInv ==
  ASSUME LifecycleInv, NEW p \in Procs, Interrupt(p) \/ DeadlockAbort(p)
  PROVE  LifecycleInv'
BY RollbackInv DEF Interrupt, DeadlockAbort, Answers

LEMMA ReturnInv ==
  ASSUME LifecycleInv, NEW p \in Procs, Return(p)
  PROVE  LifecycleInv'
<1>1. /\ tx' = [tx EXCEPT ![p] = Idle] /\ UNCHANGED <<tables, work, locked, present>>
      /\ tx[p].pc \in Answers
  BY DEF Return
<1>2. tx'[p] = Idle /\ TypeOK' /\ \A q \in Procs \ {p} : Same(q)
  BY <1>1, IdleType DEF LifecycleInv, TypeOK, Same, tables
<1>3. OwnOK(p) /\ ~InTransaction(p) /\ ~InTransaction(p)'
  BY <1>1, <1>2, IdleType DEF LifecycleInv, InTransaction, Steps, Answers
<1>4. OwnOK(p)'
  BY <1>1, <1>3 DEF OwnOK
<1>5. \A q \in Procs \ {p} : ApartOK(p, q)'
  BY <1>1, <1>2, <1>3, IdleType DEF ApartOK, OwnOK
<1> QED
  BY <1>1, <1>2, <1>4, <1>5, Frame

LEMMA ExpireInv ==
  ASSUME LifecycleInv, NEW s \in Sessions, Expire(s)
  PROVE  LifecycleInv'
<1>1. /\ session[s] = "live" /\ session' = [session EXCEPT ![s] = "expired"]
      /\ UNCHANGED <<status, applications, audit, tx, work, locked, present>>
  BY DEF Expire
<1>2. session'[s] = "expired" /\ \A r \in Sessions \ {s} : session'[r] = session[r]
  BY <1>1 DEF LifecycleInv, TypeOK
<1>3. TypeOK'
  BY <1>1 DEF LifecycleInv, TypeOK, SessionStatus
<1>4. ApplicationsFollow' /\ AgentsAudited'
  BY <1>1 DEF LifecycleInv, ApplicationsFollow, AgentsAudited
<1>5. SessionsAudited'
  BY <1>1, <1>2 DEF LifecycleInv, SessionsAudited, NotRevoked
<1>6. ASSUME NEW p \in Procs PROVE OwnOK(p)'
  <2>1. OwnOK(p) /\ InTransaction(p)' = InTransaction(p) /\ EventsOf(p)' = EventsOf(p)
    BY <1>1 DEF LifecycleInv, InTransaction, EventsOf
  <2>2. CASE ~InTransaction(p)
    BY <1>1, <2>1, <2>2 DEF OwnOK
  <2>3. CASE InTransaction(p)
    <3>1. RequestOK(p) /\ AgentOK(p) /\ SessionsOK(p) /\ work[p] \in Work
          /\ present[p] \subseteq Sessions
      BY <2>1, <2>3 DEF OwnOK, LifecycleInv, TypeOK
    <3>2. RequestOK(p)'
      BY <1>1, <1>2, <3>1 DEF RequestOK
    <3>3. AgentOK(p)'
      BY <1>1, <3>1 DEF AgentOK, Past
    <3>4. SessionsOK(p)'
      BY <1>1, <1>2, <3>1 DEF SessionsOK, NotRevoked, Work
    <3> QED
      BY <1>1, <2>1, <2>3, <3>2, <3>3, <3>4 DEF OwnOK
  <2> QED
    BY <2>2, <2>3
<1>7. \A p, q \in Procs : p # q => ApartOK(p, q)'
  BY <1>1 DEF LifecycleInv, ApartOK
<1> QED
  BY <1>3, <1>4, <1>5, <1>6, <1>7 DEF LifecycleInv

-----------------------------------------------------------------------------
\* The commit.

\* A row gets the one event that is about it, if there is one.
LEMMA RecordOne ==
  ASSUME NEW log, NEW events, NEW r \in DOMAIN log, NEW e, <<r, e>> \in events,
         \A d \in events : d[1] = r => d = <<r, e>>
  PROVE  Record(log, events)[r] = Append(log[r], e)
<1>1. \E d \in events : d[1] = r
  OBVIOUS
<1>2. (CHOOSE d \in events : d[1] = r) = <<r, e>>
  BY <1>1
<1> QED
  BY <1>1, <1>2 DEF Record

LEMMA RecordNone ==
  ASSUME NEW log, NEW events, NEW r \in DOMAIN log, \A d \in events : d[1] # r
  PROVE  Record(log, events)[r] = log[r]
BY DEF Record

Changes(p) == tx[p].op \in LifecycleOps
AgentEvent(op) == IF op = "suspend" THEN "agent_suspended" ELSE "agent_reinstated"
Only(p, r, e) == <<r, e>> \in EventsOf(p) /\ \A d \in EventsOf(p) : d[1] = r => d = <<r, e>>
Nothing(p, r) == \A d \in EventsOf(p) : d[1] # r

\* The events of a commit, one for every row it changes.
LEMMA Events ==
  ASSUME LifecycleInv, NEW p \in Procs, RequestOK(p), SessionsOK(p), work[p] \in Work,
         tx[p].pc = "commit"
  PROVE  /\ Changes(p) => Only(p, tx[p].row, AgentEvent(tx[p].op))
         /\ \A a \in Agents : ~(Changes(p) /\ a = tx[p].row) => Nothing(p, a)
         /\ \A s \in work[p].inserted : Only(p, s, "user_signed_in")
         /\ \A s \in work[p].revoked : \E e \in Revocations : Only(p, s, e)
         /\ \A s \in Sessions \ (work[p].inserted \cup work[p].revoked) : Nothing(p, s)
<1>1. /\ tx[p].op \in Ops /\ work[p].revoked \subseteq Sessions
      /\ (tx[p].op \in {"signIn", "logout"} => tx[p].row \in Sessions)
      /\ (tx[p].op \notin {"signIn", "logout"} => tx[p].row \in Agents)
  BY DEF RequestOK, Work
<1>2. /\ work[p].inserted = {s \in {tx[p].row} : tx[p].op = "signIn"}
      /\ tx[p].op \notin Revoking =>
           work[p].revoked = {s \in {tx[p].row} : tx[p].op = "logout"}
  BY DEF SessionsOK
<1>3. CASE tx[p].op = "signIn"
  <2>1. EventsOf(p) = {<<tx[p].row, "user_signed_in">>}
    BY <1>3 DEF EventsOf
  <2> QED
    BY <1>1, <1>2, <1>3, <2>1 DEF Changes, LifecycleOps, Revoking, Only, Nothing
<1>4. CASE tx[p].op = "logout"
  <2>1. EventsOf(p) = {<<tx[p].row, "session_revoked">>} /\ "session_revoked" \in Revocations
    BY <1>4 DEF EventsOf, Revocations
  <2> QED
    BY <1>1, <1>2, <1>4, <2>1 DEF Changes, LifecycleOps, Revoking, Only, Nothing
<1>5. CASE tx[p].op = "reinstate"
  <2>1. EventsOf(p) = {<<tx[p].row, "agent_reinstated">>}
    BY <1>5 DEF EventsOf
  <2> QED
    BY <1>1, <1>2, <1>5, <2>1 DEF Changes, LifecycleOps, Revoking, Only, Nothing, AgentEvent
<1>6. CASE tx[p].op = "revokeRole"
  <2> DEFINE e == "session_revoked_by_role_change"
  <2>1. EventsOf(p) = {<<s, e>> : s \in work[p].revoked} /\ e \in Revocations
    BY <1>6 DEF EventsOf, Revocations
  <2> HIDE DEF e
  <2>2. \A d \in EventsOf(p) : \E s \in work[p].revoked : d = <<s, e>>
    BY <2>1
  <2>3. \A d \in EventsOf(p) : d[1] \in work[p].revoked /\ d = <<d[1], e>>
    BY <2>2
  <2>4. \A s \in work[p].revoked : Only(p, s, e)
    BY <2>1, <2>3 DEF Only
  <2>5. \A r : r \notin work[p].revoked => Nothing(p, r)
    BY <2>3 DEF Nothing
  <2> QED
    BY <1>1, <1>2, <1>6, <2>1, <2>4, <2>5 DEF Changes, LifecycleOps
<1>7. CASE tx[p].op = "suspend"
  <2> DEFINE e == "session_revoked_by_agent_suspension"
             a == tx[p].row
  <2>1. EventsOf(p) = {<<a, "agent_suspended">>} \cup {<<s, e>> : s \in work[p].revoked}
        /\ e \in Revocations
    BY <1>7 DEF EventsOf, Revocations
  <2> HIDE DEF e
  <2>2. \A d \in EventsOf(p) : \/ d = <<a, "agent_suspended">>
                               \/ \E s \in work[p].revoked : d = <<s, e>>
    BY <2>1
  <2>3. \A d \in EventsOf(p) : \/ d[1] = a /\ d = <<a, "agent_suspended">>
                               \/ d[1] \in work[p].revoked /\ d = <<d[1], e>>
    BY <2>2
  <2>4. a \in Agents /\ a \notin work[p].revoked
    BY <1>1, <1>7
  <2>5. \A s \in work[p].revoked : Only(p, s, e)
    BY <2>1, <2>3, <2>4 DEF Only
  <2>6. Only(p, a, "agent_suspended")
    BY <2>1, <2>3, <2>4 DEF Only
  <2>7. \A r : r # a /\ r \notin work[p].revoked => Nothing(p, r)
    BY <2>3 DEF Nothing
  <2> QED
    BY <1>1, <1>2, <1>7, <2>1, <2>4, <2>5, <2>6, <2>7 DEF Changes, LifecycleOps, AgentEvent
<1> QED
  BY <1>1, <1>3, <1>4, <1>5, <1>6, <1>7 DEF Ops, LifecycleOps

\* What a commit does to the tables.
LEMMA CommitEffect ==
  ASSUME LifecycleInv, NEW p \in Procs, Commit(p)
  PROVE  /\ tx[p].pc = "commit" /\ InTransaction(p) /\ RequestOK(p) /\ AgentOK(p)
         /\ SessionsOK(p) /\ work[p] \in Work
         /\ \E answer \in Answers : Finish(p, answer)
         /\ status' \in [Agents -> AgentStatus] /\ applications' = status'
         /\ session' \in [Sessions -> SessionStatus]
         /\ audit' \in [Agents \cup Sessions -> Seq(Actions)]
         /\ \A a \in Agents :
              IF Changes(p) /\ a = tx[p].row
              THEN /\ status[a] = Before(tx[p].op) /\ status'[a] = After(tx[p].op)
                   /\ audit'[a] = Append(audit[a], AgentEvent(tx[p].op))
              ELSE status'[a] = status[a] /\ audit'[a] = audit[a]
         /\ \A s \in work[p].inserted :
              /\ session[s] = "none" /\ session'[s] = "live"
              /\ audit'[s] = Append(audit[s], "user_signed_in")
         /\ \A s \in work[p].revoked :
              /\ session[s] \in NotRevoked /\ session'[s] = "revoked"
              /\ \E e \in Revocations : audit'[s] = Append(audit[s], e)
         /\ \A s \in Sessions \ (work[p].inserted \cup work[p].revoked) :
              session'[s] = session[s] /\ audit'[s] = audit[s]
<1>1. /\ tx[p].pc = "commit" /\ InTransaction(p) /\ RequestOK(p) /\ AgentOK(p)
      /\ SessionsOK(p) /\ work[p] \in Work /\ work[p].events = EventsOf(p) /\ TypeOK
  BY Running DEF Commit, Steps
<1>2. \E answer \in Answers : Finish(p, answer)
  BY DEF Commit, Answers
<1>3. /\ tx[p].op \in Ops /\ work[p].revoked \subseteq Sessions
      /\ work[p].inserted \subseteq Sessions
      /\ (Changes(p) => tx[p].row \in Agents)
  BY <1>1 DEF RequestOK, Work, Changes, LifecycleOps
<1>4. /\ \A a \in Agents : /\ a \in work[p].status <=> Changes(p) /\ a = tx[p].row
                           /\ a \in work[p].applications <=> Changes(p) /\ a = tx[p].row
      /\ Changes(p) => status[tx[p].row] = Before(tx[p].op)
  BY <1>1 DEF AgentOK, Past, Changes
<1>5. /\ status' \in [Agents -> AgentStatus] /\ applications' = status'
      /\ \A a \in Agents : status'[a] = IF Changes(p) /\ a = tx[p].row
                                       THEN After(tx[p].op) ELSE status[a]
  <2>1. After(tx[p].op) \in AgentStatus
    BY DEF After, AgentStatus
  <2>2. \A a \in Agents : applications[a] = status[a] /\ status[a] \in AgentStatus
    BY <1>1 DEF LifecycleInv, ApplicationsFollow, TypeOK
  <2> QED
    BY <1>4, <2>1, <2>2 DEF Commit
<1>6. /\ session' \in [Sessions -> SessionStatus]
      /\ \A s \in work[p].inserted : session[s] = "none" /\ session'[s] = "live"
      /\ \A s \in work[p].revoked : session[s] \in NotRevoked /\ session'[s] = "revoked"
      /\ \A s \in Sessions \ (work[p].inserted \cup work[p].revoked) : session'[s] = session[s]
  <2>1. /\ \A s \in work[p].inserted : session[s] = "none"
        /\ \A s \in work[p].revoked : session[s] \in NotRevoked
    BY <1>1 DEF SessionsOK, RequestOK
  <2>2. session' = [s \in Sessions |-> CASE s \in work[p].inserted -> "live"
                                         [] s \in work[p].revoked  -> "revoked"
                                         [] OTHER -> session[s]]
    BY DEF Commit
  <2>3. \A s \in Sessions : /\ s \in work[p].inserted => s \notin work[p].revoked
                            /\ session[s] \in SessionStatus
    BY <1>1, <2>1 DEF NotRevoked, TypeOK
  <2>4. \A s \in Sessions :
          /\ s \in work[p].inserted => session'[s] = "live"
          /\ s \in work[p].revoked => session'[s] = "revoked"
          /\ s \notin work[p].inserted \cup work[p].revoked => session'[s] = session[s]
    BY <2>2, <2>3
  <2>5. session' \in [Sessions -> SessionStatus]
    BY <2>2, <2>3, <2>4 DEF SessionStatus
  <2> QED
    BY <1>3, <2>1, <2>4, <2>5
<1>7. audit' = Record(audit, EventsOf(p)) /\ DOMAIN audit = Agents \cup Sessions
  BY <1>1 DEF Commit, TypeOK
<1>8. \A r \in Agents \cup Sessions :
        /\ \A e : Only(p, r, e) => audit'[r] = Append(audit[r], e)
        /\ Nothing(p, r) => audit'[r] = audit[r]
  BY <1>7, RecordOne, RecordNone DEF Only, Nothing
<1>9. \A a \in Agents : audit'[a] = IF Changes(p) /\ a = tx[p].row
                                   THEN Append(audit[a], AgentEvent(tx[p].op)) ELSE audit[a]
  BY <1>1, <1>8, Events
<1>10. /\ \A s \in work[p].inserted : audit'[s] = Append(audit[s], "user_signed_in")
       /\ \A s \in work[p].revoked : \E e \in Revocations : audit'[s] = Append(audit[s], e)
       /\ \A s \in Sessions \ (work[p].inserted \cup work[p].revoked) : audit'[s] = audit[s]
  BY <1>1, <1>3, <1>8, Events
<1>11. audit' \in [Agents \cup Sessions -> Seq(Actions)]
  <2>1. AgentEvent(tx[p].op) \in Actions /\ "user_signed_in" \in Actions
        /\ Revocations \subseteq Actions
    BY DEF AgentEvent, Actions, Revocations
  <2>2. ASSUME NEW r \in Agents \cup Sessions PROVE audit'[r] \in Seq(Actions)
    <3>1. audit[r] \in Seq(Actions)
      BY <1>1 DEF TypeOK
    <3>2. audit'[r] = audit[r] \/ \E e \in Actions : audit'[r] = Append(audit[r], e)
      BY <1>9, <1>10, <2>1
    <3> QED
      BY <3>1, <3>2
  <2>3. audit' = [r \in Agents \cup Sessions |-> audit'[r]]
    BY <1>7 DEF Record
  <2> QED
    BY <2>2, <2>3
<1> QED
  BY <1>1, <1>2, <1>4, <1>5, <1>6, <1>9, <1>10, <1>11

\* One more event of an agent, or none.
LEMMA CommitAgentsAudited ==
  ASSUME LifecycleInv, NEW p \in Procs, Commit(p)
  PROVE  AgentsAudited'
<1> SUFFICES ASSUME NEW a \in Agents
             PROVE  /\ \A i \in 1..Len(audit'[a]) :
                         audit'[a][i] = IF i % 2 = 1 THEN "agent_suspended"
                                                     ELSE "agent_reinstated"
                    /\ status'[a] = IF Len(audit'[a]) % 2 = 1 THEN "suspended" ELSE "active"
  BY DEF AgentsAudited
<1> DEFINE log == audit[a]
           n   == Len(log)
<1>1. log \in Seq(Actions) /\ n \in Nat
  BY DEF LifecycleInv, TypeOK
<1>2. /\ \A i \in 1..n : log[i] = IF i % 2 = 1 THEN "agent_suspended" ELSE "agent_reinstated"
      /\ status[a] = IF n % 2 = 1 THEN "suspended" ELSE "active"
  BY DEF LifecycleInv, AgentsAudited
<1>3. CASE Changes(p) /\ a = tx[p].row
  <2> DEFINE event == AgentEvent(tx[p].op)
  <2>1. /\ audit'[a] = Append(log, event)
        /\ status[a] = Before(tx[p].op) /\ status'[a] = After(tx[p].op)
    BY <1>3, CommitEffect
  <2>2. event \in Actions
    BY DEF AgentEvent, Actions
  <2>3. \/ event = "agent_suspended" /\ status[a] = "active" /\ status'[a] = "suspended"
        \/ event = "agent_reinstated" /\ status[a] = "suspended" /\ status'[a] = "active"
    BY <1>3, <2>1 DEF Changes, LifecycleOps, AgentEvent, Before, After
  <2> HIDE DEF event, log, n
  <2>4. /\ Len(audit'[a]) = n + 1 /\ audit'[a][n + 1] = event
        /\ \A i \in 1..n : audit'[a][i] = log[i]
    BY <1>1, <2>1, <2>2 DEF n
  <2>5. ((n + 1) % 2 = 1) <=> ~(n % 2 = 1)
    BY <1>1, Parity
  <2>6. ASSUME NEW i \in 1..(n + 1)
        PROVE  audit'[a][i] = IF i % 2 = 1 THEN "agent_suspended" ELSE "agent_reinstated"
    <3>1. CASE i = n + 1
      BY <1>2, <2>3, <2>4, <2>5, <3>1
    <3>2. CASE i # n + 1
      <4>1. i \in 1..n
        BY <1>1, <3>2
      <4> QED
        BY <1>2, <2>4, <4>1
    <3> QED
      BY <3>1, <3>2
  <2>7. status'[a] = IF (n + 1) % 2 = 1 THEN "suspended" ELSE "active"
    BY <1>2, <2>3, <2>5
  <2> QED
    BY <2>4, <2>6, <2>7
<1>4. CASE ~(Changes(p) /\ a = tx[p].row)
  <2>1. audit'[a] = log /\ status'[a] = status[a]
    BY <1>4, CommitEffect
  <2> QED
    BY <1>2, <2>1
<1> QED
  BY <1>3, <1>4

\* One more event of a session that begins or ends.
LEMMA CommitSessionsAudited ==
  ASSUME LifecycleInv, NEW p \in Procs, Commit(p)
  PROVE  SessionsAudited'
<1> SUFFICES ASSUME NEW s \in Sessions
             PROVE  /\ session'[s] = "none" => audit'[s] = <<>>
                    /\ session'[s] \in NotRevoked => audit'[s] = <<"user_signed_in">>
                    /\ session'[s] = "revoked" =>
                         /\ Len(audit'[s]) = 2 /\ audit'[s][1] = "user_signed_in"
                         /\ audit'[s][2] \in Revocations
  BY DEF SessionsAudited
<1>1. /\ session[s] = "none" => audit[s] = <<>>
      /\ session[s] \in NotRevoked => audit[s] = <<"user_signed_in">>
      /\ session[s] = "revoked" => /\ Len(audit[s]) = 2 /\ audit[s][1] = "user_signed_in"
                                   /\ audit[s][2] \in Revocations
  BY DEF LifecycleInv, SessionsAudited
<1>2. CASE s \in work[p].inserted
  <2>1. /\ audit[s] = <<>> /\ audit'[s] = Append(audit[s], "user_signed_in")
        /\ session'[s] = "live"
    BY <1>1, <1>2, CommitEffect
  <2> QED
    BY <2>1 DEF NotRevoked
<1>3. CASE s \in work[p].revoked
  <2>1. audit[s] = <<"user_signed_in">> /\ session'[s] = "revoked"
    BY <1>1, <1>3, CommitEffect
  <2>2. PICK e \in Revocations : audit'[s] = Append(audit[s], e)
    BY <1>3, CommitEffect
  <2>3. /\ Len(audit'[s]) = 2 /\ audit'[s][1] = "user_signed_in" /\ audit'[s][2] = e
    BY <2>1, <2>2
  <2> QED
    BY <2>1, <2>3 DEF NotRevoked
<1>4. CASE s \notin work[p].inserted \cup work[p].revoked
  <2>1. audit'[s] = audit[s] /\ session'[s] = session[s]
    BY <1>4, CommitEffect
  <2> QED
    BY <1>1, <2>1
<1> QED
  BY <1>2, <1>3, <1>4

\* What the other requests rely on survives, thanks to their locks: their agent
\* and the sessions that they end keep their status, and a key that one of them
\* is about to insert is still free.
LEMMA CommitOthers ==
  ASSUME LifecycleInv, NEW p \in Procs, Commit(p), NEW q \in Procs, q # p, Same(q)
  PROVE  OwnOK(q)'
<1>1. /\ tx'[q] = tx[q] /\ work'[q] = work[q] /\ locked'[q] = locked[q]
      /\ present'[q] = present[q] /\ OwnOK(q) /\ ApartOK(p, q)
      /\ work[q] \in Work /\ present[q] \subseteq Sessions
  BY DEF Same, LifecycleInv, TypeOK
<1>2. InTransaction(q)' = InTransaction(q) /\ EventsOf(q)' = EventsOf(q)
  BY <1>1 DEF InTransaction, EventsOf
<1>3. CASE ~InTransaction(q)
  BY <1>1, <1>2, <1>3 DEF OwnOK
<1>4. CASE InTransaction(q)
  <2>1. RequestOK(q) /\ AgentOK(q) /\ SessionsOK(q)
    BY <1>1, <1>4 DEF OwnOK
  <2>2. /\ work[p].inserted = {s \in {tx[p].row} : tx[p].op = "signIn"}
        /\ work[p].revoked \subseteq locked[p] /\ work[p].revoked \subseteq Sessions
        /\ \A s \in work[p].inserted : session[s] = "none"
        /\ \A s \in work[p].revoked : session[s] \in NotRevoked
    BY CommitEffect DEF SessionsOK, Work
  <2>3. RequestOK(q)'
    <3>1. tx[q].op = "signIn" =>
            /\ tx[q].row \notin work[p].inserted /\ tx[q].row \notin work[p].revoked
            /\ tx[q].row \in Sessions
      BY <1>1, <2>1, <2>2 DEF ApartOK, RequestOK, NotRevoked
    <3>2. tx[q].op = "signIn" => session'[tx[q].row] = "none"
      BY <2>1, <3>1, CommitEffect DEF RequestOK
    <3> QED
      BY <1>1, <2>1, <3>2 DEF RequestOK
  <2>4. AgentOK(q)'
    <3>1. Past(q, {"lockAgent"}) =>
            tx[q].row \in Agents /\ ~(Changes(p) /\ tx[q].row = tx[p].row)
      <4>1. Past(q, {"lockAgent"}) => tx[q].row \in locked[q] /\ tx[q].row \in Agents
        BY <2>1 DEF AgentOK, RequestOK, Past, LifecycleOps
      <4>2. Changes(p) => tx[p].row \in locked[p]
        BY CommitEffect DEF Changes, AgentOK, Past
      <4> QED
        BY <1>1, <4>1, <4>2 DEF ApartOK
    <3>2. Past(q, {"lockAgent"}) => status'[tx[q].row] = status[tx[q].row]
      BY <3>1, CommitEffect
    <3>3. Past(q, {"lockAgent", "checkScope"}) => Past(q, {"lockAgent"})
      BY DEF Past
    <3> QED
      BY <1>1, <2>1, <3>2, <3>3 DEF AgentOK, Past
  <2>5. SessionsOK(q)'
    <3>1. ASSUME NEW s \in work[q].revoked PROVE session'[s] \in NotRevoked
      <4>1. s \in Sessions /\ session[s] \in NotRevoked /\ s \in locked[q]
        BY <1>1, <2>1 DEF SessionsOK, Work
      <4>2. s \notin work[p].inserted /\ s \notin work[p].revoked
        BY <1>1, <2>2, <4>1 DEF ApartOK, NotRevoked
      <4> QED
        BY <4>1, <4>2, CommitEffect
    <3>2. ASSUME NEW s \in present[q], session[s] # "none"
          PROVE  session'[s] # "none" /\ (session[s] = "revoked" => session'[s] = "revoked")
      <4>1. s \in Sessions /\ s \notin work[p].inserted
        BY <1>1, <2>2, <3>2
      <4>2. s \in work[p].revoked => session'[s] = "revoked"
        BY CommitEffect
      <4>3. s \notin work[p].revoked => session'[s] = session[s]
        BY <4>1, CommitEffect
      <4> QED
        BY <3>2, <4>2, <4>3
    <3> QED
      BY <1>1, <2>1, <3>1, <3>2 DEF SessionsOK
  <2> QED
    BY <1>1, <1>2, <1>4, <2>1, <2>3, <2>4, <2>5 DEF OwnOK
<1> QED
  BY <1>3, <1>4

LEMMA CommitInv ==
  ASSUME LifecycleInv, NEW p \in Procs, Commit(p)
  PROVE  LifecycleInv'
<1>1. PICK answer \in Answers : Finish(p, answer)
  BY CommitEffect
<1>2. /\ OwnOK(p)' /\ \A q \in Procs \ {p} : ApartOK(p, q)' /\ Same(q)
  BY <1>1, FinishType
<1>3. TypeOK'
  BY <1>1, FinishType, CommitEffect DEF TypeOK
<1>4. ApplicationsFollow'
  BY CommitEffect DEF ApplicationsFollow
<1>5. AgentsAudited' /\ SessionsAudited'
  BY CommitAgentsAudited, CommitSessionsAudited
<1>6. \A q \in Procs : OwnOK(q)'
  BY <1>2, CommitOthers
<1>7. ASSUME NEW q \in Procs, NEW r \in Procs, q # r PROVE ApartOK(q, r)'
  <2>1. CASE q = p
    BY <1>2, <1>7, <2>1
  <2>2. CASE r = p
    <3>1. ApartOK(p, q)'
      BY <1>2, <1>7, <2>2
    <3> QED
      BY <3>1, <2>2 DEF ApartOK
  <2>3. CASE q # p /\ r # p
    <3>1. ApartOK(q, r) /\ Same(q) /\ Same(r)
      BY <1>2, <1>7, <2>3 DEF LifecycleInv
    <3> QED
      BY <3>1 DEF ApartOK, Same
  <2> QED
    BY <2>1, <2>2, <2>3
<1> QED
  BY <1>3, <1>4, <1>5, <1>6, <1>7 DEF LifecycleInv

-----------------------------------------------------------------------------
LEMMA NextInv == LifecycleInv /\ [Next]_vars => LifecycleInv'
<1> SUFFICES ASSUME LifecycleInv, [Next]_vars PROVE LifecycleInv'
  OBVIOUS
<1>1. ASSUME NEW p \in Procs, Start(p) PROVE LifecycleInv'
  BY <1>1, StartInv
<1>2. ASSUME NEW p \in Procs, Statement(p) PROVE LifecycleInv'
  BY <1>2, LockAgentInv, CheckScopeInv, UpdateAgentInv, UpdateApplicationsInv,
     FindSessionsInv, LockSessionInv, InsertSessionInv, GetSessionInv, RevokeSessionInv,
     WriteAuditInv, CommitInv DEF Statement
<1>3. ASSUME NEW p \in Procs, Interrupt(p) \/ DeadlockAbort(p) PROVE LifecycleInv'
  BY <1>3, EndInv
<1>4. ASSUME NEW p \in Procs, Return(p) PROVE LifecycleInv'
  BY <1>4, ReturnInv
<1>5. ASSUME NEW s \in Sessions, Expire(s) PROVE LifecycleInv'
  BY <1>5, ExpireInv
<1>6. CASE UNCHANGED vars
  <2>1. \A q \in Procs : OwnOK(q)'
    BY <1>6, OwnSame DEF vars, Same, LifecycleInv
  <2>2. TypeOK' /\ ApplicationsFollow' /\ AgentsAudited' /\ SessionsAudited'
    BY <1>6 DEF vars, tables, LifecycleInv, TypeOK, ApplicationsFollow, AgentsAudited,
                SessionsAudited
  <2>3. \A q, r \in Procs : q # r => ApartOK(q, r)'
    BY <1>6 DEF vars, LifecycleInv, ApartOK
  <2> QED
    BY <2>1, <2>2, <2>3 DEF LifecycleInv
<1> QED
  BY <1>1, <1>2, <1>3, <1>4, <1>5, <1>6 DEF Next

\* In every reachable state the log of an agent is a history that ends in the
\* agent's status, every session begins and ends once, with an event each, and
\* the requests of src/api/internal/repo/agent_lifecycle.go, identity.go and
\* roles.go are kept apart by their row locks, wherever one of them stops.
THEOREM Inductive == Spec => []LifecycleInv
BY InitInv, NextInv, PTL DEF Spec

\* No interleaving of suspensions and reinstatements separates the status of an
\* agent from that of its application, although UpdateApplications looks at
\* rows that it has not locked.
THEOREM ApplicationsAgree == Spec => []ApplicationsFollow
<1>1. LifecycleInv => ApplicationsFollow
  BY DEF LifecycleInv
<1> QED
  BY <1>1, Inductive, PTL

\* The sessions that a suspension or a role revocation could know of when it
\* began have ended when it commits, whoever else was ending them.
THEOREM SessionsEnd == Spec => KnownSessionsEnd
<1>1. LifecycleInv /\ [Next]_vars =>
        [\A p \in Procs : tx[p].op \in Revoking /\ Commit(p) =>
           \A s \in present[p] : session'[s] = "revoked"]_vars
  <2> SUFFICES ASSUME LifecycleInv, NEW p \in Procs, tx[p].op \in Revoking, Commit(p),
                      NEW s \in present[p]
               PROVE  session'[s] = "revoked"
    OBVIOUS
  <2>1. /\ session[s] # "none" /\ s \in Sessions
        /\ session[s] = "revoked" \/ s \in work[p].revoked
    BY CommitEffect DEF SessionsOK, LifecycleInv, TypeOK
  <2>2. s \notin work[p].inserted
    BY <2>1, CommitEffect
  <2> QED
    BY <2>1, <2>2, CommitEffect
<1> QED
  BY <1>1, Inductive, PTL DEF Spec, KnownSessionsEnd
=============================================================================
