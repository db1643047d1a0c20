---------------------- MODULE AgentApplicationsProofs ----------------------
(***************************************************************************)
(* Proofs about AgentApplications, for every set of users, campuses,       *)
(* submissions and concurrent requests.                                    *)
(***************************************************************************)
EXTENDS AgentApplicationsInv, TLAPS

USE ContentAssumption, RoleAssumption, NoneAssumption

Pcs == {"idle"} \cup Waiting \cup Running \cup Answers

\* A transaction that has written nothing has a record of the right type.
LEMMA NoWorkType == NoWork \in Work
<1>1. <<>> \in Seq(Event)
  OBVIOUS
<1>2. NoRow \in ApplicationRow
  BY DEF NoRow, ApplicationRow, Statuses
<1> QED
  BY <1>1, <1>2 DEF NoWork, Work

\* Going on to another statement keeps the type of the transactions and
\* changes only the program counter of p.
LEMMA AdvanceType ==
  ASSUME TypeOK, NEW p \in Procs, NEW pc \in Pcs, Advance(p, pc)
  PROVE  /\ tx' \in [Procs -> Transaction]
         /\ tx'[p] = [tx[p] EXCEPT !.pc = pc]
         /\ \A q \in Procs \ {p} : tx'[q] = tx[q]
<1>1. tx \in [Procs -> Transaction]
  BY DEF TypeOK
<1>2. tx' \in [Procs -> Transaction]
  BY <1>1 DEF Advance, Transaction, Pcs
<1>3. tx'[p] = [tx[p] EXCEPT !.pc = pc] /\ \A q \in Procs \ {p} : tx'[q] = tx[q]
  BY <1>1 DEF Advance
<1> QED
  BY <1>2, <1>3

\* Acquiring a row lock keeps the type of the locks and changes only those
\* of p.
LEMMA AcquireType ==
  ASSUME TypeOK, NEW p \in Procs, NEW l \in Locks, Acquire(p, l)
  PROVE  /\ held' \in [Procs -> SUBSET Locks]
         /\ held'[p] = held[p] \cup {l}
         /\ \A q \in Procs \ {p} : held'[q] = held[q]
BY DEF Acquire, TypeOK

-----------------------------------------------------------------------------
\* A step of p that leaves the tables alone has to be checked for p only.

Same(q) == /\ tx'[q] = tx[q] /\ work'[q] = work[q]
           /\ held'[q] = held[q] /\ scope'[q] = scope[q]

\* What a transaction has established survives a step of another one that
\* leaves the tables alone.
LEMMA OwnSame ==
  ASSUME NEW q \in Procs, Own(q), Same(q), UNCHANGED <<roles, tables>>
  PROVE  Own(q)'
<1>1. RequestOK(tx[q])' /\ HeldOK(tx[q], held[q])' /\ WorkOK(tx[q], work[q])'
  BY DEF Own, Same
<1>2. SeenOK(q)'
  BY DEF Own, Same, SeenOK, tables, PendingDuplicates, HasLinkedAgent
<1>3. ScopeOK(q)' /\ Truthful(q)'
  BY DEF Own, Same, ScopeOK, Truthful, tables, CanReviewCampus, HasLinkedAgent
<1> QED
  BY <1>1, <1>2, <1>3 DEF Own

\* A step of p that leaves the tables alone preserves the invariant once it
\* preserves what is said of p.
LEMMA Frame ==
  ASSUME IInv, NEW p \in Procs, UNCHANGED <<roles, tables>>, TypeOK',
         \A q \in Procs \ {p} : Same(q),
         Own(p)', \A q \in Procs \ {p} : ApartOK(p, q)'
  PROVE  IInv'
<1>1. \A q \in Procs : Own(q)'
  BY OwnSame DEF IInv
<1>2. ASSUME NEW q \in Procs, NEW r \in Procs, q # r PROVE ApartOK(q, r)'
  <2>1. CASE q = p
    BY <1>2, <2>1
  <2>2. CASE r = p
    <3>1. ApartOK(p, q)'
      BY <1>2, <2>2
    <3> QED
      BY <3>1, <2>2 DEF ApartOK, Conflicting
  <2>3. CASE q # p /\ r # p
    BY <1>2, <2>3 DEF IInv, ApartOK, Same
  <2> QED
    BY <2>1, <2>2, <2>3
<1>3. RowsOK' /\ AuditMatches' /\ AgentsMatch'
  BY DEF IInv, RowsOK, AuditMatches, AgentsMatch, tables
<1> QED
  BY <1>1, <1>2, <1>3 DEF IInv

\* p goes on to another statement of its transaction.
LEMMA StatementFrame ==
  ASSUME IInv, NEW p \in Procs, InTransaction(p),
         NEW pc \in Waiting \cup Running, pc \in Path(tx[p].op), Advance(p, pc),
         UNCHANGED <<roles, tables, scope>>,
         work' \in [Procs -> Work], held' \in [Procs -> SUBSET Locks],
         \A q \in Procs \ {p} : work'[q] = work[q] /\ held'[q] = held[q],
         HeldOK([tx[p] EXCEPT !.pc = pc], held'[p]),
         WorkOK([tx[p] EXCEPT !.pc = pc], work'[p]),
         SeenOK(p)',
         pc \in ScopeKnown /\ tx[p].op # "create" => CampusOf[tx[p].app] \in scope[p],
         \A q \in Procs \ {p} :
           /\ \A l \in held'[p], m \in held[q] : ~Conflicting(l, m)
           /\ \A g \in work'[p].agents, h \in work[q].agents : g.id # h.id /\ g.phone # h.phone
  PROVE  IInv'
<1> DEFINE t == tx[p]
<1>1. /\ tx' \in [Procs -> Transaction]
      /\ tx'[p] = [t EXCEPT !.pc = pc]
      /\ \A q \in Procs \ {p} : tx'[q] = tx[q]
  BY AdvanceType DEF IInv, Pcs
<1>2. TypeOK'
  BY <1>1 DEF IInv, TypeOK, tables
<1>3. t \in Transaction /\ t # Idle /\ t.op \in Ops /\ t.app \in Apps /\ t.actor \in Users
  BY DEF IInv, TypeOK, Own, RequestOK, InTransaction, Idle, Waiting, Running
<1>4. RequestOK(tx[p])'
  BY <1>1, <1>3 DEF RequestOK, Transaction
<1>5. ScopeOK(p)'
  <2>1. tx'[p].actor = t.actor /\ tx'[p].op = t.op /\ tx'[p].app = t.app /\ tx'[p].pc = pc
    BY <1>1, <1>3 DEF Transaction
  <2>2. ScopeOK(p)
    BY DEF IInv, Own
  <2> QED
    BY <2>1, <2>2, <1>3 DEF ScopeOK, CanReviewCampus, Deciding
<1>6. Truthful(p)'
  BY <1>1, <1>3 DEF Truthful, Transaction, Waiting, Running
<1>7. Own(p)'
  BY <1>1, <1>4, <1>5, <1>6 DEF Own
<1>8. \A q \in Procs \ {p} : ApartOK(p, q)'
  BY <1>1, <1>3 DEF IInv, ApartOK, Transaction
<1>9. \A q \in Procs \ {p} : Same(q)
  BY <1>1 DEF Same
<1> QED
  BY <1>2, <1>7, <1>8, <1>9, Frame

\* An error return of a repository function preserves the invariant, if the
\* reason it gives is true.
LEMMA RollbackInv ==
  ASSUME IInv, NEW p \in Procs, InTransaction(p), NEW answer \in Answers,
         Rollback(p, answer), Truthful(p)'
  PROVE  IInv'
<1> DEFINE t == tx[p]
<1>1. /\ tx' \in [Procs -> Transaction]
      /\ tx'[p] = [t EXCEPT !.pc = answer]
      /\ \A q \in Procs \ {p} : tx'[q] = tx[q]
  BY AdvanceType DEF IInv, Pcs, Rollback, Finish
<1>2. /\ work' = [work EXCEPT ![p] = NoWork] /\ held' = [held EXCEPT ![p] = {}]
      /\ UNCHANGED <<roles, tables, scope>>
  BY DEF Rollback, Finish
<1>3. /\ work' \in [Procs -> Work] /\ held' \in [Procs -> SUBSET Locks]
      /\ work'[p] = NoWork /\ held'[p] = {}
  BY <1>2, NoWorkType DEF IInv, TypeOK
<1>4. TypeOK'
  BY <1>1, <1>2, <1>3 DEF IInv, TypeOK, tables
<1>5. t \in Transaction /\ t # Idle /\ t.op \in Ops /\ t.app \in Apps /\ t.actor \in Users
  BY DEF IInv, TypeOK, Own, RequestOK, InTransaction, Idle, Waiting, Running
<1>6. /\ tx'[p].actor = t.actor /\ tx'[p].op = t.op /\ tx'[p].app = t.app
      /\ tx'[p].pc = answer
  BY <1>1, <1>5 DEF Transaction
<1>7. ~Open(tx'[p]) /\ answer \notin AgentWritten \cup RowWritten /\ answer # "commit"
  BY <1>6 DEF Open, Answers, Waiting, Running, AgentWritten, RowWritten
<1>8. RequestOK(tx[p])' /\ HeldOK(tx[p], held[p])'
  BY <1>3, <1>5, <1>6, <1>7 DEF RequestOK, HeldOK, Deciding, Linking
<1>9. WorkOK(tx[p], work[p])'
  BY <1>3, <1>6, <1>7 DEF WorkOK, NoWork
<1>10. SeenOK(p)'
  BY <1>3, <1>6, <1>7 DEF SeenOK, NoWork, Deciding, Linking
<1>11. ScopeOK(p)'
  <2>1. ScopeOK(p)
    BY DEF IInv, Own
  <2> QED
    BY <1>2, <1>5, <1>6, <1>7, <2>1 DEF ScopeOK, CanReviewCampus, Deciding
<1>12. \A q \in Procs \ {p} : Same(q)
  BY <1>1, <1>2 DEF Same, IInv, TypeOK
<1>13. \A q \in Procs \ {p} : ApartOK(p, q)'
  BY <1>3, <1>6, <1>12 DEF IInv, ApartOK, NoWork, Same
<1> QED
  BY <1>2, <1>4, <1>8, <1>9, <1>10, <1>11, <1>12, <1>13, Frame DEF Own

\* What holds of a transaction that is at some statement.
LEMMA AtFacts ==
  ASSUME IInv, NEW p \in Procs, NEW pc \in Waiting \cup Running, At(p, pc)
  PROVE  /\ InTransaction(p) /\ tx[p].pc = pc /\ Blockers(p) = {}
         /\ tx[p] \in Transaction /\ tx[p].op \in Ops /\ tx[p].app \in Apps
         /\ tx[p].actor \in Users /\ pc \in Path(tx[p].op)
         /\ work[p] \in Work /\ held[p] \in SUBSET Locks
         /\ HeldOK(tx[p], held[p]) /\ WorkOK(tx[p], work[p]) /\ SeenOK(p) /\ ScopeOK(p)
<1>1. tx[p].pc \in Waiting \cup Running /\ tx[p] # Idle
  BY DEF At, Idle, Waiting, Running
<1>2. pc \notin Answers
  BY DEF Waiting, Running, Answers
<1> QED
  BY <1>1, <1>2 DEF At, IInv, Own, TypeOK, RequestOK, InTransaction

\* A step of p that takes no lock and writes no agent leaves p apart from
\* the other transactions.
LEMMA StillApart ==
  ASSUME IInv, NEW p \in Procs, held' = held \/ held'[p] = held[p],
         work' = work \/ work'[p].agents = work[p].agents
  PROVE  \A q \in Procs \ {p} :
           /\ \A l \in held'[p], m \in held[q] : ~Conflicting(l, m)
           /\ \A g \in work'[p].agents, h \in work[q].agents : g.id # h.id /\ g.phone # h.phone
BY DEF IInv, ApartOK

\* The locks that the repository takes are locks on its rows.
LEMMA LocksType ==
  ASSUME NEW a \in Apps, NEW u \in Users
  PROVE  ForUpdate(ApplicationKey(a)) \in Locks /\ ForUpdate(UserKey(u)) \in Locks
         /\ KeyShare(UserKey(u)) \in Locks
BY DEF Locks, LocksOn, LockModes, ForUpdate, KeyShare, ApplicationKey, UserKey, Row

\* A row lock is granted only when nobody holds a conflicting one, so p
\* stays apart from the other transactions.
LEMMA Granted ==
  ASSUME IInv, NEW p \in Procs, NEW l \in Locks, Holders(held, p, l) = {}, Acquire(p, l),
         work' = work
  PROVE  \A q \in Procs \ {p} :
           /\ \A k \in held'[p], m \in held[q] : ~Conflicting(k, m)
           /\ \A g \in work'[p].agents, h \in work[q].agents : g.id # h.id /\ g.phone # h.phone
<1>1. DOMAIN held = Procs /\ held'[p] = held[p] \cup {l}
  BY DEF IInv, TypeOK, Acquire
<1>2. \A q \in Procs \ {p} : \A m \in held[q] : ~Conflicting(l, m)
  BY <1>1 DEF Holders
<1>3. \A q \in Procs \ {p} : ApartOK(p, q)
  BY DEF IInv
<1> QED
  BY <1>1, <1>2, <1>3 DEF ApartOK

\* SELECT ... FOR UPDATE of the application preserves the invariant.
LEMMA LoadApplicationInv ==
  ASSUME IInv, NEW p \in Procs, LoadApplication(p) PROVE IInv'
<1> DEFINE t == tx[p]
           a == t.app
           l == ForUpdate(ApplicationKey(a))
<1>1. At(p, "loadApplication")
  BY DEF LoadApplication
<1>2. /\ InTransaction(p) /\ t.pc = "loadApplication" /\ Blockers(p) = {}
      /\ t \in Transaction /\ t.op \in Ops /\ a \in Apps /\ t.op # "create"
      /\ WorkOK(t, work[p]) /\ SeenOK(p) /\ HeldOK(t, held[p])
  BY <1>1, AtFacts DEF Waiting, Path
<1>3. CASE application[a] = NoRow
  <2>1. Rollback(p, "ErrNotFound")
    BY <1>3 DEF LoadApplication
  <2>2. Truthful(p)'
    BY <2>1, <1>2 DEF Rollback, Finish, Advance, Truthful, IInv, TypeOK
  <2> QED
    BY <2>1, <2>2, <1>2, RollbackInv DEF Answers
<1>4. CASE application[a] # NoRow
  <2>1. /\ Advance(p, "checkScope") /\ Acquire(p, l)
        /\ UNCHANGED <<roles, tables, work, scope>>
    BY <1>4 DEF LoadApplication
  <2>2. Holders(held, p, l) = {}
    BY <1>2, <1>4 DEF Blockers
  <2>3. l \in Locks
    BY <1>2, LocksType
  <2>4. held' \in [Procs -> SUBSET Locks] /\ held'[p] = held[p] \cup {l}
        /\ \A q \in Procs \ {p} : held'[q] = held[q]
    BY <2>1, <2>3, AcquireType DEF IInv
  <2>5. "checkScope" \in Running /\ "checkScope" \in Path(t.op) /\ "checkScope" \notin ScopeKnown
    BY <1>2 DEF Running, Path, Ops, ScopeKnown
  <2>6. HeldOK([t EXCEPT !.pc = "checkScope"], held'[p])
    BY <1>2, <2>4, <2>5 DEF HeldOK, Open, Transaction, Deciding, Linking, LinkKnown
  <2>7. WorkOK([t EXCEPT !.pc = "checkScope"], work[p])
    BY <1>2 DEF WorkOK, Transaction, AgentWritten, RowWritten
  <2>8. tx'[p] = [t EXCEPT !.pc = "checkScope"]
    BY <2>1, <2>5, AdvanceType DEF IInv, Pcs
  <2>9. application[a].status # "none"
    BY <1>2, <1>4 DEF IInv, RowsOK
  <2>10. SeenOK(p)'
    BY <1>2, <2>1, <2>8, <2>9 DEF SeenOK, tables, Transaction, LinkKnown, ScopeKnown, HasLinkedAgent
  <2> HIDE DEF l, t, a
  <2> QED
    BY <1>2, <2>1, <2>2, <2>3, <2>4, <2>5, <2>6, <2>7, <2>10, Granted, StatementFrame DEF IInv, TypeOK, t, a, l
<1> QED
  BY <1>3, <1>4

\* The checks of scope and status preserve the invariant: the application is
\* locked, so it stays pending.
LEMMA CheckScopeInv ==
  ASSUME IInv, NEW p \in Procs, CheckScope(p) PROVE IInv'
<1> DEFINE t == tx[p]
           a == t.app
           next == IF t.op = "activate" THEN "lockApplicant" ELSE "updateApplication"
           n == [t EXCEPT !.pc = next]
<1>1. At(p, "checkScope")
  BY DEF CheckScope
<1>2. /\ InTransaction(p) /\ t.pc = "checkScope"
      /\ t \in Transaction /\ t.op \in Ops /\ a \in Apps /\ t.op # "create"
      /\ WorkOK(t, work[p]) /\ SeenOK(p) /\ HeldOK(t, held[p]) /\ ScopeOK(p)
  BY <1>1, AtFacts DEF Running, Path
<1>3. CASE ~CanReviewCampus(t.actor, CampusOf[a])
  <2>1. Rollback(p, "ErrCampusForbidden")
    BY <1>3 DEF CheckScope
  <2>2. Truthful(p)'
    BY <2>1, <1>2 DEF Rollback, Finish, Advance, Truthful, IInv, TypeOK
  <2> QED
    BY <2>1, <2>2, <1>2, RollbackInv DEF Answers
<1>4. CASE CanReviewCampus(t.actor, CampusOf[a]) /\ application[a].status # "pending"
  <2>1. Rollback(p, "ErrApplicationResolved")
    BY <1>4 DEF CheckScope
  <2>2. application[a].status \in {"active", "declined"}
    BY <1>2, <1>4 DEF SeenOK, Deciding, Open, Running, Ops, IInv, TypeOK, ApplicationRow, Statuses
  <2>3. Truthful(p)'
    BY <2>1, <2>2, <1>2 DEF Rollback, Finish, Advance, Truthful, IInv, TypeOK, tables
  <2> QED
    BY <2>1, <2>3, <1>2, RollbackInv DEF Answers
<1>5. CASE CanReviewCampus(t.actor, CampusOf[a]) /\ application[a].status = "pending"
  <2>1. Advance(p, next) /\ UNCHANGED <<roles, tables, work, held, scope>>
    BY <1>5 DEF CheckScope
  <2>2. next \in Waiting \cup Running /\ next \in Path(t.op)
    BY <1>2 DEF Waiting, Running, Path, Ops
  <2>3. HeldOK(n, held[p])
    <3>1. n.pc = next /\ n.op = t.op /\ n.app = a /\ Open(n) /\ Open(t)
      BY <1>2, <2>2 DEF Transaction, Open, Running
    <3> QED
      BY <1>2, <3>1 DEF HeldOK, Deciding, Linking, LinkKnown, ScopeKnown, Ops
  <2>4. WorkOK(n, work[p])
    BY <1>2 DEF WorkOK, Transaction, AgentWritten, RowWritten
  <2>5. tx'[p] = n
    BY <2>1, <2>2, AdvanceType DEF IInv, Pcs
  <2>6. SeenOK(p)'
    BY <1>2, <1>5, <2>1, <2>5 DEF SeenOK, tables, Transaction, LinkKnown, ScopeKnown,
                                  HasLinkedAgent, Linking
  <2>7. CampusOf[a] \in scope[p]
    BY <1>2, <1>5 DEF ScopeOK, Idle
  <2> HIDE DEF next
  <2> QED
    BY <1>2, <2>1, <2>2, <2>3, <2>4, <2>6, <2>7, StillApart, StatementFrame DEF IInv, TypeOK
<1> QED
  BY <1>3, <1>4, <1>5

\* SELECT ... FOR UPDATE of the applicant preserves the invariant.
LEMMA LockApplicantInv ==
  ASSUME IInv, NEW p \in Procs, LockApplicant(p) PROVE IInv'
<1> DEFINE t == tx[p]
           a == t.app
           l == ForUpdate(UserKey(ApplicantOf[a]))
           n == [t EXCEPT !.pc = "checkLinked"]
<1>1. At(p, "lockApplicant")
  BY DEF LockApplicant
<1>2. /\ InTransaction(p) /\ t.pc = "lockApplicant" /\ Blockers(p) = {}
      /\ t \in Transaction /\ t.op \in Ops /\ a \in Apps /\ t.op # "decline"
      /\ WorkOK(t, work[p]) /\ SeenOK(p) /\ HeldOK(t, held[p]) /\ ScopeOK(p)
  BY <1>1, AtFacts DEF Waiting, Path
<1>3. Advance(p, "checkLinked") /\ Acquire(p, l) /\ UNCHANGED <<roles, tables, work, scope>>
  BY DEF LockApplicant
<1>4. Holders(held, p, l) = {}
  BY <1>2 DEF Blockers
<1>5. l \in Locks
  BY <1>2, LocksType
<1>6. /\ held' \in [Procs -> SUBSET Locks] /\ held'[p] = held[p] \cup {l}
      /\ \A q \in Procs \ {p} : held'[q] = held[q]
  BY <1>3, <1>5, AcquireType DEF IInv
<1>7. "checkLinked" \in Running /\ "checkLinked" \in Path(t.op)
  BY <1>2 DEF Running, Path, Ops
<1>8. HeldOK(n, held'[p])
  BY <1>2, <1>6, <1>7 DEF HeldOK, Open, Transaction, Deciding, Linking, ScopeKnown, LinkKnown, Waiting
<1>9. WorkOK(n, work[p])
  BY <1>2 DEF WorkOK, Transaction, AgentWritten, RowWritten
<1>10. tx'[p] = n
  BY <1>3, <1>7, AdvanceType DEF IInv, Pcs
<1>11. SeenOK(p)'
  BY <1>2, <1>3, <1>10 DEF SeenOK, tables, Transaction, LinkKnown, ScopeKnown,
                           HasLinkedAgent, Deciding, Open, Waiting
<1>12. t.op # "create" => CampusOf[a] \in scope[p]
  BY <1>2 DEF ScopeOK, Deciding, Open, Ops, ScopeKnown, Waiting
<1> HIDE DEF l, n, a
<1> QED
  BY <1>2, <1>3, <1>4, <1>5, <1>6, <1>7, <1>8, <1>9, <1>11, <1>12, Granted, StatementFrame
     DEF IInv, TypeOK, n, a

\* The check for a linked agent preserves the invariant: the applicant is
\* locked, so nobody else can link an agent.
LEMMA CheckLinkedInv ==
  ASSUME IInv, NEW p \in Procs, CheckLinked(p) PROVE IInv'
<1> DEFINE t == tx[p]
           a == t.app
           next == IF t.op = "activate" THEN "insertAgent" ELSE "insertApplication"
           n == [t EXCEPT !.pc = next]
<1>1. At(p, "checkLinked")
  BY DEF CheckLinked
<1>2. /\ InTransaction(p) /\ t.pc = "checkLinked"
      /\ t \in Transaction /\ t.op \in Ops /\ a \in Apps /\ t.op # "decline"
      /\ WorkOK(t, work[p]) /\ SeenOK(p) /\ HeldOK(t, held[p]) /\ ScopeOK(p)
  BY <1>1, AtFacts DEF Running, Path
<1>3. CASE HasLinkedAgent(ApplicantOf[a])
  <2>1. Rollback(p, "ErrAlreadyLinked")
    BY <1>3 DEF CheckLinked
  <2>2. Truthful(p)'
    BY <2>1, <1>2, <1>3 DEF Rollback, Finish, Advance, Truthful, IInv, TypeOK, tables, HasLinkedAgent
  <2> QED
    BY <2>1, <2>2, <1>2, RollbackInv DEF Answers
<1>4. CASE ~HasLinkedAgent(ApplicantOf[a])
  <2>1. Advance(p, next) /\ UNCHANGED <<roles, tables, work, held, scope>>
    BY <1>4 DEF CheckLinked
  <2>2. next \in Waiting \cup Running /\ next \in Path(t.op)
    BY <1>2 DEF Waiting, Running, Path, Ops
  <2>3. HeldOK(n, held[p])
    <3>1. n.pc = next /\ n.op = t.op /\ n.app = a /\ Open(n) /\ Open(t)
      BY <1>2, <2>2 DEF Transaction, Open, Running
    <3> QED
      BY <1>2, <3>1 DEF HeldOK, Deciding, Linking, LinkKnown, ScopeKnown, Ops
  <2>4. WorkOK(n, work[p])
    BY <1>2 DEF WorkOK, Transaction, AgentWritten, RowWritten
  <2>5. tx'[p] = n
    BY <2>1, <2>2, AdvanceType DEF IInv, Pcs
  <2>6. SeenOK(p)'
    BY <1>2, <1>4, <2>1, <2>5 DEF SeenOK, tables, Transaction, LinkKnown, ScopeKnown,
                                  HasLinkedAgent, Deciding, Open, Running
  <2>7. t.op # "create" => CampusOf[a] \in scope[p]
    BY <1>2 DEF ScopeOK, Deciding, Open, Ops, ScopeKnown, Running
  <2> HIDE DEF next
  <2> QED
    BY <1>2, <2>1, <2>2, <2>3, <2>4, <2>6, <2>7, StillApart, StatementFrame DEF IInv, TypeOK
<1> QED
  BY <1>3, <1>4

\* The INSERT of an application preserves the invariant: its unique index
\* leaves no other pending row and no other writer of one.
LEMMA InsertApplicationInv ==
  ASSUME IInv, NEW p \in Procs, InsertApplication(p) PROVE IInv'
<1> DEFINE t == tx[p]
           a == t.app
           n == [t EXCEPT !.pc = "commit"]
           row == [NoRow EXCEPT !.status = "pending"]
<1>1. At(p, "insertApplication")
  BY DEF InsertApplication
<1>2. /\ InTransaction(p) /\ t.pc = "insertApplication"
      /\ t \in Transaction /\ t.op = "create" /\ a \in Apps
      /\ WorkOK(t, work[p]) /\ SeenOK(p) /\ HeldOK(t, held[p]) /\ ScopeOK(p)
  BY <1>1, AtFacts DEF Waiting, Path, Ops
<1>3. CASE CampusOf[a] \notin ActiveCampuses
  <2>1. Rollback(p, "ErrNotFound")
    BY <1>3 DEF InsertApplication
  <2>2. Truthful(p)'
    BY <2>1, <1>2 DEF Rollback, Finish, Advance, Truthful, IInv, TypeOK
  <2> QED
    BY <2>1, <2>2, <1>2, RollbackInv DEF Answers
<1>4. CASE CampusOf[a] \in ActiveCampuses /\ PendingDuplicates(a) # {}
  <2>1. Rollback(p, "ErrApplicationConflict")
    BY <1>4 DEF InsertApplication
  <2>2. Truthful(p)'
    BY <2>1, <1>2 DEF Rollback, Finish, Advance, Truthful, IInv, TypeOK
  <2> QED
    BY <2>1, <2>2, <1>2, RollbackInv DEF Answers
<1>5. CASE CampusOf[a] \in ActiveCampuses /\ PendingDuplicates(a) = {}
  <2>1. /\ Advance(p, "commit") /\ work' = [work EXCEPT ![p].application = row]
        /\ UNCHANGED <<roles, tables, held, scope>>
    BY <1>5 DEF InsertApplication
  <2>2. "commit" \in Running /\ "commit" \in Path(t.op)
    BY <1>2 DEF Running, Path
  <2>3. n.pc = "commit" /\ n.op = t.op /\ n.app = a /\ Open(n) /\ Open(t)
    BY <1>2, <2>2 DEF Transaction, Open, Waiting
  <2>4. HeldOK(n, held[p])
    BY <1>2, <2>3 DEF HeldOK, Deciding, Linking, LinkKnown
  <2>5. work[p] \in Work /\ row \in ApplicationRow
    BY DEF IInv, TypeOK, NoRow, ApplicationRow, Statuses
  <2>6. /\ work' \in [Procs -> Work] /\ work'[p] = [work[p] EXCEPT !.application = row]
        /\ \A q \in Procs \ {p} : work'[q] = work[q]
    BY <2>1, <2>5 DEF IInv, TypeOK, Work
  <2>7. /\ work'[p].application = row /\ work'[p].agents = work[p].agents
        /\ work'[p].campuses = work[p].campuses /\ work'[p].events = work[p].events
    BY <2>5, <2>6 DEF Work
  <2>8. WorkOK(n, work'[p])
    BY <1>2, <2>3, <2>7 DEF WorkOK, RowWritten
  <2>9. tx'[p] = n
    BY <2>1, <2>2, AdvanceType DEF IInv, Pcs
  <2>10. PendingDuplicates(a)' = {}
    BY <1>5, <2>1, <2>3, <2>9 DEF PendingDuplicates, tables
  <2>11. SeenOK(p)'
    BY <1>2, <2>1, <2>3, <2>7, <2>9, <2>10 DEF SeenOK, tables, LinkKnown, HasLinkedAgent,
                                               Deciding, Linking
  <2> HIDE DEF n, row
  <2> QED
    BY <1>2, <2>1, <2>2, <2>4, <2>6, <2>7, <2>8, <2>11, StillApart, StatementFrame DEF IInv, TypeOK, n
<1> QED
  BY <1>3, <1>4, <1>5

\* The INSERT of an agent preserves the invariant: its key, user and phone
\* number are new, and a clash can only be one of phone numbers.
LEMMA InsertAgentInv ==
  ASSUME IInv, NEW p \in Procs, InsertAgent(p) PROVE IInv'
<1> DEFINE t == tx[p]
           a == t.app
           n == [t EXCEPT !.pc = "associateCampus"]
<1>1. At(p, "insertAgent")
  BY DEF InsertAgent
<1>2. /\ InTransaction(p) /\ t.pc = "insertAgent" /\ Blockers(p) = {}
      /\ t \in Transaction /\ t.op = "activate" /\ a \in Apps
      /\ WorkOK(t, work[p]) /\ SeenOK(p) /\ HeldOK(t, held[p]) /\ ScopeOK(p)
  BY <1>1, AtFacts DEF Waiting, Path, Ops
<1>3. ~HasLinkedAgent(ApplicantOf[a])
  BY <1>2 DEF SeenOK, Linking, Open, Waiting, LinkKnown
<1>4. CASE ClashingAgents(a) # {}
  <2>1. Rollback(p, "ErrPhoneConflict")
    BY <1>4 DEF InsertAgent
  <2>2. \E g \in agents : g.phone = PhoneOf[a] /\ g.user # ApplicantOf[a]
    BY <1>3, <1>4 DEF ClashingAgents, HasLinkedAgent
  <2>3. Truthful(p)'
    BY <2>1, <1>2, <2>2 DEF Rollback, Finish, Advance, Truthful, IInv, TypeOK, tables
  <2> QED
    BY <2>1, <2>3, <1>2, RollbackInv DEF Answers
<1>5. CASE ClashingAgents(a) = {}
  <2>1. Advance(p, "associateCampus") /\ UNCHANGED <<roles, tables, held, scope>>
    BY <1>5 DEF InsertAgent
  <2>2. PICK g \in Agents :
          /\ \A row \in agents \cup UNION {work[q].agents : q \in Procs} : row.id # g
          /\ work' = [work EXCEPT ![p].agents =
               {[id |-> g, user |-> ApplicantOf[a], phone |-> PhoneOf[a]]}]
    BY <1>5 DEF InsertAgent
  <2> DEFINE new == [id |-> g, user |-> ApplicantOf[a], phone |-> PhoneOf[a]]
  <2>3. n.pc = "associateCampus" /\ n.op = t.op /\ n.app = a /\ Open(n) /\ Open(t)
    BY <1>2 DEF Transaction, Open, Waiting, Running
  <2>4. "associateCampus" \in Running /\ "associateCampus" \in Path(t.op)
    BY <1>2 DEF Running, Path
  <2>5. HeldOK(n, held[p])
    BY <1>2, <2>3 DEF HeldOK, Deciding, Linking, LinkKnown, ScopeKnown
  <2>6. work[p] \in Work /\ new \in AgentRow
    BY <1>2 DEF IInv, TypeOK, AgentRow
  <2>7. /\ work' \in [Procs -> Work] /\ work'[p] = [work[p] EXCEPT !.agents = {new}]
        /\ \A q \in Procs \ {p} : work'[q] = work[q]
    BY <2>2, <2>6 DEF IInv, TypeOK, Work
  <2>8. /\ work'[p].application = work[p].application /\ work'[p].agents = {new}
        /\ work'[p].campuses = work[p].campuses /\ work'[p].events = work[p].events
    BY <2>6, <2>7 DEF Work
  <2>9. WorkOK(n, work'[p])
    BY <1>2, <2>3, <2>8 DEF WorkOK, RowWritten, AgentWritten
  <2>10. tx'[p] = n
    BY <2>1, <2>4, AdvanceType DEF IInv, Pcs
  <2>11. \A h \in agents : new.id # h.id /\ new.phone # h.phone
    BY <1>5, <2>2 DEF ClashingAgents
  <2>12. application[a].status = "pending"
    BY <1>2, <2>3 DEF SeenOK, Deciding, ScopeKnown
  <2>13. SeenOK(p)'
    BY <1>2, <1>3, <2>1, <2>3, <2>8, <2>10, <2>11, <2>12 DEF SeenOK, tables, HasLinkedAgent
  <2>14. \A q \in Procs \ {p} : \A h \in work[q].agents : new.id # h.id /\ new.phone # h.phone
    <3>1. AgentWriters(p) = {}
      BY <1>2 DEF Blockers
    <3> QED
      BY <2>2, <3>1 DEF AgentWriters
  <2>15. \A q \in Procs \ {p} :
           /\ \A l \in held'[p], m \in held[q] : ~Conflicting(l, m)
           /\ \A g1 \in work'[p].agents, h \in work[q].agents : g1.id # h.id /\ g1.phone # h.phone
    BY <2>1, <2>8, <2>14 DEF IInv, ApartOK
  <2>16. CampusOf[a] \in scope[p]
    BY <1>2, <2>3 DEF ScopeOK, Deciding, ScopeKnown
  <2> HIDE DEF n, new
  <2> QED
    BY <1>2, <2>1, <2>4, <2>5, <2>7, <2>9, <2>13, <2>15, <2>16, StatementFrame DEF IInv, TypeOK, n
<1> QED
  BY <1>4, <1>5

\* The agent that an activation has inserted, after InsertAgent.
LEMMA WrittenAgent ==
  ASSUME NEW p \in Procs, WorkOK(tx[p], work[p]), tx[p].op = "activate",
         tx[p].pc \in AgentWritten
  PROVE  \E g \in Agents :
           /\ work[p].agents = {[id |-> g, user |-> ApplicantOf[tx[p].app],
                                 phone |-> PhoneOf[tx[p].app]]}
           /\ work[p].campuses = IF tx[p].pc = "associateCampus" THEN {}
                                 ELSE {<<g, CampusOf[tx[p].app]>>}
           /\ tx[p].pc \in RowWritten => work[p].application =
                [status |-> "active", agent |-> g, reviewer |-> tx[p].actor]
BY DEF WorkOK

\* The INSERT of the campus of an agent preserves the invariant.
LEMMA AssociateCampusInv ==
  ASSUME IInv, NEW p \in Procs, AssociateCampus(p) PROVE IInv'
<1> DEFINE t == tx[p]
           a == t.app
           n == [t EXCEPT !.pc = "updateApplication"]
           links == {<<g.id, CampusOf[a]>> : g \in work[p].agents}
<1>1. At(p, "associateCampus")
  BY DEF AssociateCampus
<1>2. /\ InTransaction(p) /\ t.pc = "associateCampus"
      /\ t \in Transaction /\ t.op = "activate" /\ a \in Apps
      /\ WorkOK(t, work[p]) /\ SeenOK(p) /\ HeldOK(t, held[p]) /\ ScopeOK(p)
      /\ work[p] \in Work
  BY <1>1, AtFacts DEF Running, Path, Ops
<1>3. /\ Advance(p, "updateApplication") /\ work' = [work EXCEPT ![p].campuses = links]
      /\ UNCHANGED <<roles, tables, held, scope>>
  BY DEF AssociateCampus
<1>4. PICK g \in Agents : work[p].agents =
        {[id |-> g, user |-> ApplicantOf[a], phone |-> PhoneOf[a]]}
  BY <1>2, WrittenAgent DEF AgentWritten
<1>5. links = {<<g, CampusOf[a]>>}
  BY <1>4
<1>6. /\ work' \in [Procs -> Work] /\ work'[p] = [work[p] EXCEPT !.campuses = links]
      /\ \A q \in Procs \ {p} : work'[q] = work[q]
  <2>1. links \subseteq Agents \X Campuses
    BY <1>2, <1>5
  <2> QED
    BY <1>2, <1>3, <2>1 DEF IInv, TypeOK, Work
<1>7. /\ work'[p].application = work[p].application /\ work'[p].agents = work[p].agents
      /\ work'[p].campuses = links /\ work'[p].events = work[p].events
  BY <1>2, <1>6 DEF Work
<1>8. n.pc = "updateApplication" /\ n.op = t.op /\ n.app = a /\ Open(n) /\ Open(t)
  BY <1>2 DEF Transaction, Open, Running
<1>9. "updateApplication" \in Running /\ "updateApplication" \in Path(t.op)
  BY <1>2 DEF Running, Path
<1>10. HeldOK(n, held[p])
  BY <1>2, <1>8 DEF HeldOK, Deciding, Linking, LinkKnown, ScopeKnown
<1>11. WorkOK(n, work'[p])
  BY <1>2, <1>4, <1>5, <1>7, <1>8 DEF WorkOK, RowWritten, AgentWritten
<1>12. tx'[p] = n
  BY <1>3, <1>9, AdvanceType DEF IInv, Pcs
<1>13. SeenOK(p)'
  BY <1>2, <1>3, <1>7, <1>8, <1>12 DEF SeenOK, tables, HasLinkedAgent, Deciding, Linking,
                                       ScopeKnown, LinkKnown
<1>14. CampusOf[a] \in scope[p]
  BY <1>2, <1>8 DEF ScopeOK, Deciding, ScopeKnown
<1> HIDE DEF n, links
<1> QED
  BY <1>2, <1>3, <1>6, <1>7, <1>9, <1>10, <1>11, <1>13, <1>14, StillApart, StatementFrame
     DEF IInv, TypeOK, n

\* The UPDATE of the application preserves the invariant.
LEMMA UpdateApplicationInv ==
  ASSUME IInv, NEW p \in Procs, UpdateApplication(p) PROVE IInv'
<1> DEFINE t == tx[p]
           a == t.app
           n == [t EXCEPT !.pc = "referenceReviewer"]
<1>1. At(p, "updateApplication")
  BY DEF UpdateApplication
<1>2. /\ InTransaction(p) /\ t.pc = "updateApplication"
      /\ t \in Transaction /\ t.op \in {"activate", "decline"} /\ a \in Apps
      /\ t.actor \in Users
      /\ WorkOK(t, work[p]) /\ SeenOK(p) /\ HeldOK(t, held[p]) /\ ScopeOK(p)
      /\ work[p] \in Work
  BY <1>1, AtFacts DEF Running, Path, Ops
<1>3. application[a].status = "pending"
  BY <1>2 DEF SeenOK, Deciding, Open, Running, ScopeKnown
<1>4. /\ Advance(p, "referenceReviewer") /\ UNCHANGED <<roles, tables, held, scope>>
  BY <1>3 DEF UpdateApplication
<1>5. PICK row \in Decided(p) : work' = [work EXCEPT ![p].application = row]
  BY <1>3 DEF UpdateApplication
<1>6. row \in ApplicationRow
  <2>1. CASE t.op = "decline"
    BY <2>1, <1>2, <1>5 DEF Decided, ApplicationRow, Statuses
  <2>2. CASE t.op = "activate"
    <3>1. PICK g \in Agents : work[p].agents =
            {[id |-> g, user |-> ApplicantOf[a], phone |-> PhoneOf[a]]}
      BY <2>2, <1>2, WrittenAgent DEF AgentWritten
    <3>2. row = [status |-> "active", agent |-> g, reviewer |-> t.actor]
      BY <2>2, <3>1, <1>5 DEF Decided
    <3> QED
      BY <3>2, <1>2 DEF ApplicationRow, Statuses
  <2> QED
    BY <1>2, <2>1, <2>2
<1>7. /\ work' \in [Procs -> Work] /\ work'[p] = [work[p] EXCEPT !.application = row]
      /\ \A q \in Procs \ {p} : work'[q] = work[q]
  BY <1>2, <1>5, <1>6 DEF IInv, TypeOK, Work
<1>8. /\ work'[p].application = row /\ work'[p].agents = work[p].agents
      /\ work'[p].campuses = work[p].campuses /\ work'[p].events = work[p].events
  BY <1>2, <1>7 DEF Work
<1>9. n.pc = "referenceReviewer" /\ n.op = t.op /\ n.app = a /\ n.actor = t.actor
      /\ Open(n) /\ Open(t)
  BY <1>2 DEF Transaction, Open, Running, Waiting
<1>10. "referenceReviewer" \in Waiting /\ "referenceReviewer" \in Path(t.op)
  BY <1>2 DEF Waiting, Path
<1>11. HeldOK(n, held[p])
  BY <1>2, <1>9 DEF HeldOK, Deciding, Linking, LinkKnown, ScopeKnown
<1>12. WorkOK(n, work'[p])
  <2>1. CASE t.op = "decline"
    BY <2>1, <1>2, <1>5, <1>8, <1>9 DEF WorkOK, RowWritten, AgentWritten, Decided
  <2>2. CASE t.op = "activate"
    <3>1. PICK g \in Agents :
            /\ work[p].agents = {[id |-> g, user |-> ApplicantOf[a], phone |-> PhoneOf[a]]}
            /\ work[p].campuses = {<<g, CampusOf[a]>>}
      BY <2>2, <1>2, WrittenAgent DEF AgentWritten
    <3>2. row = [status |-> "active", agent |-> g, reviewer |-> t.actor]
      BY <2>2, <3>1, <1>5 DEF Decided
    <3> QED
      BY <2>2, <3>1, <3>2, <1>2, <1>8, <1>9 DEF WorkOK, RowWritten, AgentWritten
  <2> QED
    BY <1>2, <2>1, <2>2
<1>13. tx'[p] = n
  BY <1>4, <1>10, AdvanceType DEF IInv, Pcs
<1>14. SeenOK(p)'
  BY <1>2, <1>4, <1>8, <1>9, <1>13 DEF SeenOK, tables, HasLinkedAgent, Deciding, Linking,
                                       ScopeKnown, LinkKnown
<1>15. CampusOf[a] \in scope[p]
  BY <1>2, <1>9 DEF ScopeOK, Deciding, ScopeKnown
<1> HIDE DEF n
<1> QED
  BY <1>2, <1>4, <1>7, <1>8, <1>10, <1>11, <1>12, <1>14, <1>15, StillApart, StatementFrame
     DEF IInv, TypeOK, n

\* The foreign key check of the reviewer preserves the invariant.
LEMMA ReferenceReviewerInv ==
  ASSUME IInv, NEW p \in Procs, ReferenceReviewer(p) PROVE IInv'
<1> DEFINE t == tx[p]
           a == t.app
           l == KeyShare(UserKey(t.actor))
           n == [t EXCEPT !.pc = "writeAudit"]
<1>1. At(p, "referenceReviewer")
  BY DEF ReferenceReviewer
<1>2. /\ InTransaction(p) /\ t.pc = "referenceReviewer" /\ Blockers(p) = {}
      /\ t \in Transaction /\ t.op \in {"activate", "decline"} /\ a \in Apps
      /\ t.actor \in Users
      /\ WorkOK(t, work[p]) /\ SeenOK(p) /\ HeldOK(t, held[p]) /\ ScopeOK(p)
  BY <1>1, AtFacts DEF Waiting, Path, Ops
<1>3. Advance(p, "writeAudit") /\ Acquire(p, l) /\ UNCHANGED <<roles, tables, work, scope>>
  BY DEF ReferenceReviewer
<1>4. Holders(held, p, l) = {}
  BY <1>2 DEF Blockers
<1>5. l \in Locks
  BY <1>2, LocksType
<1>6. /\ held' \in [Procs -> SUBSET Locks] /\ held'[p] = held[p] \cup {l}
      /\ \A q \in Procs \ {p} : held'[q] = held[q]
  BY <1>3, <1>5, AcquireType DEF IInv
<1>7. "writeAudit" \in Running /\ "writeAudit" \in Path(t.op)
  BY <1>2 DEF Running, Path
<1>8. n.pc = "writeAudit" /\ n.op = t.op /\ n.app = a /\ n.actor = t.actor
      /\ Open(n) /\ Open(t)
  BY <1>2 DEF Transaction, Open, Running, Waiting
<1>9. HeldOK(n, held'[p])
  BY <1>2, <1>6, <1>8 DEF HeldOK, Deciding, Linking, LinkKnown, ScopeKnown
<1>10. WorkOK(n, work[p])
  <2>1. CASE t.op = "decline"
    BY <2>1, <1>2, <1>8 DEF WorkOK, RowWritten, AgentWritten
  <2>2. CASE t.op = "activate"
    <3>1. PICK g \in Agents :
            /\ work[p].agents =
                 {[id |-> g, user |-> ApplicantOf[a], phone |-> PhoneOf[a]]}
            /\ work[p].campuses = {<<g, CampusOf[a]>>}
            /\ work[p].application = [status |-> "active", agent |-> g, reviewer |-> t.actor]
      BY <2>2, <1>2 DEF WorkOK, RowWritten, AgentWritten
    <3>2. work[p].events = <<>>
      BY <1>2 DEF WorkOK
    <3> HIDE DEF n
    <3> QED
      BY <2>2, <3>1, <3>2, <1>8 DEF WorkOK, RowWritten, AgentWritten
  <2> QED
    BY <1>2, <2>1, <2>2
<1>11. tx'[p] = n
  BY <1>3, <1>7, AdvanceType DEF IInv, Pcs
<1>12. SeenOK(p)'
  BY <1>2, <1>3, <1>8, <1>11 DEF SeenOK, tables, HasLinkedAgent, Deciding, Linking,
                                 ScopeKnown, LinkKnown
<1>13. CampusOf[a] \in scope[p]
  BY <1>2, <1>8 DEF ScopeOK, Deciding, ScopeKnown
<1> HIDE DEF l, n
<1> QED
  BY <1>2, <1>3, <1>4, <1>5, <1>6, <1>7, <1>9, <1>10, <1>12, <1>13, Granted, StatementFrame
     DEF IInv, TypeOK, n

\* The INSERT of the audit event preserves the invariant.
LEMMA WriteAuditInv ==
  ASSUME IInv, NEW p \in Procs, WriteAudit(p) PROVE IInv'
<1> DEFINE t == tx[p]
           a == t.app
           n == [t EXCEPT !.pc = "commit"]
           event == [action |-> IF t.op = "activate" THEN "activated" ELSE "declined",
                     actor |-> t.actor]
<1>1. At(p, "writeAudit")
  BY DEF WriteAudit
<1>2. /\ InTransaction(p) /\ t.pc = "writeAudit"
      /\ t \in Transaction /\ t.op \in {"activate", "decline"} /\ a \in Apps
      /\ t.actor \in Users
      /\ WorkOK(t, work[p]) /\ SeenOK(p) /\ HeldOK(t, held[p]) /\ ScopeOK(p)
      /\ work[p] \in Work
  BY <1>1, AtFacts DEF Running, Path, Ops
<1>3. /\ Advance(p, "commit") /\ work' = [work EXCEPT ![p].events = Append(@, event)]
      /\ UNCHANGED <<roles, tables, held, scope>>
  BY DEF WriteAudit
<1>4. event \in Event
  BY <1>2 DEF Event
<1>5. work[p].events = <<>>
  BY <1>2 DEF WorkOK
<1>6. Append(work[p].events, event) = <<event>> /\ <<event>> \in Seq(Event)
  BY <1>4, <1>5
<1>7. /\ work' \in [Procs -> Work] /\ work'[p] = [work[p] EXCEPT !.events = <<event>>]
      /\ \A q \in Procs \ {p} : work'[q] = work[q]
  BY <1>2, <1>3, <1>6 DEF IInv, TypeOK, Work
<1>8. /\ work'[p].application = work[p].application /\ work'[p].agents = work[p].agents
      /\ work'[p].campuses = work[p].campuses /\ work'[p].events = <<event>>
  BY <1>2, <1>7 DEF Work
<1>9. n.pc = "commit" /\ n.op = t.op /\ n.app = a /\ n.actor = t.actor /\ Open(n) /\ Open(t)
  BY <1>2 DEF Transaction, Open, Running, Waiting
<1>10. "commit" \in Running /\ "commit" \in Path(t.op)
  BY <1>2 DEF Running, Path
<1>11. HeldOK(n, held[p])
  BY <1>2, <1>9 DEF HeldOK, Deciding, Linking, LinkKnown, ScopeKnown
<1>12. WorkOK(n, work'[p])
  <2>1. CASE t.op = "decline"
    BY <2>1, <1>2, <1>8, <1>9 DEF WorkOK, RowWritten, AgentWritten
  <2>2. CASE t.op = "activate"
    <3>1. PICK g \in Agents :
            /\ work[p].agents =
                 {[id |-> g, user |-> ApplicantOf[a], phone |-> PhoneOf[a]]}
            /\ work[p].campuses = {<<g, CampusOf[a]>>}
            /\ work[p].application = [status |-> "active", agent |-> g, reviewer |-> t.actor]
      BY <2>2, <1>2 DEF WorkOK, RowWritten, AgentWritten
    <3>2. event = [action |-> "activated", actor |-> t.actor]
      BY <2>2
    <3> HIDE DEF event, n
    <3> QED
      BY <2>2, <3>1, <3>2, <1>8, <1>9 DEF WorkOK, RowWritten, AgentWritten
  <2> QED
    BY <1>2, <2>1, <2>2
<1>13. tx'[p] = n
  BY <1>3, <1>10, AdvanceType DEF IInv, Pcs
<1>14. SeenOK(p)'
  BY <1>2, <1>3, <1>8, <1>9, <1>13 DEF SeenOK, tables, HasLinkedAgent, Deciding, Linking,
                                       ScopeKnown, LinkKnown
<1>15. CampusOf[a] \in scope[p]
  BY <1>2, <1>9 DEF ScopeOK, Deciding, ScopeKnown
<1> HIDE DEF n, event
<1> QED
  BY <1>2, <1>3, <1>7, <1>8, <1>10, <1>11, <1>12, <1>14, <1>15, StillApart, StatementFrame
     DEF IInv, TypeOK, n

\* Timeouts, crashes and deadlock aborts preserve the invariant.
LEMMA InternalErrorInv ==
  ASSUME IInv, NEW p \in Procs, InTransaction(p), Rollback(p, "ErrInternal")
  PROVE  IInv'
<1>1. Truthful(p)'
  BY DEF Rollback, Finish, Advance, Truthful, IInv, TypeOK
<1> QED
  BY <1>1, RollbackInv DEF Answers

\* Sending the answer preserves the invariant.
LEMMA ReturnInv ==
  ASSUME IInv, NEW p \in Procs, Return(p) PROVE IInv'
<1>1. /\ tx[p].pc \in Answers /\ tx' = [tx EXCEPT ![p] = Idle]
      /\ scope' = [scope EXCEPT ![p] = {}] /\ UNCHANGED <<roles, tables, work, held>>
  BY DEF Return
<1>2. Idle \in Transaction
  BY DEF Idle, Transaction
<1>3. TypeOK'
  BY <1>1, <1>2 DEF IInv, TypeOK, tables
<1>4. tx'[p] = Idle /\ held'[p] = held[p] /\ work'[p] = work[p]
  BY <1>1 DEF IInv, TypeOK
<1>5. ~Open(tx[p]) /\ tx[p].pc \notin AgentWritten \cup RowWritten /\ tx[p].pc # "commit"
  BY <1>1 DEF Open, Answers, Waiting, Running, AgentWritten, RowWritten
<1>6. ~Open(Idle) /\ Idle.pc \notin AgentWritten \cup RowWritten /\ Idle.pc # "commit"
      /\ Idle.op = "none"
  BY DEF Open, Idle, Waiting, Running, AgentWritten, RowWritten
<1>7. HeldOK(tx[p], held[p]) /\ WorkOK(tx[p], work[p]) /\ SeenOK(p)
  BY DEF IInv, Own
<1>8. HeldOK(Idle, held[p])
  BY <1>5, <1>6, <1>7 DEF HeldOK, Deciding, Linking
<1>9. WorkOK(Idle, work[p])
  BY <1>5, <1>6, <1>7 DEF WorkOK
<1>10. SeenOK(p)'
  BY <1>1, <1>4, <1>6, <1>7 DEF SeenOK, tables, Deciding, Linking
<1>11. ScopeOK(p)' /\ RequestOK(Idle)
  BY <1>4, <1>6 DEF ScopeOK, Deciding, RequestOK
<1>12. Truthful(p)'
  BY <1>4 DEF Truthful, Idle
<1>13. Own(p)'
  BY <1>4, <1>8, <1>9, <1>10, <1>11, <1>12 DEF Own
<1>14. \A q \in Procs \ {p} : Same(q)
  BY <1>1 DEF Same, IInv, TypeOK
<1>15. \A q \in Procs \ {p} : ApartOK(p, q)'
  BY <1>4, <1>6, <1>14 DEF IInv, ApartOK, Same
<1> QED
  BY <1>1, <1>3, <1>13, <1>14, <1>15, Frame

\* A request begins: it has written nothing and holds no lock.
LEMMA BeginInv ==
  ASSUME IInv, NEW p \in Procs, NEW op \in Ops, NEW a \in Apps, NEW u \in Users,
         NEW pc \in {"lockApplicant", "loadApplication"},
         pc = IF op = "create" THEN "lockApplicant" ELSE "loadApplication",
         op = "create" => /\ application[a] = NoRow
                          /\ \A q \in Procs : tx[q].op = "create" => tx[q].app # a,
         Begin(p, op, pc, a, u)
  PROVE  IInv'
<1> DEFINE n == [pc |-> pc, op |-> op, app |-> a, actor |-> u]
<1>1. /\ tx[p] = Idle /\ tx' = [tx EXCEPT ![p] = n]
      /\ scope' = [scope EXCEPT ![p] = {c \in Campuses : CanReviewCampus(u, c)}]
      /\ UNCHANGED <<roles, tables, work, held>>
  BY DEF Begin
<1>2. n \in Transaction
  BY DEF Transaction, Waiting
<1>3. TypeOK'
  BY <1>1, <1>2 DEF IInv, TypeOK, tables
<1>4. tx'[p] = n /\ held'[p] = held[p] /\ work'[p] = work[p]
  BY <1>1 DEF IInv, TypeOK
<1>5. ~Open(Idle) /\ Idle.pc \notin AgentWritten \cup RowWritten /\ Idle.pc # "commit"
  BY DEF Open, Idle, Waiting, Running, AgentWritten, RowWritten
<1>6. HeldOK(Idle, held[p]) /\ WorkOK(Idle, work[p]) /\ SeenOK(p)
  BY <1>1 DEF IInv, Own
<1>7. RequestOK(n) /\ Open(n)
  BY DEF RequestOK, Open, Waiting, Path, Ops
<1>8. HeldOK(n, held[p])
  BY <1>5, <1>6, <1>7 DEF HeldOK, Deciding, Linking, LinkKnown, ScopeKnown
<1>9. WorkOK(n, work[p])
  BY <1>5, <1>6 DEF WorkOK, AgentWritten, RowWritten, Idle
<1>10. SeenOK(p)'
  BY <1>1, <1>4, <1>6 DEF SeenOK, tables, Deciding, Linking, LinkKnown, ScopeKnown
<1>11. scope'[p] = {c \in Campuses : CanReviewCampus(u, c)}
  BY <1>1 DEF IInv, TypeOK
<1>12. ScopeOK(p)'
  BY <1>1, <1>4, <1>11 DEF ScopeOK, Deciding, ScopeKnown, CanReviewCampus
<1>13. Truthful(p)'
  BY <1>4 DEF Truthful
<1>14. Own(p)'
  BY <1>4, <1>7, <1>8, <1>9, <1>10, <1>12, <1>13 DEF Own
<1>15. \A q \in Procs \ {p} : Same(q)
  BY <1>1 DEF Same, IInv, TypeOK
<1>16. \A q \in Procs \ {p} : ApartOK(p, q)'
  BY <1>4, <1>15 DEF IInv, ApartOK, Same
<1> HIDE DEF n
<1> QED
  BY <1>1, <1>3, <1>14, <1>15, <1>16, Frame

\* The start of a request preserves the invariant.
LEMMA StartInv ==
  ASSUME IInv, NEW p \in Procs, Start(p) PROVE IInv'
<1>1. PICK a \in Apps :
        \/ StartCreate(p, a)
        \/ \E u \in Users : StartActivate(p, a, u) \/ StartDecline(p, a, u)
  BY DEF Start
<1>2. CASE StartCreate(p, a)
  BY <1>2, BeginInv DEF StartCreate, Ops
<1>3. ASSUME NEW u \in Users, StartActivate(p, a, u) \/ StartDecline(p, a, u) PROVE IInv'
  BY <1>3, BeginInv DEF StartActivate, StartDecline, Ops
<1> QED
  BY <1>1, <1>2, <1>3

\* A role granted or revoked between two statements preserves the invariant.
LEMMA ChangeRoleInv ==
  ASSUME IInv, NEW r \in Roles, ChangeRole(r) PROVE IInv'
<1>1. /\ roles' \in SUBSET Roles /\ UNCHANGED <<tables, tx, work, held>>
      /\ roles' = roles \ {r} \/ (r \notin roles /\ roles' = roles \cup {r})
  BY DEF ChangeRole, IInv, TypeOK
<1>2. \A p \in Procs : scope'[p] = scope[p] \cup
        {c \in Campuses : /\ tx[p] # Idle /\ r[1] = tx[p].actor /\ r[2] \in {c, Global}
                          /\ r \notin roles}
  BY DEF ChangeRole
<1>3. scope' \in [Procs -> SUBSET Campuses]
  BY DEF ChangeRole, IInv, TypeOK
<1>4. TypeOK'
  BY <1>1, <1>3 DEF IInv, TypeOK, tables
<1>5. ASSUME NEW p \in Procs PROVE Own(p)'
  <2>1. Own(p)
    BY DEF IInv
  <2>2. RequestOK(tx[p])' /\ HeldOK(tx[p], held[p])' /\ WorkOK(tx[p], work[p])'
    BY <1>1, <2>1 DEF Own
  <2>3. SeenOK(p)' /\ Truthful(p)'
    BY <1>1, <2>1 DEF Own, SeenOK, Truthful, tables, PendingDuplicates, HasLinkedAgent
  <2>4. ASSUME NEW c \in Campuses, tx[p] # Idle, CanReviewCampus(tx[p].actor, c)',
               ~CanReviewCampus(tx[p].actor, c)
        PROVE  c \in scope'[p]
    <3>1. r \notin roles /\ (r = <<tx[p].actor, Global>> \/ r = <<tx[p].actor, c>>)
      BY <1>1, <2>4 DEF CanReviewCampus
    <3> QED
      BY <1>2, <2>4, <3>1
  <2>5. ScopeOK(p)'
    BY <1>1, <1>2, <2>1, <2>4 DEF Own, ScopeOK
  <2> QED
    BY <2>2, <2>3, <2>5 DEF Own
<1>6. \A p \in Procs, q \in Procs : p # q => ApartOK(p, q)'
  BY <1>1 DEF IInv, ApartOK
<1>7. RowsOK' /\ AuditMatches' /\ AgentsMatch'
  BY <1>1 DEF IInv, RowsOK, AuditMatches, AgentsMatch, tables
<1> QED
  BY <1>4, <1>5, <1>6, <1>7 DEF IInv

\* The invariant holds of the empty tables.
LEMMA InitInv == Init => IInv
<1> SUFFICES ASSUME Init PROVE IInv
  OBVIOUS
<1>1. NoRow \in ApplicationRow /\ Idle \in Transaction /\ <<>> \in Seq(Event)
  BY DEF NoRow, ApplicationRow, Statuses, Idle, Transaction
<1>2. TypeOK
  BY <1>1, NoWorkType DEF Init, TypeOK
<1>3. ASSUME NEW p \in Procs PROVE Own(p)
  <2>1. tx[p] = Idle /\ work[p] = NoWork /\ held[p] = {}
    BY DEF Init
  <2>2. ~Open(Idle) /\ Idle.pc \notin AgentWritten \cup RowWritten /\ Idle.pc # "commit"
        /\ Idle.op = "none" /\ Idle.pc = "idle"
    BY DEF Open, Idle, Waiting, Running, AgentWritten, RowWritten
  <2>3. RequestOK(tx[p]) /\ HeldOK(tx[p], held[p])
    BY <2>1, <2>2 DEF RequestOK, HeldOK, Deciding, Linking
  <2>4. WorkOK(tx[p], work[p]) /\ SeenOK(p)
    BY <2>1, <2>2 DEF WorkOK, SeenOK, NoWork, Deciding, Linking
  <2>5. ScopeOK(p) /\ Truthful(p)
    BY <2>1, <2>2 DEF ScopeOK, Truthful, Deciding
  <2> QED
    BY <2>3, <2>4, <2>5 DEF Own
<1>4. \A p \in Procs, q \in Procs : p # q => ApartOK(p, q)
  BY DEF Init, ApartOK, Idle, NoWork
<1>5. RowsOK /\ AuditMatches /\ AgentsMatch
  BY DEF Init, RowsOK, AuditMatches, AgentsMatch, NoRow
<1> QED
  BY <1>2, <1>3, <1>4, <1>5 DEF IInv

-----------------------------------------------------------------------------
\* COMMIT: the only step of a transaction that others can see.

\* What p commits: a new pending row, or a decision about a pending one.
LEMMA Committed ==
  ASSUME IInv, NEW p \in Procs, At(p, "commit")
  PROVE  /\ tx[p].op = "create" =>
              /\ application[tx[p].app] = NoRow
              /\ work[p].application.status = "pending"
              /\ work[p].agents = {} /\ work[p].campuses = {} /\ work[p].events = <<>>
         /\ tx[p].op = "decline" =>
              /\ application[tx[p].app].status = "pending"
              /\ work[p].application.status = "declined"
              /\ work[p].application.reviewer = tx[p].actor
              /\ work[p].agents = {} /\ work[p].campuses = {}
              /\ work[p].events = <<[action |-> "declined", actor |-> tx[p].actor]>>
         /\ tx[p].op = "activate" =>
              /\ application[tx[p].app].status = "pending"
              /\ work[p].application.status = "active"
              /\ work[p].application.reviewer = tx[p].actor
              /\ \A g \in work[p].agents : g.user = ApplicantOf[tx[p].app]
              /\ work[p].events = <<[action |-> "activated", actor |-> tx[p].actor]>>
<1>1. /\ tx[p].pc = "commit" /\ tx[p].op \in Ops /\ Open(tx[p])
      /\ WorkOK(tx[p], work[p]) /\ SeenOK(p)
  BY AtFacts DEF Running, Open
<1>2. CASE tx[p].op = "create"
  BY <1>1, <1>2 DEF WorkOK, SeenOK, NoRow
<1>3. CASE tx[p].op = "decline"
  BY <1>1, <1>3 DEF WorkOK, SeenOK, RowWritten, ScopeKnown, Deciding
<1>4. CASE tx[p].op = "activate"
  <2>1. application[tx[p].app].status = "pending"
    BY <1>1, <1>4 DEF SeenOK, ScopeKnown, Deciding
  <2>2. work[p].events = <<[action |-> "activated", actor |-> tx[p].actor]>>
    BY <1>1, <1>4 DEF WorkOK
  <2>3. PICK g \in Agents :
          /\ work[p].agents = {[id |-> g, user |-> ApplicantOf[tx[p].app],
                                phone |-> PhoneOf[tx[p].app]]}
          /\ work[p].application =
               [status |-> "active", agent |-> g, reviewer |-> tx[p].actor]
    BY <1>1, <1>4, WrittenAgent DEF RowWritten, AgentWritten
  <2> QED
    BY <1>4, <2>1, <2>2, <2>3
<1> QED
  BY <1>2, <1>3, <1>4

\* The locks keep the rows that another transaction relies on from changing.
LEMMA Protected ==
  ASSUME IInv, NEW p \in Procs, At(p, "commit"), NEW q \in Procs, q # p
  PROVE  /\ Open(tx[q]) /\ tx[q].op = "create" => tx[q].app # tx[p].app
         /\ Deciding(tx[q]) /\ tx[q].pc \in ScopeKnown => tx[q].app # tx[p].app
         /\ Linking(tx[p]) /\ Linking(tx[q]) /\ tx[q].pc \in LinkKnown =>
              ApplicantOf[tx[q].app] # ApplicantOf[tx[p].app]
<1>1. /\ tx[p].pc = "commit" /\ tx[p].op \in Ops /\ Open(tx[p])
      /\ HeldOK(tx[p], held[p]) /\ SeenOK(p)
  BY AtFacts DEF Running, Open
<1>2. HeldOK(tx[q], held[q]) /\ SeenOK(q) /\ ApartOK(p, q)
  BY DEF IInv, Own
<1>3. ASSUME NEW row, ForUpdate(row) \in held[p], ForUpdate(row) \in held[q] PROVE FALSE
  BY <1>2, <1>3 DEF ApartOK, Conflicting, ForUpdate
<1>4. ASSUME Open(tx[q]), tx[q].op = "create", tx[q].app = tx[p].app PROVE FALSE
  BY <1>1, <1>2, <1>4 DEF ApartOK, SeenOK, NoRow, Deciding, ScopeKnown, Ops
<1>5. ASSUME Deciding(tx[q]), tx[q].pc \in ScopeKnown, tx[q].app = tx[p].app PROVE FALSE
  <2>1. CASE tx[p].op = "create"
    BY <1>1, <1>2, <1>5, <2>1 DEF SeenOK, NoRow
  <2>2. CASE tx[p].op # "create"
    BY <1>1, <1>2, <1>3, <1>5, <2>2 DEF HeldOK, Deciding, ScopeKnown, Ops
  <2> QED
    BY <2>1, <2>2
<1>6. ASSUME Linking(tx[p]), Linking(tx[q]), tx[q].pc \in LinkKnown,
             ApplicantOf[tx[q].app] = ApplicantOf[tx[p].app]
      PROVE  FALSE
  BY <1>1, <1>2, <1>3, <1>6 DEF HeldOK, LinkKnown
<1> QED
  BY <1>4, <1>5, <1>6

\* COMMIT preserves the invariant: the rows that become visible contradict
\* nothing that another transaction has read.
LEMMA CommitInv ==
  ASSUME IInv, NEW p \in Procs, Commit(p) PROVE IInv'
<1> DEFINE t == tx[p]
           a == t.app
           w == work[p]
<1>1. At(p, "commit")
  BY DEF Commit
<1>2. /\ t.pc = "commit" /\ t.op \in Ops /\ Open(t) /\ t \in Transaction
      /\ a \in Apps /\ t.actor \in Users /\ w \in Work /\ t # Idle
      /\ SeenOK(p) /\ ScopeOK(p)
  BY <1>1, AtFacts DEF Running, Open, Idle
<1>3. PICK answer \in {Success(t.op), "ErrInternal"} : Finish(p, answer)
  BY DEF Commit
<1>4. answer \in Answers
  BY <1>2, <1>3 DEF Success, Answers, Ops
<1>5. /\ tx' \in [Procs -> Transaction] /\ tx'[p] = [t EXCEPT !.pc = answer]
      /\ \A q \in Procs \ {p} : tx'[q] = tx[q]
  BY <1>3, <1>4, AdvanceType DEF Finish, IInv, Pcs
<1>6. /\ application' = [application EXCEPT ![a] = w.application]
      /\ agents' = agents \cup w.agents /\ agentCampuses' = agentCampuses \cup w.campuses
      /\ audit' = [audit EXCEPT ![a] = @ \o w.events] /\ UNCHANGED <<roles, scope>>
  BY DEF Commit
<1>7. /\ application' \in [Apps -> ApplicationRow] /\ application'[a] = w.application
      /\ \A b \in Apps \ {a} : application'[b] = application[b]
  BY <1>2, <1>6 DEF IInv, TypeOK, Work
<1>8. /\ work' = [work EXCEPT ![p] = NoWork] /\ held' = [held EXCEPT ![p] = {}]
  BY <1>3 DEF Finish
<1>9. /\ work' \in [Procs -> Work] /\ held' \in [Procs -> SUBSET Locks]
      /\ work'[p] = NoWork /\ held'[p] = {}
      /\ \A q \in Procs \ {p} : work'[q] = work[q] /\ held'[q] = held[q]
  BY <1>8, NoWorkType DEF IInv, TypeOK
<1>10. /\ t.op = "create" =>
            /\ application[a] = NoRow
            /\ w.application.status = "pending"
            /\ w.agents = {} /\ w.campuses = {} /\ w.events = <<>>
       /\ t.op = "decline" =>
            /\ application[a].status = "pending"
            /\ w.application.status = "declined" /\ w.application.reviewer = t.actor
            /\ w.agents = {} /\ w.campuses = {}
            /\ w.events = <<[action |-> "declined", actor |-> t.actor]>>
       /\ t.op = "activate" =>
            /\ application[a].status = "pending"
            /\ w.application.status = "active" /\ w.application.reviewer = t.actor
            /\ \A g \in w.agents : g.user = ApplicantOf[a]
            /\ w.events = <<[action |-> "activated", actor |-> t.actor]>>
       /\ t.op \in {"create", "decline", "activate"}
  BY <1>1, <1>2, Committed DEF Ops
<1>11. TypeOK'
  <2>1. agents' \subseteq AgentRow /\ agentCampuses' \subseteq Agents \X Campuses
    BY <1>2, <1>6 DEF IInv, TypeOK, Work
  <2>2. audit[a] \o w.events \in Seq(Event)
    BY <1>2 DEF IInv, TypeOK, Work
  <2>3. audit' \in [Apps -> Seq(Event)]
    BY <1>6, <2>2 DEF IInv, TypeOK
  <2> QED
    BY <1>5, <1>6, <1>7, <1>9, <2>1, <2>3 DEF IInv, TypeOK
<1>12. Own(p)'
  <2>1. /\ tx'[p].actor = t.actor /\ tx'[p].op = t.op /\ tx'[p].app = a
        /\ tx'[p].pc = answer
    BY <1>2, <1>5 DEF Transaction
  <2>2. ~Open(tx'[p]) /\ answer \notin AgentWritten \cup RowWritten /\ answer # "commit"
    BY <1>4, <2>1 DEF Open, Answers, Waiting, Running, AgentWritten, RowWritten
  <2>3. RequestOK(tx[p])' /\ HeldOK(tx[p], held[p])'
    BY <1>2, <1>4, <1>9, <2>1, <2>2 DEF RequestOK, HeldOK, Deciding, Linking
  <2>4. WorkOK(tx[p], work[p])' /\ SeenOK(p)'
    BY <1>9, <2>1, <2>2 DEF WorkOK, SeenOK, NoWork, Deciding, Linking
  <2>5. ScopeOK(p)'
    BY <1>2, <1>6, <2>1, <2>2 DEF ScopeOK, CanReviewCampus, Deciding
  <2>6. Truthful(p)'
    <3>1. answer = "ErrInternal" \/ answer = Success(t.op)
      BY <1>3
    <3>2. application'[a] = w.application
      BY <1>7
    <3>3. CASE t.op = "create"
      BY <1>10, <2>1, <3>1, <3>2, <3>3 DEF Truthful, Success
    <3>4. CASE t.op = "activate"
      BY <1>10, <2>1, <3>1, <3>2, <3>4 DEF Truthful, Success
    <3>5. CASE t.op = "decline"
      BY <1>10, <2>1, <3>1, <3>2, <3>5 DEF Truthful, Success
    <3> QED
      BY <1>2, <3>3, <3>4, <3>5 DEF Ops
  <2> QED
    BY <2>3, <2>4, <2>5, <2>6 DEF Own
<1>13. ASSUME NEW q \in Procs, q # p PROVE Own(q)'
  <2> DEFINE s == tx[q]
             b == s.app
  <2>1. Own(q) /\ ApartOK(p, q) /\ ApartOK(q, p)
    BY <1>13 DEF IInv
  <2>2. s \in Transaction /\ (s = Idle \/ (s.op \in Ops /\ b \in Apps /\ s.actor \in Users))
    BY <2>1 DEF Own, RequestOK, IInv, TypeOK
  <2>3. tx'[q] = s /\ work'[q] = work[q] /\ held'[q] = held[q] /\ scope'[q] = scope[q]
    BY <1>5, <1>6, <1>9, <1>13
  <2>4. RequestOK(tx[q])' /\ HeldOK(tx[q], held[q])' /\ WorkOK(tx[q], work[q])'
    BY <2>1, <2>3 DEF Own
  <2>5. ScopeOK(q)'
    BY <1>6, <2>1, <2>3 DEF Own, ScopeOK, CanReviewCampus
  <2>6. s # Idle => s.op \in Ops /\ b \in Apps
    BY <2>2
  <2>7. ~Open(Idle)
    BY DEF Open, Idle, Waiting, Running
  <2>8. ASSUME Open(s), s.op = "create" PROVE application'[b] = NoRow
    BY <1>1, <1>7, <1>13, <2>1, <2>6, <2>7, <2>8, Protected DEF Own, SeenOK
  <2>9. ASSUME s.op = "create", s.pc = "commit" PROVE PendingDuplicates(b)' = {}
    <3>1. Open(s) /\ b \in Apps /\ PendingDuplicates(b) = {} /\ Linking(s) /\ s.pc \in LinkKnown
      BY <2>1, <2>6, <2>7, <2>9 DEF Open, Running, Own, SeenOK, Linking, LinkKnown
    <3>2. ASSUME NEW c \in Apps, SamePendingKey(b, c), application'[c].status = "pending"
          PROVE  FALSE
      <4>1. application[c].status # "pending"
        BY <3>1, <3>2 DEF PendingDuplicates
      <4>2. c = a /\ t.op = "create"
        BY <1>7, <1>10, <3>2, <4>1
      <4>3. Linking(t)
        BY <1>2, <4>2 DEF Linking
      <4> QED
        BY <1>1, <1>13, <3>1, <3>2, <4>2, <4>3, Protected DEF SamePendingKey
    <3> QED
      BY <2>3, <3>2 DEF PendingDuplicates
  <2>10. ASSUME Deciding(s), s.pc = "checkScope" PROVE application'[b].status # "none"
    <3>1. b \in Apps /\ application[b].status # "none"
      BY <2>1, <2>6, <2>7, <2>10 DEF Own, SeenOK, Deciding
    <3> QED
      BY <1>7, <1>10, <3>1
  <2>11. ASSUME Deciding(s), s.pc \in ScopeKnown PROVE application'[b].status = "pending"
    <3>1. b \in Apps /\ application[b].status = "pending"
      BY <2>1, <2>6, <2>7, <2>11 DEF Own, SeenOK, Deciding
    <3> QED
      BY <1>1, <1>7, <1>13, <2>11, <3>1, Protected
  <2>12. ASSUME Linking(s), s.pc \in LinkKnown PROVE ~HasLinkedAgent(ApplicantOf[b])'
    <3>1. ~HasLinkedAgent(ApplicantOf[b])
      BY <2>1, <2>12 DEF Own, SeenOK
    <3>2. CASE t.op = "activate"
      <4>1. Linking(t)
        BY <1>2, <3>2 DEF Linking
      <4>2. \A g \in w.agents : g.user = ApplicantOf[a]
        BY <1>10, <3>2
      <4>3. ApplicantOf[b] # ApplicantOf[a]
        BY <1>1, <1>13, <2>12, <4>1, Protected
      <4> QED
        BY <1>6, <2>3, <3>1, <4>2, <4>3 DEF HasLinkedAgent
    <3>3. CASE t.op # "activate"
      <4>1. w.agents = {}
        BY <1>10, <3>3
      <4> QED
        BY <1>6, <2>3, <3>1, <4>1 DEF HasLinkedAgent
    <3> QED
      BY <3>2, <3>3
  <2>13. \A g \in work'[q].agents, h \in agents' : g.id # h.id /\ g.phone # h.phone
    BY <1>6, <2>1, <2>3 DEF Own, SeenOK, ApartOK
  <2>14. SeenOK(q)'
    BY <2>3, <2>8, <2>9, <2>10, <2>11, <2>12, <2>13 DEF SeenOK
  <2>15. Truthful(q)'
    <3>1. CASE s = Idle
      BY <2>3, <3>1 DEF Truthful, Idle
    <3>2. CASE s # Idle
      <4>1. b \in Apps /\ Truthful(q)
        BY <2>1, <2>6, <3>2 DEF Own
      <4>2. application[b].status # "none" => application'[b].status # "none"
        BY <1>7, <1>10, <4>1
      <4>3. application[b].status \in {"active", "declined"} =>
              application'[b].status = application[b].status
        BY <1>7, <1>10, <4>1 DEF NoRow
      <4>4. agents \subseteq agents'
        BY <1>6
      <4> QED
        BY <2>3, <4>1, <4>2, <4>3, <4>4 DEF Truthful, HasLinkedAgent
    <3> QED
      BY <3>1, <3>2
  <2> QED
    BY <2>4, <2>5, <2>14, <2>15 DEF Own
<1>14. ASSUME NEW q \in Procs, NEW r \in Procs, q # r PROVE ApartOK(q, r)'
  <2>1. tx'[p].op = t.op /\ tx'[p].app = a
    BY <1>2, <1>5 DEF Transaction
  <2>2. ApartOK(q, r)
    BY <1>14 DEF IInv
  <2>3. work'[p].agents = {} /\ held'[p] = {}
    BY <1>9 DEF NoWork
  <2>4. CASE q = p
    BY <1>5, <1>14, <2>1, <2>2, <2>3, <2>4 DEF ApartOK
  <2>5. CASE r = p
    BY <1>5, <1>14, <2>1, <2>2, <2>3, <2>5 DEF ApartOK
  <2>6. CASE q # p /\ r # p
    BY <1>5, <1>9, <1>14, <2>2, <2>6 DEF ApartOK
  <2> QED
    BY <2>4, <2>5, <2>6
<1>15. RowsOK'
  BY <1>7, <1>10 DEF IInv, RowsOK
<1>16. AuditMatches'
  <2>1. ASSUME NEW b \in Apps, b # a PROVE audit'[b] = audit[b] /\ application'[b] = application[b]
    BY <1>2, <1>6, <1>7, <2>1 DEF IInv, TypeOK
  <2>2. audit'[a] = audit[a] \o w.events /\ application'[a] = w.application
    BY <1>2, <1>6, <1>7 DEF IInv, TypeOK
  <2>3. audit[a] = <<>>
    <3>1. application[a].status \in {"none", "pending"}
      BY <1>10 DEF NoRow
    <3> QED
      BY <1>2, <3>1 DEF IInv, AuditMatches
  <2>4. audit'[a] = w.events
    BY <1>2, <2>2, <2>3 DEF Work
  <2>5. AuditMatches
    BY DEF IInv
  <2> QED
    <3>1. ASSUME NEW b \in Apps, b # a
          PROVE  audit'[b] = CASE application'[b].status \in {"none", "pending"} -> <<>>
                   [] application'[b].status = "active" ->
                      <<[action |-> "activated", actor |-> application'[b].reviewer]>>
                   [] OTHER ->
                      <<[action |-> "declined", actor |-> application'[b].reviewer]>>
      BY <2>1, <2>5, <3>1 DEF AuditMatches
    <3>2. audit'[a] = CASE application'[a].status \in {"none", "pending"} -> <<>>
                   [] application'[a].status = "active" ->
                      <<[action |-> "activated", actor |-> application'[a].reviewer]>>
                   [] OTHER ->
                      <<[action |-> "declined", actor |-> application'[a].reviewer]>>
      BY <1>10, <2>2, <2>4
    <3> QED
      BY <3>1, <3>2 DEF AuditMatches
<1>17. AgentsMatch'
  <2>1. AgentsMatch
    BY DEF IInv
  <2>2. CASE t.op # "activate"
    <3>1. agents' = agents /\ agentCampuses' = agentCampuses
      BY <1>6, <1>10, <2>2
    <3>2. application[a].status # "active" /\ application'[a].status # "active"
      BY <1>7, <1>10, <2>2 DEF NoRow
    <3> QED
      BY <1>7, <2>1, <3>1, <3>2 DEF AgentsMatch
  <2>3. CASE t.op = "activate"
    <3>1. PICK g \in Agents :
            /\ w.application = [status |-> "active", agent |-> g, reviewer |-> t.actor]
            /\ w.agents = {[id |-> g, user |-> ApplicantOf[a], phone |-> PhoneOf[a]]}
            /\ w.campuses = {<<g, CampusOf[a]>>}
      <4>1. WorkOK(tx[p], work[p])
        BY <1>1, AtFacts DEF Running
      <4> QED
        BY <1>2, <2>3, <4>1, WrittenAgent DEF AgentWritten, RowWritten
    <3> DEFINE new == [id |-> g, user |-> ApplicantOf[a], phone |-> PhoneOf[a]]
    <3>2. agents' = agents \cup {new} /\ agentCampuses' = agentCampuses \cup {<<g, CampusOf[a]>>}
      BY <1>6, <3>1
    <3>3. application[a].status = "pending"
      BY <1>10, <2>3
    <3>4. \A h \in agents : new.id # h.id /\ new.phone # h.phone
      BY <1>2, <3>1 DEF SeenOK
    <3>5. \A h \in agents : new.user # h.user
      <4>1. Linking(t) /\ t.pc \in LinkKnown
        BY <1>2, <2>3 DEF Linking, LinkKnown
      <4> QED
        BY <1>2, <4>1 DEF SeenOK, HasLinkedAgent
    <3>6. \A b \in Apps : application'[b].status = "active" =>
            /\ [id |-> application'[b].agent, user |-> ApplicantOf[b],
                phone |-> PhoneOf[b]] \in agents'
            /\ <<application'[b].agent, CampusOf[b]>> \in agentCampuses'
      <4>1. /\ application'[a].agent = g /\ new \in agents'
            /\ <<g, CampusOf[a]>> \in agentCampuses'
        BY <1>7, <3>1, <3>2
      <4>2. ASSUME NEW b \in Apps \ {a}, application'[b].status = "active"
            PROVE  /\ [id |-> application'[b].agent, user |-> ApplicantOf[b],
                       phone |-> PhoneOf[b]] \in agents'
                   /\ <<application'[b].agent, CampusOf[b]>> \in agentCampuses'
        BY <1>7, <2>1, <3>2, <4>2 DEF AgentsMatch
      <4> QED
        BY <4>1, <4>2
    <3>7. \A h \in agents' : \E b \in Apps :
            application'[b].status = "active" /\ application'[b].agent = h.id
      <4>1. ASSUME NEW h \in agents
            PROVE  \E b \in Apps : application'[b].status = "active" /\ application'[b].agent = h.id
        <5>1. PICK b \in Apps : application[b].status = "active" /\ application[b].agent = h.id
          BY <2>1 DEF AgentsMatch
        <5> QED
          BY <1>7, <3>3, <5>1
      <4> QED
        BY <1>2, <1>7, <3>1, <3>2, <4>1
    <3>8. \A h \in agents', k \in agents' :
            h.id = k.id \/ h.user = k.user \/ h.phone = k.phone => h = k
      <4> HIDE DEF new
      <4> QED
        BY <2>1, <3>2, <3>4, <3>5 DEF AgentsMatch
    <3> QED
      BY <3>6, <3>7, <3>8 DEF AgentsMatch
  <2> QED
    BY <2>2, <2>3
<1> QED
  BY <1>11, <1>12, <1>13, <1>14, <1>15, <1>16, <1>17 DEF IInv

-----------------------------------------------------------------------------
\* The theorems.

\* Every step preserves the invariant.
LEMMA NextInv == IInv /\ [Next]_vars => IInv'
<1> SUFFICES ASSUME IInv, [Next]_vars PROVE IInv'
  OBVIOUS
<1>1. ASSUME NEW p \in Procs, Statement(p) PROVE IInv'
  BY <1>1, LoadApplicationInv, CheckScopeInv, LockApplicantInv, CheckLinkedInv,
     InsertApplicationInv, InsertAgentInv, AssociateCampusInv, UpdateApplicationInv,
     ReferenceReviewerInv, WriteAuditInv, CommitInv DEF Statement
<1>2. ASSUME NEW p \in Procs, Interrupt(p) \/ DeadlockAbort(p) PROVE IInv'
  BY <1>2, InternalErrorInv DEF Interrupt, DeadlockAbort
<1>3. ASSUME NEW p \in Procs, Start(p) \/ Return(p) PROVE IInv'
  BY <1>3, StartInv, ReturnInv
<1>4. ASSUME NEW r \in Roles, ChangeRole(r) PROVE IInv'
  BY <1>4, ChangeRoleInv
<1>5. CASE UNCHANGED vars
  <2>1. UNCHANGED <<roles, tables, tx, work, held, scope>>
    BY <1>5 DEF vars
  <2>2. ASSUME NEW p \in Procs PROVE Own(p)'
    BY <2>1, OwnSame DEF IInv, Same
  <2>3. TypeOK' /\ RowsOK' /\ AuditMatches' /\ AgentsMatch'
    BY <2>1 DEF IInv, TypeOK, RowsOK, AuditMatches, AgentsMatch, tables
  <2>4. \A p \in Procs, q \in Procs : p # q => ApartOK(p, q)'
    BY <2>1 DEF IInv, ApartOK
  <2> QED
    BY <2>2, <2>3, <2>4 DEF IInv
<1> QED
  BY <1>1, <1>2, <1>3, <1>4, <1>5 DEF Next

\* What every transaction has established by its locks and reads stays true
\* until it ends, in every interleaving with every other request.
THEOREM Inductive == Spec => []IInv
<1>1. Init => IInv
  BY InitInv
<1>2. IInv /\ [Next]_vars => IInv'
  BY NextInv
<1> QED
  BY <1>1, <1>2, PTL DEF Spec

\* Every row, transaction and lock keeps its type.
THEOREM TypeCorrect == Spec => []TypeOK
<1>1. IInv => TypeOK
  BY DEF IInv
<1> QED
  BY <1>1, Inductive, PTL

\* An application has an audit event exactly when it was decided, and it names
\* the decision and the reviewer that the row names, whatever is interrupted.
THEOREM AuditComplete == Spec => []AuditMatches
<1>1. IInv => AuditMatches
  BY DEF IInv
<1> QED
  BY <1>1, Inductive, PTL

\* Activation creates exactly one agent per active application, and never two
\* agents of one user or with one phone number.
THEOREM OneAgentPerUser == Spec => []AgentsMatch
<1>1. IInv => AgentsMatch
  BY DEF IInv
<1> QED
  BY <1>1, Inductive, PTL

\* The reasons that requests are refused with are true, the ErrPhoneConflict
\* that stands for every unique violation of CreateAgent included.
THEOREM AnswersTrue == Spec => []TruthfulAnswers
<1>1. IInv => TruthfulAnswers
  BY DEF IInv, Own, TruthfulAnswers
<1> QED
  BY <1>1, Inductive, PTL

\* No decision commits for a reviewer who had no authority over the campus at
\* any moment of the request.
THEOREM ReviewersInScope == Spec => ReviewedInScope
<1>1. IInv /\ [Next]_vars =>
        [\A p \in Procs : tx[p].op \in {"activate", "decline"} /\ Commit(p)
           => CampusOf[tx[p].app] \in scope[p]]_vars
  <2>1. ASSUME IInv, NEW p \in Procs, tx[p].op \in {"activate", "decline"}, Commit(p)
        PROVE  CampusOf[tx[p].app] \in scope[p]
    <3>1. At(p, "commit")
      BY <2>1 DEF Commit
    <3>2. Deciding(tx[p]) /\ tx[p].pc \in ScopeKnown /\ tx[p] # Idle
      BY <2>1, <3>1 DEF At, Deciding, Open, Running, ScopeKnown, Idle
    <3> QED
      BY <2>1, <3>2 DEF IInv, Own, ScopeOK
  <2> QED
    BY <2>1
<1> QED
  BY <1>1, Inductive, PTL DEF Spec, ReviewedInScope

\* Only a commit changes the stage of an application.
LEMMA StageUnchanged ==
  ASSUME NEW p \in Procs, ~Commit(p),
         Start(p) \/ Statement(p) \/ Interrupt(p) \/ DeadlockAbort(p) \/ Return(p)
  PROVE  application' = application
<1>1. Start(p) \/ Return(p) => application' = application
  BY DEF Start, StartCreate, StartActivate, StartDecline, Begin, Return, tables
<1>2. Interrupt(p) \/ DeadlockAbort(p) => application' = application
  BY DEF Interrupt, DeadlockAbort, Rollback, tables
<1>3. LoadApplication(p) \/ CheckScope(p) \/ LockApplicant(p) \/ CheckLinked(p) =>
        application' = application
  BY DEF LoadApplication, CheckScope, LockApplicant, CheckLinked, Rollback, tables
<1>4. InsertApplication(p) \/ InsertAgent(p) \/ AssociateCampus(p) => application' = application
  BY DEF InsertApplication, InsertAgent, AssociateCampus, Rollback, tables
<1>5. UpdateApplication(p) \/ ReferenceReviewer(p) \/ WriteAudit(p) => application' = application
  BY DEF UpdateApplication, ReferenceReviewer, WriteAudit, Rollback, tables
<1> QED
  BY <1>1, <1>2, <1>3, <1>4, <1>5 DEF Statement

\* A commit is a step of the abstract specification.
LEMMA CommitIsStage ==
  ASSUME IInv, NEW p \in Procs, Commit(p)
  PROVE  Stages!Next
<1> DEFINE t == tx[p]
           a == t.app
           stage == [b \in Apps |-> application[b].status]
<1>1. At(p, "commit")
  BY DEF Commit
<1>2. /\ t.pc = "commit" /\ t.op \in Ops /\ Open(t) /\ a \in Apps
      /\ SeenOK(p) /\ WorkOK(tx[p], work[p])
  BY <1>1, AtFacts DEF Running, Open
<1>3. application' = [application EXCEPT ![a] = work[p].application]
  BY DEF Commit
<1>4. stage' = [stage EXCEPT ![a] = work[p].application.status]
  BY <1>2, <1>3 DEF IInv, TypeOK
<1>5. \A b \in Apps : Stages!Approved(b) <=> application[b].status = "active"
  BY DEF Stages!Approved
<1>6. ASSUME t.op \in {"create", "activate"} PROVE ~Stages!IsAgent(ApplicantOf[a])
  <2>1. ~HasLinkedAgent(ApplicantOf[a])
    BY <1>2, <1>6 DEF SeenOK, Linking, LinkKnown
  <2>2. ASSUME NEW b \in Apps, application[b].status = "active", ApplicantOf[b] = ApplicantOf[a]
        PROVE  FALSE
    BY <2>1, <2>2 DEF HasLinkedAgent, IInv, AgentsMatch
  <2> QED
    BY <1>5, <2>2 DEF Stages!IsAgent
<1>7. CASE t.op = "create"
  <2>1. /\ application[a] = NoRow /\ work[p].application.status = "pending"
        /\ PendingDuplicates(a) = {}
    BY <1>1, <1>2, <1>7, Committed DEF SeenOK
  <2>2. stage[a] = "none"
    BY <1>2, <2>1 DEF NoRow
  <2>3. \A b \in Apps : ApplicantOf[b] = ApplicantOf[a] /\ CampusOf[b] = CampusOf[a]
          => stage[b] # "pending"
    BY <2>1 DEF PendingDuplicates, SamePendingKey
  <2>4. Stages!Submit(a)
    BY <1>4, <1>6, <1>7, <2>1, <2>2, <2>3 DEF Stages!Submit
  <2> QED
    BY <1>2, <2>4 DEF Stages!Next, Stages!Submit, Stages!Approve, Stages!Reject
<1>8. CASE t.op = "activate"
  <2>1. application[a].status = "pending" /\ work[p].application.status = "active"
    BY <1>1, <1>8, Committed
  <2>2. PICK g \in Agents : work[p].agents =
          {[id |-> g, user |-> ApplicantOf[a], phone |-> PhoneOf[a]]}
    BY <1>2, <1>8, WrittenAgent DEF AgentWritten
  <2>3. \A h \in agents : h.phone # PhoneOf[a]
    BY <1>2, <2>2 DEF SeenOK
  <2>4. ASSUME NEW b \in Apps, application[b].status = "active" PROVE PhoneOf[b] # PhoneOf[a]
    BY <2>3, <2>4 DEF IInv, AgentsMatch
  <2>5. stage[a] = "pending"
    BY <1>2, <2>1
  <2>6. Stages!Approve(a)
    BY <1>4, <1>5, <1>6, <1>8, <2>1, <2>4, <2>5 DEF Stages!Approve
  <2> QED
    BY <1>2, <2>6 DEF Stages!Next, Stages!Submit, Stages!Approve, Stages!Reject
<1>9. CASE t.op = "decline"
  <2>1. application[a].status = "pending" /\ work[p].application.status = "declined"
    BY <1>1, <1>9, Committed
  <2>2. Stages!Reject(a)
    BY <1>2, <1>4, <2>1 DEF Stages!Reject
  <2> QED
    BY <1>2, <2>2 DEF Stages!Next, Stages!Submit, Stages!Approve, Stages!Reject
<1> QED
  BY <1>2, <1>7, <1>8, <1>9 DEF Ops

\* The transactional code implements onboarding as the abstract specification
\* states it: submissions, approvals and rejections of one step each.
THEOREM Refinement == Spec => ImplementsStages
<1>1. Init => Stages!Init
  BY DEF Init, Stages!Init, NoRow
<1>2. IInv /\ [Next]_vars =>
        [Stages!Next]_[a \in Apps |-> application[a].status]
  <2> SUFFICES ASSUME IInv, [Next]_vars
               PROVE  Stages!Next \/ application' = application
    OBVIOUS
  <2>1. CASE \E p \in Procs : Commit(p)
    BY <2>1, CommitIsStage
  <2>2. CASE ~\E p \in Procs : Commit(p)
    <3>1. CASE \E r \in Roles : ChangeRole(r)
      BY <3>1 DEF ChangeRole, tables
    <3>2. CASE UNCHANGED vars
      BY <3>2 DEF vars, tables
    <3>3. ASSUME NEW p \in Procs, Start(p) \/ Statement(p) \/ Interrupt(p)
                                  \/ DeadlockAbort(p) \/ Return(p)
          PROVE  application' = application
      BY <2>2, <3>3, StageUnchanged
    <3> QED
      BY <3>1, <3>2, <3>3 DEF Next
  <2> QED
    BY <2>1, <2>2
<1> QED
  BY <1>1, <1>2, Inductive, PTL DEF Spec, ImplementsStages, Stages!Spec
=============================================================================
