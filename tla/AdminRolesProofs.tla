--------------------------- MODULE AdminRolesProofs ---------------------------
(***************************************************************************)
(* Proofs about AdminRoles, for every set of users, campuses, sessions and *)
(* concurrent runs of the CLI.                                             *)
(***************************************************************************)
EXTENDS AdminRoles, TLAPS

USE UserAssumption, ScopeAssumption, BoundAssumption, NoneAssumption, SubjectAssumption

Pcs == {"idle"} \cup Steps \cup Answers

LEMMA IdleType == Idle \in Transaction /\ Idle.pc = "idle"
BY DEF Idle, Transaction

LEMMA NoWorkType ==
  /\ NoWork \in Work /\ NoWork.changed = FALSE /\ NoWork.audited = FALSE
  /\ NoWork.targets = {} /\ NoWork.locked = {} /\ NoWork.ended = {}
BY DEF NoWork, Work

\* Going on to another statement changes only the program counter of p.
LEMMA AdvanceType ==
  ASSUME TypeOK, NEW p \in Procs, NEW pc \in Pcs, Advance(p, pc)
  PROVE  /\ tx' \in [Procs -> Transaction]
         /\ tx'[p] = [tx[p] EXCEPT !.pc = pc]
         /\ tx'[p].pc = pc /\ tx'[p].op = tx[p].op /\ tx'[p].role = tx[p].role
         /\ tx'[p].actor = tx[p].actor
         /\ \A q \in Procs \ {p} : tx'[q] = tx[q]
<1>1. tx \in [Procs -> Transaction]
  BY DEF TypeOK
<1>2. tx[p] \in Transaction /\ [tx[p] EXCEPT !.pc = pc] \in Transaction
  BY <1>1 DEF Transaction, Pcs
<1>3. tx'[p] = [tx[p] EXCEPT !.pc = pc]
  BY <1>1 DEF Advance
<1> QED
  BY <1>1, <1>2, <1>3 DEF Advance, Transaction

-----------------------------------------------------------------------------
\* A step that leaves the tables alone has to be checked for p only.

Same(q) == /\ tx'[q] = tx[q] /\ work'[q] = work[q]
           /\ tableLock'[q] = tableLock[q] /\ admitted'[q] = admitted[q]

\* What a run relies on survives a step of another one that leaves the tables
\* alone.
LEMMA RunSame ==
  ASSUME NEW q \in Procs, RunOK(q), Same(q), UNCHANGED tables
  PROVE  RunOK(q)'
<1>1. Admins' = Admins
  BY DEF Admins, tables
<1> QED
  BY <1>1 DEF RunOK, AuthorityOK, WorkOK, Same, InTransaction, Checked, OnAdmins, tables

\* A step of p that leaves the tables alone preserves the invariant once it
\* preserves what is said of p.
LEMMA Frame ==
  ASSUME RolesInv, NEW p \in Procs, UNCHANGED tables, TypeOK',
         \A q \in Procs \ {p} : Same(q),
         RunOK(p)', \A q \in Procs \ {p} : ApartOK(p, q)' /\ ApartOK(q, p)'
  PROVE  RolesInv'
<1>1. \A q \in Procs : RunOK(q)'
  BY RunSame DEF RolesInv
<1>2. ASSUME NEW q \in Procs, NEW r \in Procs, q # r PROVE ApartOK(q, r)'
  <2>1. CASE q = p \/ r = p
    BY <1>2, <2>1
  <2>2. CASE q # p /\ r # p
    <3>1. ApartOK(q, r) /\ Same(q) /\ Same(r)
      BY <1>2, <2>2 DEF RolesInv
    <3> QED
      BY <3>1 DEF ApartOK, Same
  <2> QED
    BY <2>1, <2>2
<1>3. RolesAudited' /\ SessionsEndOnce'
  BY DEF RolesInv, RolesAudited, HeldAfter, SessionsEndOnce, tables
<1> QED
  BY <1>1, <1>2, <1>3 DEF RolesInv

\* p goes on to another statement of its run, and keeps its locks or takes the
\* one that nobody has a conflicting one of.
LEMMA StatementFrame ==
  ASSUME RolesInv, NEW p \in Procs, InTransaction(p), NEW pc \in Steps, Advance(p, pc),
         UNCHANGED <<tables, admitted>>,
         work' \in [Procs -> Work], tableLock' \in [Procs -> TableModes],
         \A q \in Procs \ {p} : work'[q] = work[q] /\ tableLock'[q] = tableLock[q],
         AuthorityOK(p)', WorkOK(p)',
         tableLock'[p] = "SHARE ROW EXCLUSIVE" /\ tableLock'[p] # tableLock[p] =>
           \A q \in Procs \ {p} : tableLock[q] = "none",
         tableLock'[p] # "none" /\ tableLock'[p] # tableLock[p] =>
           \A q \in Procs \ {p} : tableLock[q] # "SHARE ROW EXCLUSIVE",
         work'[p].changed /\ ~work[p].changed =>
           \A q \in Procs \ {p} : ~(work[q].changed /\ tx[q].role = tx[p].role),
         work'[p].locked # work[p].locked =>
           \A q \in Procs \ {p} : work'[p].locked \cap work[q].locked = {}
  PROVE  RolesInv'
<1>1. /\ tx' \in [Procs -> Transaction] /\ tx'[p].pc = pc /\ tx'[p].role = tx[p].role
      /\ \A q \in Procs \ {p} : tx'[q] = tx[q]
  BY AdvanceType DEF RolesInv, Pcs
<1>2. TypeOK'
  BY <1>1 DEF RolesInv, TypeOK, tables
<1>3. \A q \in Procs \ {p} : Same(q)
  BY <1>1 DEF Same, RolesInv, TypeOK
<1>4. RunOK(p)'
  BY <1>1 DEF RunOK, InTransaction
<1>5. ASSUME NEW q \in Procs \ {p} PROVE ApartOK(p, q)' /\ ApartOK(q, p)'
  <2>1. ApartOK(p, q) /\ ApartOK(q, p)
    BY DEF RolesInv
  <2>2. tableLock'[q] = tableLock[q] /\ work'[q] = work[q] /\ tx'[q] = tx[q]
    BY <1>1
  <2>3. /\ tableLock'[p] = "SHARE ROW EXCLUSIVE" => tableLock[q] = "none"
        /\ tableLock[q] = "SHARE ROW EXCLUSIVE" => tableLock'[p] = "none"
    BY <2>1 DEF ApartOK
  <2>4. ~(work'[p].changed /\ work[q].changed /\ tx[p].role = tx[q].role)
    BY <2>1 DEF ApartOK
  <2>5. work'[p].locked \cap work[q].locked = {}
    BY <2>1 DEF ApartOK
  <2> QED
    BY <1>1, <2>2, <2>3, <2>4, <2>5 DEF ApartOK
<1> QED
  BY <1>2, <1>3, <1>4, <1>5, Frame

\* p goes on, and that is all.
LEMMA ContinueInv ==
  ASSUME RolesInv, NEW p \in Procs, InTransaction(p), NEW pc \in Steps, Continue(p, pc),
         AuthorityOK(p)', WorkOK(p)'
  PROVE  RolesInv'
BY StatementFrame DEF Continue, RolesInv, TypeOK

\* The end of a run leaves it with nothing.
LEMMA FinishType ==
  ASSUME RolesInv, NEW p \in Procs, NEW answer \in Answers, Finish(p, answer)
  PROVE  /\ tx' \in [Procs -> Transaction] /\ work' \in [Procs -> Work]
         /\ tableLock' \in [Procs -> TableModes]
         /\ tx'[p].pc = answer /\ work'[p] = NoWork /\ tableLock'[p] = "none"
         /\ ~InTransaction(p)' /\ RunOK(p)'
         /\ \A q \in Procs \ {p} :
              /\ tx'[q] = tx[q] /\ work'[q] = work[q] /\ tableLock'[q] = tableLock[q]
         /\ \A q \in Procs \ {p} : ApartOK(p, q)' /\ ApartOK(q, p)'
<1>1. /\ tx' \in [Procs -> Transaction] /\ tx'[p].pc = answer
      /\ \A q \in Procs \ {p} : tx'[q] = tx[q]
  BY AdvanceType DEF Finish, RolesInv, Pcs
<1>2. /\ work' \in [Procs -> Work] /\ work'[p] = NoWork
      /\ \A q \in Procs \ {p} : work'[q] = work[q]
  BY NoWorkType DEF Finish, RolesInv, TypeOK
<1>3. /\ tableLock' \in [Procs -> TableModes] /\ tableLock'[p] = "none"
      /\ \A q \in Procs \ {p} : tableLock'[q] = tableLock[q]
  BY DEF Finish, RolesInv, TypeOK, TableModes
<1>4. ~InTransaction(p)'
  BY <1>1 DEF InTransaction, Steps, Answers
<1> QED
  BY <1>1, <1>2, <1>3, <1>4, NoWorkType DEF RunOK, ApartOK

\* A run that ends without a commit preserves the invariant.
LEMMA RollbackInv ==
  ASSUME RolesInv, NEW p \in Procs, NEW answer \in Answers, Rollback(p, answer)
  PROVE  RolesInv'
<1>1. Finish(p, answer) /\ UNCHANGED tables
  BY DEF Rollback
<1>2. admitted' \in [Procs -> BOOLEAN] /\ \A q \in Procs \ {p} : admitted'[q] = admitted[q]
  BY DEF Rollback, RolesInv, TypeOK
<1>3. TypeOK'
  BY <1>1, <1>2, FinishType DEF RolesInv, TypeOK, tables
<1> QED
  BY <1>1, <1>2, <1>3, FinishType, Frame DEF Same

-----------------------------------------------------------------------------
\* The log of a role, the places of its bootstraps, and whether the role is held.

Held(log, boots, n) == n \in boots \/ (n \in 1..Len(log) /\ log[n] = "role_granted")
Story(log, boots, held, onAdmins) ==
  /\ \A n \in 1..Len(log) :
       log[n] = IF Held(log, boots, n - 1) THEN "role_revoked" ELSE "role_granted"
  /\ held <=> Held(log, boots, Len(log))
  /\ \A n \in boots :
       onAdmins /\ n <= Len(log) /\ (n > 0 => log[n] = "role_revoked")

LEMMA Stories ==
  /\ RolesAudited <=>
       \A r \in Roles : Story(audit[r], bootstraps[r], r \in roles, r[2] = Global)
  /\ RolesAudited' <=>
       \A r \in Roles : Story(audit'[r], bootstraps'[r], r \in roles', r[2] = Global)
BY DEF RolesAudited, HeldAfter, Story, Held

\* An event of a change that changes something carries the story on.
LEMMA StoryGrows ==
  ASSUME NEW log \in Seq(Actions), NEW boots \in SUBSET Nat, NEW held \in BOOLEAN,
         NEW onAdmins \in BOOLEAN, Story(log, boots, held, onAdmins),
         NEW event, event = IF held THEN "role_revoked" ELSE "role_granted"
  PROVE  Story(Append(log, event), boots, ~held, onAdmins)
<1> DEFINE n    == Len(log)
           next == Append(log, event)
<1>1. n \in Nat /\ event \in Actions
  BY DEF Actions
<1>2. /\ Len(next) = n + 1 /\ next[n + 1] = event
      /\ \A i \in 1..n : next[i] = log[i]
  BY <1>1
<1>3. n + 1 \notin boots
  BY <1>1 DEF Story
<1> HIDE DEF n, next
<1>4. \A i \in 0..n : Held(next, boots, i) <=> Held(log, boots, i)
  BY <1>1, <1>2 DEF Held, n
<1>5. Held(log, boots, n) <=> held
  BY DEF Story, n
<1>6. ASSUME NEW i \in 1..(n + 1)
      PROVE  next[i] = IF Held(next, boots, i - 1) THEN "role_revoked" ELSE "role_granted"
  <2>1. CASE i = n + 1
    BY <1>1, <1>2, <1>4, <1>5, <2>1
  <2>2. CASE i # n + 1
    <3>1. i \in 1..n /\ i - 1 \in 0..n
      BY <1>1, <2>2
    <3>2. log[i] = IF Held(log, boots, i - 1) THEN "role_revoked" ELSE "role_granted"
      BY <3>1 DEF Story, n
    <3> QED
      BY <1>2, <1>4, <3>1, <3>2
  <2> QED
    BY <2>1, <2>2
<1>7. Held(next, boots, n + 1) <=> ~held
  BY <1>1, <1>2, <1>3 DEF Held
<1>8. ASSUME NEW i \in boots
      PROVE  onAdmins /\ i <= n + 1 /\ (i > 0 => next[i] = "role_revoked")
  <2>1. onAdmins /\ i <= n /\ (i > 0 => log[i] = "role_revoked")
    BY DEF Story, n
  <2>2. i > 0 => i \in 1..n
    BY <1>1, <2>1
  <2> QED
    BY <1>1, <1>2, <2>1, <2>2
<1> QED
  BY <1>2, <1>6, <1>7, <1>8 DEF Story, next

\* So does a bootstrap, which leaves its place and no event.
LEMMA StoryBootstrap ==
  ASSUME NEW log \in Seq(Actions), NEW boots \in SUBSET Nat, Story(log, boots, FALSE, TRUE)
  PROVE  Story(log, boots \cup {Len(log)}, TRUE, TRUE)
<1> DEFINE n == Len(log)
<1>1. n \in Nat /\ ~Held(log, boots, n)
  BY DEF Story
<1>2. \A i \in 0..(n - 1) : Held(log, boots \cup {n}, i) <=> Held(log, boots, i)
  BY <1>1 DEF Held
<1>3. ASSUME NEW i \in 1..n
      PROVE  log[i] = IF Held(log, boots \cup {n}, i - 1) THEN "role_revoked"
                                                          ELSE "role_granted"
  <2>1. i - 1 \in 0..(n - 1)
    BY <1>1
  <2>2. log[i] = IF Held(log, boots, i - 1) THEN "role_revoked" ELSE "role_granted"
    BY DEF Story
  <2> QED
    BY <1>2, <2>1, <2>2
<1>4. n > 0 => log[n] = "role_revoked"
  <2> SUFFICES ASSUME n > 0 PROVE log[n] = "role_revoked"
    OBVIOUS
  <2>1. n \in 1..n
    BY <1>1
  <2>2. log[n] # "role_granted"
    BY <1>1, <2>1 DEF Held
  <2> QED
    BY <2>1, <2>2 DEF Story
<1>5. \A i \in boots : i <= n /\ (i > 0 => log[i] = "role_revoked")
  BY DEF Story
<1>6. Held(log, boots \cup {n}, n)
  BY DEF Held
<1>7. \A i \in boots \cup {n} : i <= n /\ (i > 0 => log[i] = "role_revoked")
  BY <1>1, <1>4, <1>5
<1> QED
  BY <1>3, <1>6, <1>7 DEF Story

-----------------------------------------------------------------------------
LEMMA InitInv == Init => RolesInv
<1> SUFFICES ASSUME Init PROVE RolesInv
  OBVIOUS
<1>1. audit \in [Roles \cup Sessions -> Seq(Actions)]
  BY DEF Init
<1>2. TypeOK
  BY <1>1, IdleType, NoWorkType DEF Init, TypeOK, SessionStatus, TableModes
<1>3. \A p \in Procs : RunOK(p)
  BY IdleType DEF Init, RunOK, InTransaction, Steps
<1>4. \A p, q \in Procs : p # q => ApartOK(p, q)
  BY NoWorkType DEF Init, ApartOK
<1>5. RolesAudited
  <2>1. \A r \in Roles : audit[r] = <<>> /\ bootstraps[r] = {} /\ r \notin roles
    BY DEF Init
  <2>2. ASSUME NEW r \in Roles
        PROVE  Story(audit[r], bootstraps[r], r \in roles, r[2] = Global)
    BY <2>1 DEF Story, Held
  <2> QED
    BY <2>2, Stories
<1>6. SessionsEndOnce
  BY DEF Init, SessionsEndOnce
<1> QED
  BY <1>2, <1>3, <1>4, <1>5, <1>6 DEF RolesInv

\* A run starts without a lock, and with an actor that is admitted if it is a
\* global admin now.
LEMMA StartChangeInv ==
  ASSUME RolesInv, NEW p \in Procs, NEW op \in Ops, NEW r \in Roles,
         NEW u \in Registered \cup {None}, StartChange(p, op, r, u)
  PROVE  RolesInv'
<1> DEFINE t == [pc |-> IF op = "grant" THEN "findTarget" ELSE "checkActor",
                 op |-> op, role |-> r, actor |-> u]
<1>1. t \in Transaction
  <2>1. "findTarget" \in Steps /\ "checkActor" \in Steps
    BY DEF Steps
  <2> QED
    BY <2>1 DEF Transaction
<1>2. /\ tx' = [tx EXCEPT ![p] = t] /\ tx'[p] = t
      /\ admitted' \in [Procs -> BOOLEAN] /\ (admitted'[p] <=> u \in Admins)
      /\ UNCHANGED <<tables, work, tableLock>>
      /\ \A q \in Procs \ {p} : Same(q)
  <2>1. tx' = [tx EXCEPT ![p] = t] /\ UNCHANGED <<tables, work, tableLock>>
    BY DEF StartChange
  <2> HIDE DEF t
  <2>2. tx'[p] = t /\ \A q \in Procs \ {p} : tx'[q] = tx[q]
    BY <2>1 DEF RolesInv, TypeOK
  <2>3. (u \in Admins) \in BOOLEAN
    OBVIOUS
  <2>4. admitted' = [admitted EXCEPT ![p] = u \in Admins]
    BY DEF StartChange
  <2>5. /\ admitted' \in [Procs -> BOOLEAN] /\ (admitted'[p] <=> u \in Admins)
        /\ \A q \in Procs \ {p} : admitted'[q] = admitted[q]
    BY <2>3, <2>4 DEF RolesInv, TypeOK
  <2> QED
    BY <2>1, <2>2, <2>5 DEF Same
<1>3. TypeOK'
  BY <1>1, <1>2 DEF RolesInv, TypeOK, tables
<1>4. work[p] = NoWork /\ tableLock[p] = "none"
  BY IdleType DEF StartChange, RolesInv, RunOK, InTransaction, Steps
<1>5. Admins' = Admins
  BY <1>2 DEF Admins, tables
<1>6. t.pc \in {"findTarget", "checkActor"} /\ t.op = op /\ t.role = r /\ t.actor = u
      /\ (t.pc = "findTarget" => op = "grant") /\ (op = "revoke" => u # None)
  BY DEF Ops, StartChange
<1> HIDE DEF t
<1>7. AuthorityOK(p)'
  <2>1. ~Checked(p)'
    BY <1>2, <1>6 DEF Checked
  <2> QED
    <3>1. /\ tx'[p].op = op /\ tx'[p].role = r /\ tx'[p].actor = u
          /\ tx'[p].pc \in {"findTarget", "checkActor"}
      BY <1>2, <1>6
    <3>2. tx'[p].actor \in Admins' => admitted'[p]
      BY <1>2, <1>5, <3>1
    <3>3. tableLock'[p] # "SHARE ROW EXCLUSIVE"
      BY <1>2, <1>4
    <3> QED
      BY <1>6, <2>1, <3>1, <3>2, <3>3 DEF AuthorityOK
<1>8. WorkOK(p)'
  BY <1>2, <1>4, <1>6, NoWorkType DEF WorkOK
<1>9. RunOK(p)'
  BY <1>2, <1>6, <1>7, <1>8 DEF RunOK, InTransaction, Steps
<1>10. \A q \in Procs \ {p} : ApartOK(p, q)' /\ ApartOK(q, p)'
  BY <1>2, <1>4, NoWorkType DEF ApartOK, Same
<1> QED
  BY <1>2, <1>3, <1>9, <1>10, Frame

\* What is known of a run at one of its statements.
LEMMA Running ==
  ASSUME RolesInv, NEW p \in Procs, tx[p].pc \in Steps
  PROVE  /\ InTransaction(p) /\ AuthorityOK(p) /\ WorkOK(p)
         /\ tx[p] \in Transaction /\ work[p] \in Work /\ tableLock[p] \in TableModes
BY DEF InTransaction, RolesInv, RunOK, TypeOK

\* The statements that only read: the target, the actor, the number of admins.
LEMMA FindTargetInv ==
  ASSUME RolesInv, NEW p \in Procs, FindTarget(p)
  PROVE  RolesInv'
<1>1. /\ tx[p].pc = "findTarget" /\ InTransaction(p) /\ AuthorityOK(p) /\ WorkOK(p)
      /\ tx[p] \in Transaction
  BY Running DEF FindTarget, Steps
<1>2. CASE Target(p) \notin Registered
  BY <1>2, RollbackInv DEF FindTarget, Answers
<1>3. CASE Target(p) \in Registered
  <2>1. PICK pc \in {"checkActor", "writeRole"} :
          Continue(p, pc) /\ (pc = "writeRole" => tx[p].op = "revoke")
    BY <1>1, <1>3 DEF FindTarget, AuthorityOK, Ops
  <2>2. /\ tx'[p].pc = pc /\ tx'[p].op = tx[p].op /\ tx'[p].role = tx[p].role
        /\ tx'[p].actor = tx[p].actor
        /\ UNCHANGED <<roles, session, work, tableLock, admitted>>
    BY <2>1, AdvanceType DEF Continue, RolesInv, Pcs, Steps, tables
  <2>3. Admins' = Admins
    BY <2>2 DEF Admins
  <2>4. AuthorityOK(p)'
    BY <1>1, <2>1, <2>2, <2>3 DEF AuthorityOK, Checked, OnAdmins, Steps
  <2>5. WorkOK(p)'
    BY <1>1, <2>1, <2>2, NoWorkType DEF WorkOK, OnAdmins
  <2> QED
    BY <1>1, <2>1, <2>4, <2>5, ContinueInv DEF Steps
<1> QED
  BY <1>2, <1>3

LEMMA CheckActorInv ==
  ASSUME RolesInv, NEW p \in Procs, CheckActor(p)
  PROVE  RolesInv'
<1>1. /\ tx[p].pc = "checkActor" /\ InTransaction(p) /\ AuthorityOK(p) /\ WorkOK(p)
      /\ tx[p] \in Transaction
  BY Running DEF CheckActor, Steps
<1>2. CASE \E answer \in {"ErrRoleActorRequired", "ErrRoleForbidden"} : Rollback(p, answer)
  BY <1>2, RollbackInv DEF Answers
<1>3. ASSUME NEW pc \in {"lockTable", "writeRole", "findTarget"}, Continue(p, pc),
             pc = "lockTable" => tx[p].actor = None /\ OnAdmins(p),
             pc # "lockTable" => tx[p].actor # None /\ tx[p].actor \in Admins
      PROVE  RolesInv'
  <2>1. /\ tx'[p].pc = pc /\ tx'[p].op = tx[p].op /\ tx'[p].role = tx[p].role
        /\ tx'[p].actor = tx[p].actor
        /\ UNCHANGED <<roles, session, work, tableLock, admitted>>
    BY <1>3, AdvanceType DEF Continue, RolesInv, Pcs, Steps, tables
  <2>2. Admins' = Admins
    BY <2>1 DEF Admins
  <2>3. AuthorityOK(p)'
    BY <1>1, <1>3, <2>1, <2>2 DEF AuthorityOK, OnAdmins
  <2>4. WorkOK(p)'
    BY <1>1, <1>3, <2>1, NoWorkType DEF WorkOK, OnAdmins
  <2> QED
    BY <1>1, <1>3, <2>3, <2>4, ContinueInv DEF Steps
<1>4. CASE tx[p].actor = None
  BY <1>2, <1>3, <1>4 DEF CheckActor
<1>5. CASE tx[p].actor # None
  <2>1. \/ Rollback(p, "ErrRoleForbidden")
        \/ tx[p].actor \in Admins /\ \E pc \in {"writeRole", "findTarget"} : Continue(p, pc)
    BY <1>5 DEF CheckActor
  <2> QED
    BY <1>2, <1>3, <1>5, <2>1
<1> QED
  BY <1>4, <1>5

LEMMA CountAdminsInv ==
  ASSUME RolesInv, NEW p \in Procs, CountAdmins(p)
  PROVE  RolesInv'
<1>1. /\ tx[p].pc = "countAdmins" /\ InTransaction(p) /\ AuthorityOK(p) /\ WorkOK(p)
      /\ tx[p] \in Transaction
  BY Running DEF CountAdmins, Steps
<1>2. CASE Admins # {}
  BY <1>2, RollbackInv DEF CountAdmins, Answers
<1>3. CASE Admins = {}
  <2>1. Continue(p, "writeRole")
    BY <1>3 DEF CountAdmins
  <2>2. /\ tx'[p].pc = "writeRole" /\ tx'[p].op = tx[p].op /\ tx'[p].role = tx[p].role
        /\ tx'[p].actor = tx[p].actor
        /\ UNCHANGED <<roles, session, work, tableLock, admitted>>
    BY <2>1, AdvanceType DEF Continue, RolesInv, Pcs, Steps, tables
  <2>3. Admins' = Admins
    BY <2>2 DEF Admins
  <2>4. AuthorityOK(p)'
    BY <1>1, <1>3, <2>2, <2>3 DEF AuthorityOK, Checked, OnAdmins, Steps
  <2>5. WorkOK(p)'
    BY <1>1, <2>2, NoWorkType DEF WorkOK, OnAdmins
  <2> QED
    BY <1>1, <2>1, <2>4, <2>5, ContinueInv DEF Steps
<1> QED
  BY <1>2, <1>3

\* The bootstrap has the table for itself.
LEMMA LockTableInv ==
  ASSUME RolesInv, NEW p \in Procs, LockTable(p)
  PROVE  RolesInv'
<1>1. /\ tx[p].pc = "lockTable" /\ InTransaction(p) /\ AuthorityOK(p) /\ WorkOK(p)
      /\ tx[p] \in Transaction
  BY Running DEF LockTable, Steps
<1>2. Advance(p, "countAdmins") /\ UNCHANGED <<tables, work, admitted>>
  BY DEF LockTable
<1>3. /\ tx'[p].pc = "countAdmins" /\ tx'[p].op = tx[p].op /\ tx'[p].role = tx[p].role
      /\ tx'[p].actor = tx[p].actor
      /\ UNCHANGED <<roles, session>>
  BY <1>2, AdvanceType DEF RolesInv, Pcs, Steps, tables
<1>4. /\ tableLock' \in [Procs -> TableModes] /\ tableLock'[p] = "SHARE ROW EXCLUSIVE"
      /\ \A q \in Procs \ {p} : tableLock'[q] = tableLock[q] /\ tableLock[q] = "none"
  BY <1>1 DEF LockTable, Blockers, NeedsTable, RolesInv, TypeOK, TableModes
<1>5. Admins' = Admins
  BY <1>3 DEF Admins
<1>6. AuthorityOK(p)'
  BY <1>1, <1>2, <1>3, <1>4, <1>5 DEF AuthorityOK, Checked, OnAdmins, Steps
<1>7. WorkOK(p)'
  BY <1>1, <1>2, <1>3, NoWorkType DEF WorkOK
<1>8. work' \in [Procs -> Work] /\ \A q \in Procs : work'[q] = work[q]
  BY <1>2 DEF RolesInv, TypeOK
<1> QED
  BY <1>1, <1>2, <1>4, <1>6, <1>7, <1>8, StatementFrame DEF Steps

\* A statement that writes global_admin_roles waits for the bootstrap.
LEMMA OpenTableInv ==
  ASSUME RolesInv, NEW p \in Procs, OpenTable(p)
  PROVE  RolesInv'
<1>1. /\ tx[p].pc = "writeRole" /\ tableLock[p] = "none" /\ InTransaction(p)
      /\ AuthorityOK(p) /\ WorkOK(p) /\ tx[p] \in Transaction /\ work[p] \in Work
  BY Running DEF OpenTable, NeedsTable, Steps
<1>2. UNCHANGED <<tables, tx, work, admitted>>
  BY DEF OpenTable
<1>3. /\ tableLock' \in [Procs -> TableModes] /\ tableLock'[p] = "ROW EXCLUSIVE"
      /\ \A q \in Procs \ {p} :
           tableLock'[q] = tableLock[q] /\ tableLock[q] # "SHARE ROW EXCLUSIVE"
  <2>1. \A q \in Procs \ {p} : tableLock[q] # "SHARE ROW EXCLUSIVE"
    BY <1>1 DEF OpenTable, NeedsTable, Blockers
  <2> QED
    BY <2>1 DEF OpenTable, RolesInv, TypeOK, TableModes
<1>4. tx[p].actor # None /\ work[p] = NoWork
  BY <1>1 DEF AuthorityOK, WorkOK
<1>5. Admins' = Admins
  BY <1>2 DEF Admins, tables
<1>6. RunOK(p)'
  <2>1. AuthorityOK(p)'
    BY <1>1, <1>2, <1>3, <1>4, <1>5 DEF AuthorityOK, Checked, OnAdmins, Steps
  <2>2. WorkOK(p)'
    BY <1>1, <1>2, <1>4, NoWorkType DEF WorkOK
  <2> QED
    BY <2>1, <2>2, <1>1, <1>2 DEF RunOK, InTransaction
<1>7. TypeOK'
  BY <1>2, <1>3 DEF RolesInv, TypeOK, tables
<1>8. \A q \in Procs \ {p} : Same(q)
  BY <1>2, <1>3 DEF Same
<1>9. \A q \in Procs \ {p} : ApartOK(p, q)' /\ ApartOK(q, p)'
  BY <1>2, <1>3 DEF RolesInv, ApartOK
<1>10. UNCHANGED tables
  BY <1>2
<1> QED
  BY <1>6, <1>7, <1>8, <1>9, <1>10, Frame

\* A row of a table is written by one run at a time, and no row of
\* global_admin_roles by a run that has not opened the table.
LEMMA WriteRoleInv ==
  ASSUME RolesInv, NEW p \in Procs, WriteRole(p)
  PROVE  RolesInv'
<1> DEFINE changed == (tx[p].role \in roles) = (tx[p].op = "revoke")
<1>1. /\ tx[p].pc = "writeRole" /\ InTransaction(p) /\ AuthorityOK(p) /\ WorkOK(p)
      /\ tx[p] \in Transaction /\ work[p] \in Work /\ tableLock[p] \in TableModes
  BY Running DEF WriteRole, Steps
<1>2. changed \in BOOLEAN /\ work[p] = NoWork
  BY <1>1 DEF WorkOK
<1>3. work' = [work EXCEPT ![p].changed = changed] /\ UNCHANGED <<tables, tableLock, admitted>>
  BY DEF WriteRole
<1>4. PICK pc \in {"writeAudit", "commit"} :
        Advance(p, pc) /\ (pc = "writeAudit" <=> changed /\ tx[p].actor # None)
  BY DEF WriteRole
<1>5. /\ tx'[p].pc = pc /\ tx'[p].op = tx[p].op /\ tx'[p].role = tx[p].role
      /\ tx'[p].actor = tx[p].actor
      /\ UNCHANGED <<roles, session>>
  BY <1>3, <1>4, AdvanceType DEF RolesInv, Pcs, Steps, tables
<1>6. changed => \A q \in Procs \ {p} : ~(work[q].changed /\ tx[q].role = tx[p].role)
  <2>1. changed => tx[p].op = "grant" \/ tx[p].role \in roles
    BY <1>1 DEF AuthorityOK, Ops
  <2>2. Writers(p) = {}
    BY <1>1 DEF WriteRole, Blockers
  <2> QED
    BY <2>1, <2>2 DEF Writers
<1>7. OnAdmins(p) => tableLock[p] # "none"
  BY <1>1 DEF WriteRole, NeedsTable
<1> HIDE DEF changed
<1>8. /\ tableLock' \in [Procs -> TableModes] /\ tableLock'[p] = tableLock[p]
      /\ work' \in [Procs -> Work] /\ work'[p].changed = changed
      /\ work'[p].audited = FALSE /\ work'[p].ended = {}
      /\ work'[p].locked = work[p].locked
      /\ \A q \in Procs \ {p} : work'[q] = work[q] /\ tableLock'[q] = tableLock[q]
  <2>1. [work[p] EXCEPT !.changed = changed] \in Work
    BY <1>1, <1>2 DEF Work
  <2>2. /\ work' \in [Procs -> Work] /\ work'[p] = [work[p] EXCEPT !.changed = changed]
        /\ \A q \in Procs \ {p} : work'[q] = work[q]
    BY <1>3, <2>1 DEF RolesInv, TypeOK
  <2>3. /\ work'[p].changed = changed /\ work'[p].audited = work[p].audited
        /\ work'[p].ended = work[p].ended /\ work'[p].locked = work[p].locked
    BY <1>1, <2>2 DEF Work
  <2>4. tableLock' = tableLock /\ tableLock \in [Procs -> TableModes]
    BY <1>3 DEF RolesInv, TypeOK
  <2> QED
    BY <1>2, <2>2, <2>3, <2>4, NoWorkType
<1>9. Admins' = Admins
  BY <1>5 DEF Admins
<1>10. AuthorityOK(p)'
  <2>1. tx[p].actor = None => pc = "commit"
    BY <1>4
  <2> QED
    BY <1>1, <1>3, <1>4, <1>5, <1>8, <1>9, <2>1 DEF AuthorityOK, Checked, OnAdmins, Steps
<1>11. WorkOK(p)'
  <2>1. tx'[p].pc = "writeAudit" => work'[p].changed
    BY <1>2, <1>4, <1>5, <1>8
  <2>2. work'[p].changed => /\ (tx'[p].role \in roles') = (tx'[p].op = "revoke")
                            /\ OnAdmins(p)' => tableLock'[p] # "none"
    BY <1>5, <1>7, <1>8 DEF changed, OnAdmins
  <2>3. ~(tx'[p].pc = "commit" /\ work'[p].changed /\ tx'[p].actor # None)
    BY <1>2, <1>4, <1>5, <1>8
  <2> QED
    BY <1>4, <1>5, <1>8, <2>1, <2>2, <2>3 DEF WorkOK
<1>12. pc \in Steps /\ UNCHANGED <<tables, admitted>>
  BY <1>3 DEF Steps
<1> QED
  BY <1>1, <1>2, <1>4, <1>6, <1>8, <1>10, <1>11, <1>12, StatementFrame

\* A change in the name of an actor has its event.
LEMMA WriteAuditInv ==
  ASSUME RolesInv, NEW p \in Procs, WriteAudit(p)
  PROVE  RolesInv'
<1>1. /\ tx[p].pc = "writeAudit" /\ InTransaction(p) /\ AuthorityOK(p) /\ WorkOK(p)
      /\ tx[p] \in Transaction /\ work[p] \in Work
  BY Running DEF WriteAudit, Steps
<1>2. /\ work' = [work EXCEPT ![p].audited = TRUE] /\ UNCHANGED <<tables, tableLock, admitted>>
  BY DEF WriteAudit
<1>3. PICK pc \in {"commit", "findSessions"} : Advance(p, pc)
  BY DEF WriteAudit
<1>4. /\ tx'[p].pc = pc /\ tx'[p].op = tx[p].op /\ tx'[p].role = tx[p].role
      /\ tx'[p].actor = tx[p].actor
      /\ UNCHANGED <<roles, session>>
  BY <1>2, <1>3, AdvanceType DEF RolesInv, Pcs, Steps, tables
<1>5. /\ work' \in [Procs -> Work] /\ \A q \in Procs \ {p} : work'[q] = work[q]
      /\ work'[p].changed = work[p].changed /\ work'[p].audited = TRUE
      /\ work'[p].ended = work[p].ended /\ work'[p].locked = work[p].locked
  BY <1>1, <1>2 DEF RolesInv, TypeOK, Work
<1>6. Admins' = Admins
  BY <1>4 DEF Admins
<1>7. AuthorityOK(p)'
  BY <1>1, <1>2, <1>3, <1>4, <1>6 DEF AuthorityOK, Checked, OnAdmins, Steps
<1>8. WorkOK(p)'
  BY <1>1, <1>2, <1>3, <1>4, <1>5 DEF WorkOK, AuthorityOK, OnAdmins
<1>9. tableLock' \in [Procs -> TableModes] /\ \A q \in Procs : tableLock'[q] = tableLock[q]
  BY <1>2 DEF RolesInv, TypeOK
<1> QED
  BY <1>1, <1>2, <1>3, <1>5, <1>7, <1>8, <1>9, StatementFrame DEF Steps

\* The sessions of a revocation are found, ...
LEMMA FindSessionsInv ==
  ASSUME RolesInv, NEW p \in Procs, FindSessions(p)
  PROVE  RolesInv'
<1> DEFINE found == SessionsOf(Target(p))
<1>1. /\ tx[p].pc = "findSessions" /\ InTransaction(p)
      /\ AuthorityOK(p) /\ WorkOK(p) /\ tx[p] \in Transaction /\ work[p] \in Work
  BY Running DEF FindSessions, Steps
<1>2. found \in SUBSET Sessions
  BY DEF SessionsOf
<1>3. PICK pc \in {"lockSessions", "commit"} : Advance(p, pc)
  BY DEF FindSessions
<1>4. work' = [work EXCEPT ![p].targets = found] /\ UNCHANGED <<tables, tableLock, admitted>>
  BY DEF FindSessions
<1> HIDE DEF found
<1>5. /\ work' \in [Procs -> Work] /\ \A q \in Procs \ {p} : work'[q] = work[q]
      /\ work'[p].changed = work[p].changed /\ work'[p].audited = work[p].audited
      /\ work'[p].locked = work[p].locked /\ work'[p].ended = work[p].ended
  BY <1>1, <1>2, <1>4 DEF RolesInv, TypeOK, Work
<1>6. /\ tx'[p].pc = pc /\ tx'[p].op = tx[p].op /\ tx'[p].role = tx[p].role
      /\ tx'[p].actor = tx[p].actor
      /\ UNCHANGED <<roles, session>>
  BY <1>3, <1>4, AdvanceType DEF RolesInv, Pcs, Steps, tables
<1>7. Admins' = Admins
  BY <1>6 DEF Admins
<1>8. AuthorityOK(p)'
  BY <1>1, <1>3, <1>4, <1>6, <1>7 DEF AuthorityOK, Checked, OnAdmins, Steps
<1>9. WorkOK(p)'
  BY <1>1, <1>3, <1>4, <1>5, <1>6 DEF WorkOK, OnAdmins
<1>10. tableLock' \in [Procs -> TableModes] /\ \A q \in Procs : tableLock'[q] = tableLock[q]
  BY <1>4 DEF RolesInv, TypeOK
<1>11. pc \in Steps /\ UNCHANGED <<tables, admitted>>
  BY <1>3, <1>4 DEF Steps
<1> QED
  BY <1>1, <1>3, <1>5, <1>8, <1>9, <1>10, <1>11, StatementFrame

\* ... and one after the other is locked, and ended if it still is live.
LEMMA LockSessionInv ==
  ASSUME RolesInv, NEW p \in Procs, NEW s \in Sessions, LockSession(p, s)
  PROVE  RolesInv'
<1>1. /\ tx[p].pc = "lockSessions" /\ InTransaction(p)
      /\ AuthorityOK(p) /\ WorkOK(p) /\ tx[p] \in Transaction /\ work[p] \in Work
  BY Running DEF LockSession, Steps
<1>2. /\ work[p].targets \in SUBSET Sessions /\ work[p].locked \in SUBSET Sessions
      /\ work[p].ended \in SUBSET Sessions
  BY <1>1 DEF Work
<1>3. PICK targets \in SUBSET Sessions : targets = work[p].targets \ {s}
  BY <1>2
<1>4. PICK locked \in SUBSET Sessions : locked = work[p].locked \cup {s}
  BY <1>2
<1>5. PICK ended \in SUBSET Sessions : ended = work[p].ended \cup {k \in {s} : session[k] = "live"}
  BY <1>2
<1>6. work' = [work EXCEPT ![p].targets = targets, ![p].locked = locked, ![p].ended = ended]
  BY <1>3, <1>4, <1>5 DEF LockSession, RolesInv, TypeOK
<1>7. UNCHANGED <<tables, tableLock, admitted>> /\ \A q \in Procs \ {p} : s \notin work[q].locked
  BY DEF LockSession, Unlocked
<1>8. PICK pc \in {"lockSessions", "commit"} : Advance(p, pc)
  BY DEF LockSession
<1>9. /\ work' \in [Procs -> Work] /\ \A q \in Procs \ {p} : work'[q] = work[q]
      /\ work'[p].changed = work[p].changed /\ work'[p].audited = work[p].audited
      /\ work'[p].locked = locked /\ work'[p].ended = ended
  BY <1>1, <1>6 DEF RolesInv, TypeOK, Work
<1>10. /\ tx'[p].pc = pc /\ tx'[p].op = tx[p].op /\ tx'[p].role = tx[p].role
       /\ tx'[p].actor = tx[p].actor
       /\ UNCHANGED <<roles, session>>
  BY <1>7, <1>8, AdvanceType DEF RolesInv, Pcs, Steps, tables
<1>11. Admins' = Admins
  BY <1>10 DEF Admins
<1>12. AuthorityOK(p)'
  BY <1>1, <1>7, <1>8, <1>10, <1>11 DEF AuthorityOK, Checked, OnAdmins, Steps
<1>13. \A k \in ended : k \in locked /\ session[k] = "live"
  <2>1. \A k \in work[p].ended : k \in work[p].locked /\ session[k] = "live"
    BY <1>1 DEF WorkOK
  <2> QED
    BY <1>4, <1>5, <2>1
<1>14. WorkOK(p)'
  BY <1>1, <1>7, <1>8, <1>9, <1>10, <1>13 DEF WorkOK, OnAdmins
<1>15. tableLock' \in [Procs -> TableModes] /\ \A q \in Procs : tableLock'[q] = tableLock[q]
  BY <1>7 DEF RolesInv, TypeOK
<1>16. \A q \in Procs \ {p} : work'[p].locked \cap work[q].locked = {}
  <2>1. \A q \in Procs \ {p} : work[p].locked \cap work[q].locked = {}
    BY DEF RolesInv, ApartOK
  <2> QED
    BY <1>4, <1>7, <1>9, <2>1
<1>17. pc \in Steps /\ UNCHANGED <<tables, admitted>>
  BY <1>7, <1>8 DEF Steps
<1> QED
  BY <1>1, <1>8, <1>9, <1>12, <1>14, <1>15, <1>16, <1>17, StatementFrame

-----------------------------------------------------------------------------
\* The commit.

Granted(p) == work[p].changed /\ tx[p].op = "grant"
Revoked(p) == work[p].changed /\ tx[p].op = "revoke"
EventOf(p) == IF tx[p].op = "grant" THEN "role_granted" ELSE "role_revoked"

\* What a commit does to the tables.
LEMMA CommitEffect ==
  ASSUME RolesInv, NEW p \in Procs, Commit(p)
  PROVE  /\ tx[p].pc = "commit" /\ InTransaction(p) /\ AuthorityOK(p) /\ WorkOK(p)
         /\ \E answer \in Answers : Finish(p, answer)
         /\ Granted(p) => roles' = roles \cup {tx[p].role}
         /\ Revoked(p) => roles' = roles \ {tx[p].role}
         /\ ~work[p].changed => roles' = roles
         /\ roles' \subseteq Roles
         /\ \A r \in Roles : audit'[r] = IF r = tx[p].role /\ work[p].audited
                                         THEN Append(audit[r], EventOf(p)) ELSE audit[r]
         /\ \A s \in Sessions :
              IF s \in work[p].ended
              THEN /\ session'[s] = "revoked"
                   /\ audit'[s] = Append(audit[s], "session_revoked_by_role_change")
              ELSE session'[s] = session[s] /\ audit'[s] = audit[s]
         /\ work[p].changed /\ ~work[p].audited =>
              bootstraps'[tx[p].role] = bootstraps[tx[p].role] \cup {Len(audit[tx[p].role])}
         /\ ~work[p].changed \/ work[p].audited =>
              bootstraps'[tx[p].role] = bootstraps[tx[p].role]
         /\ \A r \in Roles : r # tx[p].role => bootstraps'[r] = bootstraps[r]
         /\ bootstraps' \in [Roles -> SUBSET Nat]
         /\ audit' \in [Roles \cup Sessions -> Seq(Actions)]
         /\ session' \in [Sessions -> SessionStatus]
         /\ admitted' \in [Procs -> BOOLEAN]
         /\ \A q \in Procs \ {p} : admitted[q] => admitted'[q]
         /\ \A q \in Procs \ {p} :
              InTransaction(q) /\ <<tx[q].actor, Global>> \in roles' => admitted'[q]
<1>1. /\ tx[p].pc = "commit" /\ InTransaction(p) /\ AuthorityOK(p) /\ WorkOK(p)
      /\ work[p] \in Work
  BY Running DEF Commit, Steps
<1>2. tx[p].op \in Ops /\ tx[p].role \in Roles /\ work[p].ended \subseteq Sessions
  BY <1>1 DEF AuthorityOK, Work
<1>3. \E answer \in Answers : Finish(p, answer)
  BY DEF Commit, Answers
<1>4. /\ Granted(p) => roles' = roles \cup {tx[p].role}
      /\ Revoked(p) => roles' = roles \ {tx[p].role}
      /\ ~work[p].changed => roles' = roles
      /\ roles' \subseteq Roles
  <2>1. roles' = IF ~work[p].changed THEN roles
                 ELSE IF tx[p].op = "grant" THEN roles \cup {tx[p].role}
                                            ELSE roles \ {tx[p].role}
    BY DEF Commit
  <2> QED
    BY <1>2, <2>1 DEF Granted, Revoked, Ops, RolesInv, TypeOK
<1>5. audit' = [k \in Roles \cup Sessions |->
        CASE k = tx[p].role /\ work[p].audited -> Append(audit[k], EventOf(p))
          [] k \in work[p].ended -> Append(audit[k], "session_revoked_by_role_change")
          [] OTHER -> audit[k]]
  <2>1. DOMAIN audit = Roles \cup Sessions
    BY DEF RolesInv, TypeOK
  <2> QED
    BY <2>1 DEF Commit, EventOf
<1>6. \A r \in Roles : audit'[r] = IF r = tx[p].role /\ work[p].audited
                                   THEN Append(audit[r], EventOf(p)) ELSE audit[r]
  BY <1>2, <1>5
<1>7. \A s \in Sessions : audit'[s] = IF s \in work[p].ended
        THEN Append(audit[s], "session_revoked_by_role_change") ELSE audit[s]
  BY <1>2, <1>5
<1>8. audit' \in [Roles \cup Sessions -> Seq(Actions)]
  <2>1. EventOf(p) \in Actions /\ "session_revoked_by_role_change" \in Actions
    BY DEF EventOf, Actions
  <2>2. ASSUME NEW k \in Roles \cup Sessions PROVE audit'[k] \in Seq(Actions)
    <3>1. audit[k] \in Seq(Actions)
      BY DEF RolesInv, TypeOK
    <3>2. /\ Append(audit[k], EventOf(p)) \in Seq(Actions)
          /\ Append(audit[k], "session_revoked_by_role_change") \in Seq(Actions)
      BY <2>1, <3>1
    <3>3. CASE k \in Roles
      BY <1>6, <3>1, <3>2, <3>3
    <3>4. CASE k \in Sessions
      BY <1>7, <3>1, <3>2, <3>4
    <3> QED
      BY <3>3, <3>4
  <2> QED
    BY <1>5, <2>2
<1>9. /\ session' \in [Sessions -> SessionStatus]
      /\ \A s \in Sessions : session'[s] = IF s \in work[p].ended THEN "revoked" ELSE session[s]
  BY DEF Commit, RolesInv, TypeOK, SessionStatus
<1>10. admitted' = [q \in Procs |->
         q # p /\ (admitted[q] \/ (InTransaction(q) /\ <<tx[q].actor, Global>> \in roles'))]
  BY DEF Commit
<1>11. admitted' \in [Procs -> BOOLEAN]
  BY <1>10
<1>12. \A q \in Procs \ {p} :
         /\ admitted[q] => admitted'[q]
         /\ InTransaction(q) /\ <<tx[q].actor, Global>> \in roles' => admitted'[q]
  BY <1>10
<1>13. /\ work[p].changed /\ ~work[p].audited =>
            bootstraps'[tx[p].role] = bootstraps[tx[p].role] \cup {Len(audit[tx[p].role])}
       /\ ~work[p].changed \/ work[p].audited =>
            bootstraps'[tx[p].role] = bootstraps[tx[p].role]
       /\ \A r \in Roles : r # tx[p].role => bootstraps'[r] = bootstraps[r]
       /\ bootstraps' \in [Roles -> SUBSET Nat]
  <2> DEFINE r == tx[p].role
             new == bootstraps[r] \cup {n \in {Len(audit[r])} : work[p].changed /\ ~work[p].audited}
  <2>1. bootstraps' = [bootstraps EXCEPT ![r] = new]
    BY DEF Commit
  <2>2. bootstraps \in [Roles -> SUBSET Nat] /\ r \in Roles /\ Len(audit[r]) \in Nat
    BY <1>2 DEF RolesInv, TypeOK
  <2>3. new = IF work[p].changed /\ ~work[p].audited
              THEN bootstraps[r] \cup {Len(audit[r])} ELSE bootstraps[r]
    OBVIOUS
  <2>4. new \in SUBSET Nat
    BY <2>2, <2>3
  <2> HIDE DEF new
  <2> QED
    BY <2>1, <2>2, <2>3, <2>4
<1> QED
  BY <1>1, <1>3, <1>4, <1>6, <1>7, <1>8, <1>9, <1>11, <1>12, <1>13

\* The log of the role that was changed has the event of the change, or the place
\* of a bootstrap.
LEMMA CommitRolesAudited ==
  ASSUME RolesInv, NEW p \in Procs, Commit(p)
  PROVE  RolesAudited'
<1>1. /\ work[p].changed => (tx[p].role \in roles) = (tx[p].op = "revoke")
      /\ work[p].audited => work[p].changed
      /\ tx[p].op \in Ops /\ tx[p].role \in Roles
  BY CommitEffect DEF WorkOK, AuthorityOK
<1>2. ASSUME NEW r \in Roles
      PROVE  Story(audit'[r], bootstraps'[r], r \in roles', r[2] = Global)
  <2>1. /\ audit[r] \in Seq(Actions) /\ bootstraps[r] \in SUBSET Nat
        /\ Story(audit[r], bootstraps[r], r \in roles, r[2] = Global)
    BY Stories DEF RolesInv, TypeOK
  <2>2. CASE r = tx[p].role /\ work[p].audited
    <3>1. audit'[r] = Append(audit[r], EventOf(p)) /\ bootstraps'[r] = bootstraps[r]
      <4>1. audit'[r] = Append(audit[r], EventOf(p))
        BY <2>2, CommitEffect
      <4>2. bootstraps'[tx[p].role] = bootstraps[tx[p].role]
        BY <2>2, CommitEffect
      <4> QED
        BY <2>2, <4>1, <4>2
    <3>2. /\ EventOf(p) = IF r \in roles THEN "role_revoked" ELSE "role_granted"
          /\ (r \in roles') <=> ~(r \in roles)
      BY <1>1, <2>2, CommitEffect DEF Ops, Granted, Revoked, EventOf
    <3>3. PICK held \in BOOLEAN : held <=> r \in roles
      OBVIOUS
    <3>4. PICK g \in BOOLEAN : g <=> r[2] = Global
      OBVIOUS
    <3>5. Story(audit[r], bootstraps[r], held, g)
      BY <2>1, <3>3, <3>4 DEF Story
    <3>6. Story(Append(audit[r], EventOf(p)), bootstraps[r], ~held, g)
      BY <2>1, <3>2, <3>3, <3>5, StoryGrows
    <3>7. Story(audit'[r], bootstraps'[r], ~held, g)
      BY <3>1, <3>6
    <3> QED
      BY <3>2, <3>3, <3>4, <3>7 DEF Story
  <2>3. CASE r = tx[p].role /\ work[p].changed /\ ~work[p].audited
    <3>1. tx[p].actor = None
      BY <2>3, CommitEffect DEF WorkOK
    <3>2. r[2] = Global /\ tx[p].op = "grant"
      BY <1>1, <2>3, <3>1, CommitEffect DEF AuthorityOK, Checked, Steps, OnAdmins, Ops
    <3>3. r \notin roles /\ r \in roles'
      BY <1>1, <2>3, <3>2, CommitEffect DEF Granted
    <3>4. audit'[r] = audit[r] /\ bootstraps'[r] = bootstraps[r] \cup {Len(audit[r])}
      BY <2>3, CommitEffect
    <3>5. Story(audit[r], bootstraps[r], FALSE, TRUE)
      BY <2>1, <3>2, <3>3 DEF Story
    <3>6. Story(audit'[r], bootstraps'[r], TRUE, TRUE)
      <4>1. Story(audit[r], bootstraps[r] \cup {Len(audit[r])}, TRUE, TRUE)
        BY ONLY <2>1, <3>5, StoryBootstrap
      <4> QED
        BY ONLY <3>4, <4>1
    <3> QED
      BY <3>2, <3>3, <3>6 DEF Story
  <2>4. CASE ~(r = tx[p].role /\ work[p].changed)
    <3>1. audit'[r] = audit[r] /\ bootstraps'[r] = bootstraps[r]
      BY <1>1, <2>4, CommitEffect
    <3>2. r \in roles' <=> r \in roles
      <4>1. CASE ~work[p].changed
        BY <4>1, CommitEffect
      <4>2. CASE work[p].changed
        <5>1. roles' = roles \cup {tx[p].role} \/ roles' = roles \ {tx[p].role}
          BY <1>1, <4>2, CommitEffect DEF Granted, Revoked, Ops
        <5> QED
          BY <2>4, <4>2, <5>1
      <4> QED
        BY <4>1, <4>2
    <3>3. Story(audit'[r], bootstraps'[r], r \in roles, r[2] = Global)
      BY <2>1, <3>1
    <3> QED
      BY <3>2, <3>3 DEF Story
  <2> QED
    BY <1>1, <2>2, <2>3, <2>4
<1> QED
  BY <1>2, Stories

\* A commit changes who is a global admin only with a lock on the table.
LEMMA CommitAdmins ==
  ASSUME RolesInv, NEW p \in Procs, Commit(p), Admins' # Admins
  PROVE  work[p].changed /\ OnAdmins(p) /\ tableLock[p] # "none"
<1>1. work[p].changed /\ tx[p].op \in Ops /\ tx[p].role \in Roles
  BY CommitEffect DEF Admins, AuthorityOK
<1>2. OnAdmins(p)
  <2>1. roles' = roles \cup {tx[p].role} \/ roles' = roles \ {tx[p].role}
    BY <1>1, CommitEffect DEF Granted, Revoked, Ops
  <2>2. PICK u \in Users : ~(<<u, Global>> \in roles' <=> <<u, Global>> \in roles)
    BY DEF Admins
  <2>3. tx[p].role = <<u, Global>>
    BY <2>1, <2>2
  <2> QED
    BY <2>3 DEF OnAdmins
<1> QED
  BY <1>1, <1>2, CommitEffect DEF WorkOK

\* A commit leaves other runs with what they rely on: it changes other rows, it
\* ends other sessions, and it does not concern a bootstrap.
LEMMA CommitOthers ==
  ASSUME RolesInv, NEW p \in Procs, Commit(p), NEW q \in Procs \ {p}
  PROVE  RunOK(q)'
<1>1. /\ tx'[q] = tx[q] /\ work'[q] = work[q] /\ tableLock'[q] = tableLock[q]
  BY CommitEffect, FinishType
<1>2. CASE ~InTransaction(q)
  <2>1. RunOK(q)
    BY DEF RolesInv
  <2> QED
    BY <1>1, <1>2, <2>1 DEF RunOK, InTransaction
<1>3. CASE InTransaction(q)
  <2>1. AuthorityOK(q) /\ WorkOK(q) /\ tx[q] \in Transaction /\ work[q] \in Work
    BY <1>3, Running DEF InTransaction
  <2>2. ApartOK(p, q) /\ ApartOK(q, p)
    BY DEF RolesInv
  <2>3. AuthorityOK(q)'
    <3>1. /\ admitted[q] => admitted'[q]
          /\ tx[q].actor \in Admins' => admitted'[q]
      BY <1>3, CommitEffect DEF Admins
    <3>2. tableLock[q] = "SHARE ROW EXCLUSIVE" => Admins' = Admins
      BY <2>2, CommitAdmins DEF ApartOK
    <3> QED
      BY <1>1, <2>1, <3>1, <3>2 DEF AuthorityOK, Checked, OnAdmins
  <2>4. WorkOK(q)'
    <3>1. work[q].changed => (tx[q].role \in roles' <=> tx[q].role \in roles)
      <4> SUFFICES ASSUME work[q].changed
                   PROVE  tx[q].role \in roles' <=> tx[q].role \in roles
        OBVIOUS
      <4>1. CASE ~work[p].changed
        BY <4>1, CommitEffect
      <4>2. CASE work[p].changed
        <5>1. tx[q].role # tx[p].role
          BY <2>2, <4>2 DEF ApartOK
        <5>2. roles' = roles \cup {tx[p].role} \/ roles' = roles \ {tx[p].role}
          BY <4>2, CommitEffect DEF Granted, Revoked, Ops, AuthorityOK
        <5> QED
          BY <5>1, <5>2
      <4> QED
        BY <4>1, <4>2
    <3>2. \A s \in work[q].ended : s \in work[q].locked /\ session'[s] = "live"
      <4> SUFFICES ASSUME NEW s \in work[q].ended
                   PROVE  s \in work[q].locked /\ session'[s] = "live"
        OBVIOUS
      <4>1. s \in Sessions /\ s \in work[q].locked /\ session[s] = "live"
        BY <2>1 DEF Work, WorkOK
      <4>2. s \notin work[p].ended
        BY <2>2, <4>1, CommitEffect DEF WorkOK, ApartOK
      <4> QED
        BY <4>1, <4>2, CommitEffect
    <3> QED
      BY <1>1, <2>1, <3>1, <3>2 DEF WorkOK, OnAdmins
  <2>5. InTransaction(q)'
    BY <1>1, <1>3 DEF InTransaction
  <2> QED
    BY <2>3, <2>4, <2>5 DEF RunOK
<1> QED
  BY <1>2, <1>3

LEMMA CommitInv ==
  ASSUME RolesInv, NEW p \in Procs, Commit(p)
  PROVE  RolesInv'
<1>1. PICK answer \in Answers : Finish(p, answer)
  BY CommitEffect
<1>2. /\ tx' \in [Procs -> Transaction] /\ work' \in [Procs -> Work]
      /\ tableLock' \in [Procs -> TableModes]
      /\ RunOK(p)'
      /\ \A q \in Procs \ {p} :
           /\ tx'[q] = tx[q] /\ work'[q] = work[q] /\ tableLock'[q] = tableLock[q]
      /\ \A q \in Procs \ {p} : ApartOK(p, q)' /\ ApartOK(q, p)'
  BY <1>1, FinishType
<1>3. TypeOK'
  BY <1>2, CommitEffect DEF TypeOK
<1>4. RolesAudited'
  BY CommitRolesAudited
<1>5. SessionsEndOnce'
  <2> SUFFICES ASSUME NEW s \in Sessions
               PROVE  audit'[s] \in IF session'[s] = "revoked"
                        THEN {<<"session_revoked">>, <<"session_revoked_by_role_change">>}
                        ELSE {<<>>}
    BY DEF SessionsEndOnce
  <2>1. audit[s] \in IF session[s] = "revoked"
                     THEN {<<"session_revoked">>, <<"session_revoked_by_role_change">>}
                     ELSE {<<>>}
    BY DEF RolesInv, SessionsEndOnce
  <2>2. CASE s \in work[p].ended
    <3>1. session[s] = "live"
      BY <2>2, CommitEffect DEF WorkOK
    <3>2. audit[s] = <<>> /\ session'[s] = "revoked"
          /\ audit'[s] = Append(audit[s], "session_revoked_by_role_change")
      BY <2>1, <2>2, <3>1, CommitEffect
    <3> QED
      BY <3>2
  <2>3. CASE s \notin work[p].ended
    BY <2>1, <2>3, CommitEffect
  <2> QED
    BY <2>2, <2>3
<1>6. \A q \in Procs : RunOK(q)'
  BY <1>2, CommitOthers
<1>7. ASSUME NEW q \in Procs, NEW r \in Procs, q # r PROVE ApartOK(q, r)'
  <2>1. CASE q = p \/ r = p
    BY <1>2, <1>7, <2>1
  <2>2. CASE q # p /\ r # p
    <3>1. ApartOK(q, r)
      BY <1>7 DEF RolesInv
    <3> QED
      BY <1>2, <2>2, <3>1 DEF ApartOK
  <2> QED
    BY <2>1, <2>2
<1> QED
  BY <1>3, <1>4, <1>5, <1>6, <1>7 DEF RolesInv

-----------------------------------------------------------------------------
\* The CLI shows its answer and ends.
LEMMA ReturnInv ==
  ASSUME RolesInv, NEW p \in Procs, Return(p)
  PROVE  RolesInv'
<1>1. tx'[p] = Idle /\ UNCHANGED <<tables, work, tableLock, admitted>>
      /\ \A q \in Procs \ {p} : Same(q)
  BY DEF Return, Same, RolesInv, TypeOK
<1>2. TypeOK'
  BY IdleType DEF Return, RolesInv, TypeOK, tables
<1>3. work[p] = NoWork /\ tableLock[p] = "none"
  <2>1. ~InTransaction(p) /\ RunOK(p)
    BY DEF Return, InTransaction, Steps, Answers, RolesInv
  <2> QED
    BY <2>1 DEF RunOK
<1>4. RunOK(p)'
  <2>1. ~InTransaction(p)'
    BY <1>1, IdleType DEF InTransaction, Steps
  <2> QED
    BY <1>1, <1>3, <2>1 DEF RunOK
<1>5. \A q \in Procs \ {p} : ApartOK(p, q)' /\ ApartOK(q, p)'
  BY <1>1, <1>3, NoWorkType DEF ApartOK, Same
<1> QED
  BY <1>1, <1>2, <1>4, <1>5, Frame

\* A sign-in or a sign-out at the server changes a session that no run ends.
LEMMA SessionInv ==
  ASSUME RolesInv, NEW s \in Sessions, SignIn(s) \/ Logout(s)
  PROVE  RolesInv'
<1>1. UNCHANGED <<roles, bootstraps, tx, work, tableLock, admitted>>
  BY DEF SignIn, Logout
<1>2. /\ session' \in [Sessions -> SessionStatus]
      /\ \A k \in Sessions \ {s} : session'[k] = session[k] /\ audit'[k] = audit[k]
      /\ \A r \in Roles : audit'[r] = audit[r]
      /\ audit' \in [Roles \cup Sessions -> Seq(Actions)]
  <2>1. CASE SignIn(s)
    BY <2>1 DEF SignIn, RolesInv, TypeOK, SessionStatus
  <2>2. CASE Logout(s)
    <3>1. Append(audit[s], "session_revoked") \in Seq(Actions)
      BY DEF RolesInv, TypeOK, Actions
    <3>2. audit' = [audit EXCEPT ![s] = Append(audit[s], "session_revoked")]
      BY <2>2 DEF Logout
    <3> QED
      BY <2>2, <3>1, <3>2 DEF Logout, RolesInv, TypeOK, SessionStatus
  <2> QED
    BY <2>1, <2>2
<1>3. TypeOK'
  BY <1>1, <1>2 DEF RolesInv, TypeOK
<1>4. RolesAudited'
  BY <1>1, <1>2, Stories DEF RolesInv
<1>5. SessionsEndOnce'
  <2> SUFFICES ASSUME NEW k \in Sessions
               PROVE  audit'[k] \in IF session'[k] = "revoked"
                        THEN {<<"session_revoked">>, <<"session_revoked_by_role_change">>}
                        ELSE {<<>>}
    BY DEF SessionsEndOnce
  <2>1. audit[k] \in IF session[k] = "revoked"
                     THEN {<<"session_revoked">>, <<"session_revoked_by_role_change">>}
                     ELSE {<<>>}
    BY DEF RolesInv, SessionsEndOnce
  <2>2. CASE k # s
    BY <1>2, <2>1, <2>2
  <2>3. CASE k = s /\ SignIn(s)
    BY <2>1, <2>3 DEF SignIn, RolesInv, TypeOK
  <2>4. CASE k = s /\ Logout(s)
    <3>1. audit[s] = <<>> /\ session'[s] = "revoked"
      BY <2>1, <2>4 DEF Logout, RolesInv, TypeOK
    <3>2. audit'[s] = Append(audit[s], "session_revoked")
      BY <2>4 DEF Logout, RolesInv, TypeOK
    <3> QED
      BY <2>4, <3>1, <3>2
  <2> QED
    BY <2>2, <2>3, <2>4
<1>6. ASSUME NEW q \in Procs PROVE RunOK(q)'
  <2>1. RunOK(q) /\ work[q] \in Work /\ Admins' = Admins
    BY <1>1 DEF RolesInv, TypeOK, Admins
  <2>2. ASSUME InTransaction(q), NEW k \in work[q].ended PROVE session'[k] = "live"
    <3>1. k \in Sessions /\ k \in work[q].locked /\ session[k] = "live"
      BY <2>1, <2>2 DEF Work, RunOK, WorkOK
    <3>2. k # s
      BY <3>1 DEF SignIn, Logout
    <3> QED
      BY <1>2, <3>1, <3>2
  <2>3. InTransaction(q) => AuthorityOK(q)' /\ WorkOK(q)'
    BY <1>1, <2>1, <2>2 DEF RunOK, AuthorityOK, WorkOK, Checked, OnAdmins
  <2> QED
    BY <1>1, <2>1, <2>3 DEF RunOK, InTransaction
<1>7. \A q, r \in Procs : q # r => ApartOK(q, r)'
  BY <1>1 DEF RolesInv, ApartOK
<1> QED
  BY <1>3, <1>4, <1>5, <1>6, <1>7 DEF RolesInv

-----------------------------------------------------------------------------
LEMMA NextInv == RolesInv /\ [Next]_vars => RolesInv'
<1> SUFFICES ASSUME RolesInv, [Next]_vars PROVE RolesInv'
  OBVIOUS
<1>1. ASSUME NEW p \in Procs, NEW op \in Ops, NEW r \in Roles, NEW u \in Registered \cup {None},
             StartChange(p, op, r, u)
      PROVE  RolesInv'
  BY <1>1, StartChangeInv
<1>2. ASSUME NEW p \in Procs, Statement(p) PROVE RolesInv'
  BY <1>2, FindTargetInv, CheckActorInv, LockTableInv, CountAdminsInv, OpenTableInv,
     WriteRoleInv, WriteAuditInv, FindSessionsInv, LockSessionInv, CommitInv DEF Statement
<1>3. ASSUME NEW p \in Procs, Interrupt(p) PROVE RolesInv'
  <2>1. \E answer \in {"ErrRoleForbidden", "ErrInternal"} : Rollback(p, answer)
    BY <1>3 DEF Interrupt
  <2> QED
    BY <2>1, RollbackInv DEF Answers
<1>4. ASSUME NEW p \in Procs, DeadlockAbort(p) \/ Return(p) PROVE RolesInv'
  BY <1>4, RollbackInv, ReturnInv DEF DeadlockAbort, Answers
<1>5. ASSUME NEW s \in Sessions, SignIn(s) \/ Logout(s) PROVE RolesInv'
  BY <1>5, SessionInv
<1>6. CASE UNCHANGED vars
  <2>1. \A q \in Procs : RunOK(q)'
    BY <1>6, RunSame DEF vars, Same, RolesInv
  <2>2. TypeOK' /\ RolesAudited' /\ SessionsEndOnce'
    BY <1>6 DEF vars, tables, RolesInv, TypeOK, RolesAudited, HeldAfter, SessionsEndOnce
  <2>3. \A q, r \in Procs : q # r => ApartOK(q, r)'
    BY <1>6 DEF vars, RolesInv, ApartOK
  <2> QED
    BY <2>1, <2>2, <2>3 DEF RolesInv
<1> QED
  BY <1>1, <1>2, <1>3, <1>4, <1>5, <1>6 DEF Next

\* In every reachable state the log of every role is a history that ends in what
\* the role is, with a place for each bootstrap of a global admin, which leaves no
\* event; a session ends once and with one event, and the runs of the CLI are kept
\* apart by their locks: Grant and Revoke of src/api/internal/repo/roles.go,
\* interleaved with each other and with sign-ins and sign-outs, interrupted
\* anywhere and aborted in deadlocks.
THEOREM Inductive == Spec => []RolesInv
BY InitInv, NextInv, PTL DEF Spec

\* A grant without an actor takes effect only while there is no global admin:
\* SHARE ROW EXCLUSIVE on the table is held from the count to the commit.
THEOREM FirstAdmin == Spec => BootstrapIsFirst
<1>1. RolesInv /\ [Next]_vars =>
        [\A p \in Procs : Grants(p) /\ tx[p].actor = None => Admins = {}]_vars
  BY CommitEffect DEF Grants, AuthorityOK
<1> QED
  BY <1>1, Inductive, PTL DEF Spec, BootstrapIsFirst

\* A change in the name of an actor takes effect only if the actor was a global
\* admin during the run, whether it grants or revokes.
THEOREM ActorsAdmitted == Spec => ActorsAreAdmins
<1>1. RolesInv /\ [Next]_vars =>
        [\A p \in Procs : Commit(p) /\ work[p].changed /\ tx[p].actor # None =>
           admitted[p]]_vars
  BY CommitEffect DEF AuthorityOK, Checked, Steps
<1> QED
  BY <1>1, Inductive, PTL DEF Spec, ActorsAreAdmins

\* However many runs of the CLI there are, those that wait for each other in a cycle
\* wait for sessions: LOCK TABLE of firstGlobalAdmin, the writes of the roles and
\* the UPDATE of the sessions take their locks in different orders, but whoever
\* waits for the table or for a row of a role holds nothing that a run at that
\* row waits for.
THEOREM RolesNeverDeadlock == Spec => []OnlySessionsDeadlock
<1>1. RolesInv => OnlySessionsDeadlock
  <2> SUFFICES ASSUME RolesInv, NEW p \in Procs,
                      InCycle([q \in Procs |-> Blockers(q)], p), tx[p].pc # "lockSessions"
               PROVE  FALSE
    BY DEF OnlySessionsDeadlock
  <2> DEFINE waits == [q \in Procs |-> Blockers(q)]
             S == {q \in Procs : q # p /\ tx[q].pc # "lockTable"}
  <2>1. \A q \in Procs : RunOK(q) /\ tx[q].pc \in {"idle"} \cup Steps \cup Answers
    BY DEF RolesInv, TypeOK, Transaction
  <2>2. \A q \in Procs : tableLock[q] # "none" => tx[q].pc # "lockTable"
    BY <2>1 DEF RunOK, WorkOK
  <2>3. \A q \in Procs : work[q].changed =>
          tx[q].pc \in {"writeAudit", "findSessions", "lockSessions", "commit"}
    BY <2>1, NoWorkType DEF RunOK, WorkOK, InTransaction, Steps
  <2>4. \A q \in Procs : work[q].locked # {} => tx[q].pc # "lockTable"
    BY <2>1, NoWorkType DEF RunOK, WorkOK
  <2>5. \/ work[p].locked = {} /\ ~work[p].changed /\ tableLock[p] # "SHARE ROW EXCLUSIVE"
        \/ Blockers(p) = {}
    <3>1. CASE tx[p].pc \notin {"lockTable", "writeRole"}
      BY <3>1 DEF Blockers, NeedsTable
    <3>2. CASE tx[p].pc \in {"lockTable", "writeRole"} /\ tableLock[p] # "SHARE ROW EXCLUSIVE"
      BY <2>1, <3>2, NoWorkType DEF RunOK, WorkOK, InTransaction, Steps
    <3>3. CASE tx[p].pc = "writeRole" /\ tableLock[p] = "SHARE ROW EXCLUSIVE"
      <4>1. OnAdmins(p) /\ ~NeedsTable(p)
        BY <2>1, <3>3 DEF RunOK, InTransaction, AuthorityOK, Checked, Steps, NeedsTable
      <4>2. ASSUME NEW q \in Writers(p) PROVE FALSE
        <5>1. q \in Procs \ {p} /\ work[q].changed /\ OnAdmins(q) /\ tableLock[q] = "none"
          BY <3>3, <4>1 DEF Writers, OnAdmins, RolesInv, ApartOK
        <5> QED
          BY <2>1, <5>1, NoWorkType DEF RunOK, WorkOK
      <4> QED
        BY <3>3, <4>1, <4>2 DEF Blockers
    <3>4. CASE tx[p].pc = "lockTable" /\ tableLock[p] = "SHARE ROW EXCLUSIVE"
      BY <2>2, <3>4
    <3> QED
      BY <3>1, <3>2, <3>3, <3>4
  <2>6. CASE Blockers(p) = {}
    <3>1. waits[p] \subseteq {} /\ \A q \in {} : waits[q] \subseteq {}
      BY <2>6
    <3>2. {} \in SUBSET DOMAIN waits
      OBVIOUS
    <3> QED
      BY <3>1, <3>2 DEF InCycle
  <2>7. CASE Blockers(p) # {}
    <3>1. tx[p].pc \in {"lockTable", "writeRole"}
      BY <2>7 DEF Blockers, NeedsTable
    <3>2. Blockers(p) \subseteq S
      BY <2>2, <2>3, <3>1 DEF Blockers, Writers, SessionHolders
    <3>3. ASSUME NEW q \in S PROVE Blockers(q) \subseteq S
      BY <2>2, <2>3, <2>4, <2>5, <2>7 DEF Blockers, Writers, SessionHolders
    <3>4. S \in SUBSET DOMAIN waits /\ p \notin S
      OBVIOUS
    <3>5. waits[p] \subseteq S /\ \A q \in S : waits[q] \subseteq S
      BY <3>2, <3>3
    <3> HIDE DEF S, waits
    <3> QED
      BY <3>4, <3>5 DEF InCycle, waits
  <2> QED
    BY <2>6, <2>7
<1> QED
  BY <1>1, Inductive, PTL

=============================================================================
