----------------------------- MODULE AdminRoles -----------------------------
(***************************************************************************)
(* The privileged roles, which only the admin CLI grants and revokes.  A   *)
(* grant without an actor is the bootstrap of the first global admin and   *)
(* locks the whole table; every other change needs an actor that is a      *)
(* global admin.  A revocation ends the sessions of its target.  Each run  *)
(* of the CLI is one READ COMMITTED transaction, taken one SQL statement   *)
(* at a time.  The UPDATE that ends sessions locks them one after the      *)
(* other, in an order that nothing fixes, and looks at each again.         *)
(*                                                                         *)
(* Source: src/api/internal/repo/roles.go and src/api/cmd/admin.           *)
(***************************************************************************)
EXTENDS Naturals, Sequences, FiniteSets, RowLocks

CONSTANTS
  Users,       \* the users an operator of the CLI can name
  Registered,  \* those that have a row in users
  Campuses,
  Global,      \* the scope of a global_admin role
  Sessions,    \* keys of sessions
  OwnerOf,     \* [Sessions -> Users]
  Procs,       \* runs of the CLI at the same time
  MaxEvents,   \* bound on the audited role changes
  None

ASSUME UserAssumption ==
  Registered \subseteq Users /\ OwnerOf \in [Sessions -> Registered]
ASSUME ScopeAssumption == Global \notin Campuses
ASSUME BoundAssumption == MaxEvents \in Nat
ASSUME NoneAssumption ==
  None \notin Users \cup (Users \X (Campuses \cup {Global}))

\* Rows of global_admin_roles and of campus_operators.
Roles == Users \X (Campuses \cup {Global})

\* An audit event is about a role or about a session.
ASSUME SubjectAssumption == Roles \cap Sessions = {}

VARIABLES
  roles,      \* SUBSET Roles
  session,    \* [Sessions -> SessionStatus]
  audit,      \* [Roles \cup Sessions -> Seq(Actions)]
  tx,         \* [Procs -> Transaction]
  work,       \* [Procs -> Work], what it has written, uncommitted
  tableLock,  \* [Procs -> TableModes], on global_admin_roles
  bootstraps, \* history: [Roles -> SUBSET Nat], how many events the log of a
              \* role had when the role was granted without one
  admitted    \* history: p's actor was a global admin since p began

tables == <<roles, session, audit, bootstraps>>
vars == <<tables, tx, work, tableLock, admitted>>

SessionStatus == {"none", "live", "revoked"}
Actions == {"role_granted", "role_revoked", "session_revoked",
            "session_revoked_by_role_change"}
TableModes == {"none", "ROW EXCLUSIVE", "SHARE ROW EXCLUSIVE"}

Ops == {"grant", "revoke"}
Steps == {"findTarget", "checkActor", "lockTable", "countAdmins", "writeRole",
          "writeAudit", "findSessions", "lockSessions", "commit"}
Answers == {"changed", "unchanged", "ErrNotFound", "ErrRoleForbidden",
            "ErrRoleActorRequired", "ErrInternal"}
Transaction == [pc : {"idle"} \cup Steps \cup Answers, op : Ops \cup {"none"},
                role : Roles \cup {None}, actor : Registered \cup {None}]
Idle == [pc |-> "idle", op |-> "none", role |-> None, actor |-> None]

\* targets: sessions found and not yet locked; ended: those of the locked ones
\* that it has updated.
Work == [changed : BOOLEAN, audited : BOOLEAN, targets : SUBSET Sessions,
         locked : SUBSET Sessions, ended : SUBSET Sessions]
NoWork == [changed |-> FALSE, audited |-> FALSE, targets |-> {},
           locked |-> {}, ended |-> {}]

Admins == {u \in Users : <<u, Global>> \in roles}
Target(p) == tx[p].role[1]
OnAdmins(p) == tx[p].role[2] = Global
RoleEvents == Cardinality(UNION {{r} \X DOMAIN audit[r] : r \in Roles})
InTransaction(p) == tx[p].pc \in Steps
Unlocked(p, s) == \A q \in Procs \ {p} : s \notin work[q].locked
SessionsOf(u) == {s \in Sessions : OwnerOf[s] = u /\ session[s] = "live"}
-----------------------------------------------------------------------------
Init ==
  /\ roles = {}
  /\ session = [s \in Sessions |-> "none"]
  /\ audit = [k \in Roles \cup Sessions |-> <<>>]
  /\ tx = [p \in Procs |-> Idle]
  /\ work = [p \in Procs |-> NoWork]
  /\ tableLock = [p \in Procs |-> "none"]
  /\ bootstraps = [r \in Roles |-> {}]
  /\ admitted = [p \in Procs |-> FALSE]

Advance(p, pc) == tx' = [tx EXCEPT ![p].pc = pc]

\* The deferred Rollback, or the end of a COMMIT: the locks go.
Finish(p, answer) ==
  /\ Advance(p, answer)
  /\ work' = [work EXCEPT ![p] = NoWork]
  /\ tableLock' = [tableLock EXCEPT ![p] = "none"]
Rollback(p, answer) ==
  /\ Finish(p, answer)
  /\ admitted' = [admitted EXCEPT ![p] = FALSE]
  /\ UNCHANGED tables
Continue(p, pc) ==
  Advance(p, pc) /\ UNCHANGED <<tables, work, tableLock, admitted>>

\* Begin; Grant looks for its target first, Revoke at its actor.  The CLI
\* refuses a revocation without an actor.
StartChange(p, op, r, u) ==
  /\ tx[p] = Idle
  /\ RoleEvents < MaxEvents
  /\ op = "revoke" => u # None
  /\ tx' = [tx EXCEPT ![p] =
       [pc |-> IF op = "grant" THEN "findTarget" ELSE "checkActor",
        op |-> op, role |-> r, actor |-> u]]
  /\ admitted' = [admitted EXCEPT ![p] = u \in Admins]
  /\ UNCHANGED <<tables, work, tableLock>>

\* findUserID
FindTarget(p) ==
  /\ tx[p].pc = "findTarget"
  /\ IF Target(p) \notin Registered
     THEN Rollback(p, "ErrNotFound")
     ELSE Continue(p, IF tx[p].op = "grant" THEN "checkActor" ELSE "writeRole")

\* (fault) Revoke does not look at its actor.
CheckGrantingActor(p) ==
  /\ tx[p].pc = "checkActor"
  /\ CASE tx[p].op = "revoke" -> Continue(p, "findTarget")
       [] tx[p].op = "grant" /\ tx[p].actor = None ->
            IF OnAdmins(p) THEN Continue(p, "lockTable")
                           ELSE Rollback(p, "ErrRoleActorRequired")
       [] tx[p].op = "grant" /\ tx[p].actor # None ->
            IF tx[p].actor \in Admins THEN Continue(p, "writeRole")
                                      ELSE Rollback(p, "ErrRoleForbidden")

\* isGlobalAdmin; without an actor, only the first global admin is granted.
CheckActor(p) ==
  /\ tx[p].pc = "checkActor"
  /\ CASE tx[p].actor = None /\ OnAdmins(p)  -> Continue(p, "lockTable")
       [] tx[p].actor = None /\ ~OnAdmins(p) -> Rollback(p, "ErrRoleActorRequired")
       [] tx[p].actor # None /\ tx[p].actor \notin Admins ->
            Rollback(p, "ErrRoleForbidden")
       [] OTHER -> Continue(p, IF tx[p].op = "grant" THEN "writeRole" ELSE "findTarget")

\* An INSERT waits for whoever writes the same key, a DELETE for whoever
\* deletes the row it has found.
Writers(p) ==
  {q \in Procs \ {p} : /\ work[q].changed /\ tx[q].role = tx[p].role
                       /\ tx[p].op = "grant" \/ tx[p].role \in roles}

\* A statement that writes global_admin_roles opens the table for it first.
NeedsTable(p) == tx[p].pc = "writeRole" /\ OnAdmins(p) /\ tableLock[p] = "none"

SessionHolders(p) ==
  IF \E s \in work[p].targets : Unlocked(p, s) THEN {}
  ELSE {q \in Procs \ {p} : work[p].targets \cap work[q].locked # {}}

\* (fault) LOCK TABLE ... IN SHARE MODE: bootstraps can hold it together, and each
\* then writes the table that the other has locked.
BlockersInShareMode(p) ==
  CASE tx[p].pc = "lockTable" -> {q \in Procs \ {p} : tableLock[q] = "ROW EXCLUSIVE"}
    [] tx[p].pc = "writeRole" /\ OnAdmins(p) ->
         {q \in Procs \ {p} : tableLock[q] = "SHARE ROW EXCLUSIVE"} \cup Writers(p)
    [] tx[p].pc = "writeRole" /\ ~OnAdmins(p) -> Writers(p)
    [] tx[p].pc = "lockSessions" -> SessionHolders(p)
    [] OTHER -> {}

\* Those that the next statement of p waits for: LOCK TABLE for every writer of
\* the table, a write for the bootstrap that has locked the table and then for
\* the row, and the UPDATE of sessions when all that are left are locked.
Blockers(p) ==
  CASE tx[p].pc = "lockTable" -> {q \in Procs \ {p} : tableLock[q] # "none"}
    [] NeedsTable(p) -> {q \in Procs \ {p} : tableLock[q] = "SHARE ROW EXCLUSIVE"}
    [] tx[p].pc = "writeRole" /\ ~NeedsTable(p) -> Writers(p)
    [] tx[p].pc = "lockSessions" -> SessionHolders(p)
    [] OTHER -> {}

\* (fault) The bootstrap counts without a lock.
SkipTableLock(p) == tx[p].pc = "lockTable" /\ Continue(p, "countAdmins")

\* firstGlobalAdmin, LOCK TABLE.
LockTable(p) ==
  /\ tx[p].pc = "lockTable" /\ Blockers(p) = {}
  /\ Advance(p, "countAdmins")
  /\ tableLock' = [tableLock EXCEPT ![p] = "SHARE ROW EXCLUSIVE"]
  /\ UNCHANGED <<tables, work, admitted>>

\* firstGlobalAdmin, SELECT count(*)
CountAdmins(p) ==
  /\ tx[p].pc = "countAdmins"
  /\ IF Admins = {} THEN Continue(p, "writeRole")
                    ELSE Rollback(p, "ErrRoleActorRequired")

\* The ROW EXCLUSIVE lock that every INSERT and DELETE takes on its table.
OpenTable(p) ==
  /\ NeedsTable(p) /\ Blockers(p) = {}
  /\ tableLock' = [tableLock EXCEPT ![p] = "ROW EXCLUSIVE"]
  /\ UNCHANGED <<tables, tx, work, admitted>>

\* (fault) Whether the role changes is looked up before the write, which the
\* rows that it affected would tell.
WriteRoleUnseen(p) ==
  LET changed == (tx[p].role \in roles) = (tx[p].op = "revoke") IN
  /\ tx[p].pc = "writeRole" /\ ~NeedsTable(p)
  /\ work' = [work EXCEPT ![p].changed = changed]
  /\ Advance(p, IF changed /\ tx[p].actor # None THEN "writeAudit" ELSE "commit")
  /\ UNCHANGED <<tables, tableLock, admitted>>

\* INSERT ... ON CONFLICT DO NOTHING or DELETE, and the rows it affected.
WriteRole(p) ==
  LET changed == (tx[p].role \in roles) = (tx[p].op = "revoke") IN
  /\ tx[p].pc = "writeRole" /\ ~NeedsTable(p) /\ Blockers(p) = {}
  /\ work' = [work EXCEPT ![p].changed = changed]
  /\ Advance(p, IF changed /\ tx[p].actor # None THEN "writeAudit" ELSE "commit")
  /\ UNCHANGED <<tables, tableLock, admitted>>

\* writeRoleAudit
WriteAudit(p) ==
  /\ tx[p].pc = "writeAudit"
  /\ work' = [work EXCEPT ![p].audited = TRUE]
  /\ Advance(p, IF tx[p].op = "grant" THEN "commit" ELSE "findSessions")
  /\ UNCHANGED <<tables, tableLock, admitted>>

\* revokeRoleSessions: the UPDATE finds the live sessions of the target ...
FindSessions(p) ==
  LET found == SessionsOf(Target(p)) IN
  /\ tx[p].pc = "findSessions"
  /\ work' = [work EXCEPT ![p].targets = found]
  /\ Advance(p, IF found = {} THEN "commit" ELSE "lockSessions")
  /\ UNCHANGED <<tables, tableLock, admitted>>

\* ... and locks one after the other, which it updates if it still is live; each
\* that it has updated gets an audit event.
LockSession(p, s) ==
  /\ tx[p].pc = "lockSessions"
  /\ s \in work[p].targets /\ Unlocked(p, s)
  /\ work' = [work EXCEPT ![p].targets = @ \ {s}, ![p].locked = @ \cup {s},
                          ![p].ended = @ \cup {k \in {s} : session[k] = "live"}]
  /\ Advance(p, IF work[p].targets = {s} THEN "commit" ELSE "lockSessions")
  /\ UNCHANGED <<tables, tableLock, admitted>>

\* COMMIT, whose acknowledgement can be late.
Commit(p) ==
  LET r == tx[p].role
      w == work[p]
      event == IF tx[p].op = "grant" THEN "role_granted" ELSE "role_revoked" IN
  /\ tx[p].pc = "commit"
  /\ \E answer \in {IF w.changed THEN "changed" ELSE "unchanged", "ErrInternal"} :
       Finish(p, answer)
  /\ roles' = IF ~w.changed THEN roles
              ELSE IF tx[p].op = "grant" THEN roles \cup {r} ELSE roles \ {r}
  /\ session' = [s \in Sessions |-> IF s \in w.ended THEN "revoked" ELSE session[s]]
  /\ audit' = [k \in DOMAIN audit |->
       CASE k = r /\ w.audited -> Append(audit[k], event)
         [] k \in w.ended -> Append(audit[k], "session_revoked_by_role_change")
         [] OTHER -> audit[k]]
  /\ bootstraps' = [bootstraps EXCEPT ![r] =
       @ \cup {n \in {Len(audit[r])} : w.changed /\ ~w.audited}]
  /\ admitted' = [q \in Procs |->
       q # p /\ (admitted[q] \/ (InTransaction(q) /\ <<tx[q].actor, Global>> \in roles'))]

\* queryTimeout, a lost connection or a crash.  isGlobalAdmin reports an
\* error of its query as an actor without the role.
Interrupt(p) ==
  /\ InTransaction(p)
  /\ Rollback(p, IF tx[p].pc = "checkActor" /\ tx[p].actor # None
                 THEN "ErrRoleForbidden" ELSE "ErrInternal")

\* PostgreSQL ends a wait cycle by aborting one of its transactions.
DeadlockAbort(p) ==
  /\ InCycle([q \in Procs |-> Blockers(q)], p)
  /\ Rollback(p, "ErrInternal")

Return(p) ==
  /\ tx[p].pc \in Answers
  /\ tx' = [tx EXCEPT ![p] = Idle]
  /\ UNCHANGED <<tables, work, tableLock, admitted>>

\* AuthService.Complete and Logout, transactions of the server.
SignIn(s) ==
  /\ session[s] = "none"
  /\ session' = [session EXCEPT ![s] = "live"]
  /\ UNCHANGED <<roles, audit, bootstraps, tx, work, tableLock, admitted>>
Logout(s) ==
  /\ session[s] = "live"
  /\ \A q \in Procs : s \notin work[q].locked
  /\ session' = [session EXCEPT ![s] = "revoked"]
  /\ audit' = [audit EXCEPT ![s] = Append(@, "session_revoked")]
  /\ UNCHANGED <<roles, bootstraps, tx, work, tableLock, admitted>>

Statement(p) ==
  \/ FindTarget(p) \/ CheckActor(p) \/ LockTable(p)  \/ CountAdmins(p)
  \/ OpenTable(p)  \/ WriteRole(p)  \/ WriteAudit(p) \/ FindSessions(p)
  \/ Commit(p)
  \/ \E s \in Sessions : LockSession(p, s)

Next ==
  \/ \E p \in Procs :
       \/ \E op \in Ops, r \in Roles, u \in Registered \cup {None} :
            StartChange(p, op, r, u)
       \/ Statement(p) \/ Interrupt(p) \/ DeadlockAbort(p) \/ Return(p)
  \/ \E s \in Sessions : SignIn(s) \/ Logout(s)

Spec == Init /\ [][Next]_vars
-----------------------------------------------------------------------------
TypeOK ==
  /\ roles \subseteq Roles
  /\ session \in [Sessions -> SessionStatus]
  /\ audit \in [Roles \cup Sessions -> Seq(Actions)]
  /\ tx \in [Procs -> Transaction]
  /\ work \in [Procs -> Work]
  /\ tableLock \in [Procs -> TableModes]
  /\ bootstraps \in [Roles -> SUBSET Nat]
  /\ admitted \in [Procs -> BOOLEAN]

Grants(p) == Commit(p) /\ work[p].changed /\ tx[p].op = "grant"

\* However many bootstraps, grants and revocations run at the same time, a
\* grant without an actor takes effect only while there is no global admin.
BootstrapIsFirst ==
  [][\A p \in Procs : Grants(p) /\ tx[p].actor = None => Admins = {}]_vars

\* A change in the name of an actor takes effect only if the actor was a
\* global admin at some moment of the run.
ActorsAreAdmins ==
  [][\A p \in Procs : Commit(p) /\ work[p].changed /\ tx[p].actor # None =>
       admitted[p]]_vars

\* Whether r was held when its log had n events: a grant came last, audited or not.
HeldAfter(r, n) ==
  n \in bootstraps[r] \/ (n \in 1..Len(audit[r]) /\ audit[r][n] = "role_granted")

\* However grants and revocations race, the audit log of every role is a history
\* that could have happened and that ends in what the role is now: grants and
\* revocations alternate, and all that is missing are bootstraps of global
\* admins, each at a place of the log where the role was not held.
RolesAudited ==
  \A r \in Roles :
    /\ \A n \in 1..Len(audit[r]) :
         audit[r][n] = IF HeldAfter(r, n - 1) THEN "role_revoked" ELSE "role_granted"
    /\ r \in roles <=> HeldAfter(r, Len(audit[r]))
    /\ \A n \in bootstraps[r] :
         r[2] = Global /\ n <= Len(audit[r]) /\ (n > 0 => audit[r][n] = "role_revoked")

\* docs/domain.md: "State changes and their audit events commit in the same
\* database transaction": a commit that changes a role has an event of the role.
EveryChangeAudited ==
  [][\A p \in Procs : Commit(p) /\ work[p].changed =>
       Len(audit'[tx[p].role]) > Len(audit[tx[p].role])]_vars

\* A session ends once, by its user or by one revocation, with one event.
SessionsEndOnce ==
  \A s \in Sessions :
    audit[s] \in IF session[s] = "revoked"
                 THEN {<<"session_revoked">>, <<"session_revoked_by_role_change">>}
                 ELSE {<<>>}

\* What the statements of a run can rely on.  Its authority: once the actor is
\* checked, it was a global admin during the run, or it is missing, the role is
\* global, and from the count to the commit nobody is, because the table is
\* locked.
Checked(p) ==
  \/ tx[p].pc = "findTarget" /\ tx[p].op = "revoke"
  \/ tx[p].pc \in Steps \ {"findTarget", "checkActor"}
AuthorityOK(p) ==
  /\ tx[p].op \in Ops /\ tx[p].role \in Roles
  /\ tx[p].op = "revoke" => tx[p].actor # None
  /\ tx[p].actor \in Admins => admitted[p]
  /\ Checked(p) /\ tx[p].actor # None => admitted[p]
  /\ Checked(p) /\ tx[p].actor = None => OnAdmins(p)
  /\ tx[p].actor = None =>
       /\ tx[p].pc \notin {"writeAudit", "findSessions", "lockSessions"}
       /\ tx[p].pc \in {"countAdmins", "writeRole", "commit"} =>
            tableLock[p] = "SHARE ROW EXCLUSIVE"
       /\ tx[p].pc \in {"writeRole", "commit"} => Admins = {}
  /\ tx[p].actor # None =>
       tx[p].pc \notin {"lockTable", "countAdmins"} /\ tableLock[p] # "SHARE ROW EXCLUSIVE"

\* What it has written: the row that it changes is still as it was, since the
\* row, and the table of global admins, are locked; a change in the name of an
\* actor has its event at the commit; the sessions that it ends are live and
\* locked.  It waits for the table lock, and for a role's row, with no lock on a
\* row of its own.
WorkOK(p) ==
  /\ tx[p].pc \in {"findTarget", "checkActor", "lockTable", "countAdmins", "writeRole"} =>
       work[p] = NoWork
  /\ tx[p].pc \in {"writeAudit", "findSessions", "lockSessions"} => work[p].changed
  /\ work[p].changed =>
       /\ (tx[p].role \in roles) = (tx[p].op = "revoke")
       /\ OnAdmins(p) => tableLock[p] # "none"
  /\ work[p].audited => work[p].changed
  /\ tx[p].pc \in {"findSessions", "lockSessions"} => work[p].audited
  /\ tx[p].pc = "commit" /\ work[p].changed /\ tx[p].actor # None => work[p].audited
  /\ tx[p].actor = None => ~work[p].audited
  /\ \A s \in work[p].ended : s \in work[p].locked /\ session[s] = "live"
  /\ tx[p].pc \in {"findTarget", "checkActor", "lockTable"} => tableLock[p] = "none"

RunOK(p) == IF InTransaction(p) THEN AuthorityOK(p) /\ WorkOK(p)
                                ELSE work[p] = NoWork /\ tableLock[p] = "none"

\* The locks keep two runs apart.
ApartOK(p, q) ==
  /\ tableLock[p] = "SHARE ROW EXCLUSIVE" => tableLock[q] = "none"
  /\ ~(work[p].changed /\ work[q].changed /\ tx[p].role = tx[q].role)
  /\ work[p].locked \cap work[q].locked = {}

\* What every state satisfies, and enough to be preserved by every step: types,
\* the logs of roles and those of sessions, and the runs of the CLI.
RolesInv ==
  /\ TypeOK /\ RolesAudited /\ SessionsEndOnce
  /\ \A p \in Procs : RunOK(p)
  /\ \A p, q \in Procs : p # q => ApartOK(p, q)

\* Runs wait for a table lock, for rows of the role tables and for sessions, and
\* take them in different orders.  Still, runs that wait for each other in a cycle
\* all wait for sessions, which two revocations from one user may lock in
\* opposite orders.
OnlySessionsDeadlock ==
  \A p \in Procs :
    InCycle([q \in Procs |-> Blockers(q)], p) => tx[p].pc = "lockSessions"
=============================================================================
