---------------------------- MODULE MediaUpload ----------------------------
(***************************************************************************)
(* Media: an upload stores each file in the object store and then inserts  *)
(* all rows in one transaction, and tries to delete the objects when       *)
(* anything fails; a removal marks a row and keeps the object.  Authority  *)
(* is checked when a request starts and again by the statements that       *)
(* write, which may be much later.                                         *)
(*                                                                         *)
(* Source: src/api/internal/server/media.go, src/api/internal/repo/media.go*)
(* and src/api/queries/media.sql.                                          *)
(***************************************************************************)
EXTENDS Naturals, Sequences, FiniteSets

CONSTANTS
  Users,
  Keys,        \* object keys, each made of a fresh UUID
  Uploads,     \* upload requests
  Files,       \* [Uploads -> Seq(Keys)], the objects a request makes
  OfferOwner,  \* [Uploads -> Users \cup {None}], the agent whose offer is the
               \* target, None for a property or an accommodation type
  Removers,    \* removal requests served at the same time
  None

ASSUME UserAssumption == None \notin Users \cup Keys
ASSUME RequestAssumption == Uploads \cap Removers = {}
ASSUME FileAssumption ==
  /\ Files \in [Uploads -> Seq(Keys) \ {<<>>}]
  /\ OfferOwner \in [Uploads -> Users \cup {None}]
  /\ \A b, c \in Uploads : \A i \in DOMAIN Files[b], j \in DOMAIN Files[c] :
       Files[b][i] = Files[c][j] => b = c /\ i = j

VARIABLES
  operators,  \* users that are operators of the campus or global admins
  agents,     \* users whose agent is active and associated with the campus
  objects,    \* SUBSET Keys, what the object store holds
  media,      \* [Keys -> RowStates], the committed rows
  audit,      \* [Keys -> Seq(Users)], actors of the media_removed events
  upload,     \* [Uploads -> UploadState]
  removal,    \* [Removers -> RemovalState]
  allowed,    \* history: requests whose user had the authority at some moment
              \* since their transaction began
  unsure,     \* history: uploads that could not know what a call had done
  leaky       \* history: uploads that lost track of an object

store == <<objects, media, audit>>
vars == <<operators, agents, store, upload, removal, allowed, unsure, leaky>>

RowStates == {"none", "shown", "removed"}
UploadAnswers == {"created", "forbidden", "ErrNotFound", "ErrInternal", "crashed"}
UploadSteps == {"put", "insert", "commit", "cleanup"}
\* stored: files that were uploaded; at: rows inserted or objects deleted;
\* answer: what the request is answered with once cleanup is over.
UploadState == [pc : {"idle"} \cup UploadSteps \cup UploadAnswers,
                user : Users \cup {None}, stored : Nat, at : Nat,
                answer : UploadAnswers \cup {None}]
NoUpload == [pc |-> "idle", user |-> None, stored |-> 0, at |-> 0, answer |-> None]

RemovalAnswers == {"removed", "forbidden", "ErrNotFound", "ErrInternal"}
RemovalSteps == {"begin", "find", "lock", "writeAudit", "commit"}
RemovalState == [pc : {"idle"} \cup RemovalSteps \cup RemovalAnswers,
                 key : Keys \cup {None}, user : Users \cup {None}]
NoRemoval == [pc |-> "idle", key |-> None, user |-> None]

UploadOf(k) == CHOOSE b \in Uploads : \E i \in DOMAIN Files[b] : Files[b][i] = k
Made == {k \in Keys : \E b \in Uploads : \E i \in DOMAIN Files[b] : Files[b][i] = k}
KeysOf(b) == {Files[b][i] : i \in DOMAIN Files[b]}

\* canUploadMedia, canRemoveMedia, and the same predicates in SQL.
CanUpload(u, b) ==
  u \in operators \/ (u \in agents /\ OfferOwner[b] \in {None, u})
CanRemove(u, k) ==
  u \in operators \/ (u \in agents /\ OfferOwner[UploadOf(k)] = u)
-----------------------------------------------------------------------------
Init ==
  /\ operators \in SUBSET Users
  /\ agents \in SUBSET Users
  /\ objects = {}
  /\ media = [k \in Keys |-> "none"]
  /\ audit = [k \in Keys |-> <<>>]
  /\ upload = [b \in Uploads |-> NoUpload]
  /\ removal = [r \in Removers |-> NoRemoval]
  /\ allowed = {}
  /\ unsure = {}
  /\ leaky = {}

\* uploadMedia, up to the validated files.
StartUpload(b, u) ==
  /\ upload[b] = NoUpload
  /\ upload' = [upload EXCEPT ![b] =
       [NoUpload EXCEPT !.user = u,
                        !.pc = IF CanUpload(u, b) THEN "put" ELSE "forbidden"]]
  /\ UNCHANGED <<operators, agents, store, removal, allowed, unsure, leaky>>

\* cleanupMediaObjects with the media created so far, then the response.
CleanUpFor(b, answer) ==
  [upload EXCEPT ![b].pc = IF upload[b].stored = 0 THEN answer ELSE "cleanup",
                 ![b].at = 0, ![b].answer = answer]

\* uploadMediaFile: a call that fails may have stored the object all the same.
Put(b) ==
  LET n == upload[b].stored + 1
      last == n = Len(Files[b]) IN
  /\ upload[b].pc = "put"
  /\ \/ /\ objects' = objects \cup {Files[b][n]}
        /\ upload' = [upload EXCEPT ![b].stored = n,
                                    ![b].pc = IF last THEN "insert" ELSE "put"]
        /\ allowed' = IF last /\ CanUpload(upload[b].user, b)
                      THEN allowed \cup {b} ELSE allowed
        /\ UNCHANGED leaky
     \/ /\ \/ objects' = objects /\ leaky' = leaky
           \/ objects' = objects \cup {Files[b][n]} /\ leaky' = leaky \cup {b}
        /\ upload' = CleanUpFor(b, "ErrInternal")
        /\ UNCHANGED allowed
  /\ UNCHANGED <<operators, agents, media, audit, removal, unsure>>

\* (fault) Each row is inserted on the pool, without the transaction.
InsertOutside(b) ==
  LET n == upload[b].at + 1 IN
  /\ upload[b].pc = "insert"
  /\ IF CanUpload(upload[b].user, b)
     THEN /\ media' = [media EXCEPT ![Files[b][n]] = "shown"]
          /\ upload' = [upload EXCEPT ![b].at = n,
               ![b].pc = IF n = Len(Files[b]) THEN "commit" ELSE "insert"]
     ELSE media' = media /\ upload' = CleanUpFor(b, "ErrNotFound")
  /\ UNCHANGED <<operators, agents, objects, audit, removal, allowed, unsure, leaky>>

\* (fault) CreateMedia, the statement without the authority predicate.
InsertUnchecked(b) ==
  LET n == upload[b].at + 1 IN
  /\ upload[b].pc = "insert"
  /\ upload' = [upload EXCEPT ![b].at = n,
       ![b].pc = IF n = Len(Files[b]) THEN "commit" ELSE "insert"]
  /\ UNCHANGED <<operators, agents, store, removal, allowed, unsure, leaky>>

\* CreateAuthorizedMedia; a lost authority or an error rolls back.
Insert(b) ==
  LET n == upload[b].at + 1 IN
  /\ upload[b].pc = "insert"
  /\ \/ /\ CanUpload(upload[b].user, b)
        /\ upload' = [upload EXCEPT ![b].at = n,
             ![b].pc = IF n = Len(Files[b]) THEN "commit" ELSE "insert"]
     \/ ~CanUpload(upload[b].user, b) /\ upload' = CleanUpFor(b, "ErrNotFound")
     \/ upload' = CleanUpFor(b, "ErrInternal")
  /\ UNCHANGED <<operators, agents, store, removal, allowed, unsure, leaky>>

Publish(b) == [k \in Keys |-> IF k \in KeysOf(b) THEN "shown" ELSE media[k]]

\* COMMIT: done, failed, or done with the acknowledgement lost.
CommitUpload(b) ==
  /\ upload[b].pc = "commit"
  /\ \/ /\ media' = Publish(b)
        /\ upload' = [upload EXCEPT ![b].pc = "created"]
        /\ UNCHANGED unsure
     \/ /\ upload' = CleanUpFor(b, "ErrInternal")
        /\ \/ media' = media /\ unsure' = unsure
           \/ media' = Publish(b) /\ unsure' = unsure \cup {b}
  /\ allowed' = allowed \ {b}
  /\ UNCHANGED <<operators, agents, objects, audit, removal, leaky>>

\* (fault) The loop leaves the last object.
CleanupShort(b) ==
  LET n == upload[b].at + 1 IN
  /\ upload[b].pc = "cleanup"
  /\ objects' = objects \ {Files[b][n]}
  /\ upload' = [upload EXCEPT ![b].at = n,
       ![b].pc = IF n + 1 >= upload[b].stored THEN upload[b].answer ELSE "cleanup"]
  /\ UNCHANGED <<operators, agents, media, audit, removal, allowed, unsure, leaky>>

\* cleanupMediaObjects: a deletion that fails is logged and never repeated.
Cleanup(b) ==
  LET n == upload[b].at + 1 IN
  /\ upload[b].pc = "cleanup"
  /\ \/ objects' = objects \ {Files[b][n]} /\ leaky' = leaky
     \/ objects' = objects /\ leaky' = leaky \cup {b}
  /\ upload' = [upload EXCEPT ![b].at = n,
       ![b].pc = IF n = upload[b].stored THEN upload[b].answer ELSE "cleanup"]
  /\ UNCHANGED <<operators, agents, media, audit, removal, allowed, unsure>>

\* The server stops; nothing takes the request up again.
Crash(b) ==
  /\ upload[b].pc \in UploadSteps
  /\ upload' = [upload EXCEPT ![b].pc = "crashed"]
  /\ allowed' = allowed \ {b}
  /\ leaky' = leaky \cup {b}
  /\ UNCHANGED <<operators, agents, store, removal, unsure>>

\* deleteMedia: GetMediaForRemoval and the principal of the request.
StartRemoval(r, k, u) ==
  /\ removal[r] = NoRemoval
  /\ removal' = [removal EXCEPT ![r] =
       [key |-> k, user |-> u,
        pc |-> IF media[k] # "shown" THEN "ErrNotFound"
               ELSE IF CanRemove(u, k) THEN "begin" ELSE "forbidden"]]
  /\ UNCHANGED <<operators, agents, store, upload, allowed, unsure, leaky>>

GoTo(r, pc) == removal' = [removal EXCEPT ![r].pc = pc]
Leave(r, answer) == GoTo(r, answer) /\ allowed' = allowed \ {r}

BeginRemoval(r) ==
  /\ removal[r].pc = "begin"
  /\ GoTo(r, "find")
  /\ allowed' = IF CanRemove(removal[r].user, removal[r].key)
                THEN allowed \cup {r} ELSE allowed
  /\ UNCHANGED <<operators, agents, store, upload, unsure, leaky>>

\* RemoveMedia finds the row, with the roles of its snapshot ...
FindRow(r) ==
  /\ removal[r].pc = "find"
  /\ IF media[removal[r].key] = "shown" /\ CanRemove(removal[r].user, removal[r].key)
     THEN GoTo(r, "lock") /\ UNCHANGED allowed
     ELSE Leave(r, "ErrNotFound")
  /\ UNCHANGED <<operators, agents, store, upload, unsure, leaky>>

Locked(r, k) == removal[r].key = k /\ removal[r].pc \in {"writeAudit", "commit"}

\* (fault) The row is not looked at again after the wait.
LockRowUnchecked(r) ==
  /\ removal[r].pc = "lock"
  /\ \A q \in Removers \ {r} : ~Locked(q, removal[r].key)
  /\ GoTo(r, "writeAudit")
  /\ UNCHANGED <<operators, agents, store, upload, allowed, unsure, leaky>>

\* ... waits for another removal of it, and looks at removed_at again.
LockRow(r) ==
  /\ removal[r].pc = "lock"
  /\ \A q \in Removers \ {r} : ~Locked(q, removal[r].key)
  /\ IF media[removal[r].key] = "shown"
     THEN GoTo(r, "writeAudit") /\ UNCHANGED allowed
     ELSE Leave(r, "ErrNotFound")
  /\ UNCHANGED <<operators, agents, store, upload, unsure, leaky>>

\* CreateAuditEvent
WriteAudit(r) ==
  /\ removal[r].pc = "writeAudit"
  /\ GoTo(r, "commit")
  /\ UNCHANGED <<operators, agents, store, upload, allowed, unsure, leaky>>

\* (fault) The object goes with the row.
CommitAndDelete(r) ==
  /\ removal[r].pc = "commit"
  /\ Leave(r, "removed")
  /\ media' = [media EXCEPT ![removal[r].key] = "removed"]
  /\ audit' = [audit EXCEPT ![removal[r].key] = Append(@, removal[r].user)]
  /\ objects' = objects \ {removal[r].key}
  /\ UNCHANGED <<operators, agents, upload, unsure, leaky>>

\* COMMIT, whose acknowledgement can be lost.
CommitRemoval(r) ==
  /\ removal[r].pc = "commit"
  /\ \E answer \in {"removed", "ErrInternal"} : Leave(r, answer)
  /\ media' = [media EXCEPT ![removal[r].key] = "removed"]
  /\ audit' = [audit EXCEPT ![removal[r].key] = Append(@, removal[r].user)]
  /\ UNCHANGED <<operators, agents, objects, upload, unsure, leaky>>

\* queryTimeout, a lost connection or a crash.
InterruptRemoval(r) ==
  /\ removal[r].pc \in RemovalSteps
  /\ Leave(r, "ErrInternal")
  /\ UNCHANGED <<operators, agents, store, upload, unsure, leaky>>

ReturnRemoval(r) ==
  /\ removal[r].pc \in RemovalAnswers
  /\ removal' = [removal EXCEPT ![r] = NoRemoval]
  /\ UNCHANGED <<operators, agents, store, upload, allowed, unsure, leaky>>

\* Roles and agents change, and with them who is allowed what.
ChangeAuthority(u) ==
  /\ \/ operators' \in {operators \cup {u}, operators \ {u}} /\ agents' = agents
     \/ agents' \in {agents \cup {u}, agents \ {u}} /\ operators' = operators
  /\ UNCHANGED <<store, upload, removal, unsure, leaky>>
  /\ allowed' = allowed
       \cup {b \in Uploads : /\ upload[b].pc \in {"insert", "commit"}
                             /\ CanUpload(upload[b].user, b)'}
       \cup {r \in Removers : /\ removal[r].pc \in RemovalSteps \ {"begin"}
                              /\ CanRemove(removal[r].user, removal[r].key)'}

Next ==
  \/ \E b \in Uploads : \/ \E u \in Users : StartUpload(b, u)
                        \/ Put(b) \/ Insert(b) \/ CommitUpload(b)
                        \/ Cleanup(b) \/ Crash(b)
  \/ \E r \in Removers : \/ \E k \in Made, u \in Users : StartRemoval(r, k, u)
                         \/ BeginRemoval(r) \/ FindRow(r) \/ LockRow(r)
                         \/ WriteAudit(r) \/ CommitRemoval(r)
                         \/ InterruptRemoval(r) \/ ReturnRemoval(r)
  \/ \E u \in Users : ChangeAuthority(u)

Spec == Init /\ [][Next]_vars
-----------------------------------------------------------------------------
TypeOK ==
  /\ operators \subseteq Users /\ agents \subseteq Users
  /\ objects \subseteq Made
  /\ media \in [Keys -> RowStates]
  /\ audit \in [Keys -> Seq(Users)]
  /\ upload \in [Uploads -> UploadState]
  /\ removal \in [Removers -> RemovalState]
  /\ allowed \subseteq Uploads \cup Removers
  /\ unsure \subseteq Uploads /\ leaky \subseteq Uploads
  /\ \A b \in Uploads : upload[b].at <= upload[b].stored
                     /\ upload[b].stored <= Len(Files[b])

Ended(b) == upload[b].pc \in UploadAnswers

\* An upload answered with success has all its rows, in spite of authority
\* lost half-way; any other leaves no row, unless its COMMIT was unsure.
BatchesWhole ==
  \A b \in Uploads :
    /\ upload[b].pc = "created" => \A k \in KeysOf(b) : media[k] # "none"
    /\ Ended(b) /\ upload[b].pc # "created" /\ b \notin unsure =>
         \A k \in KeysOf(b) : media[k] = "none"

\* An upload that has ended leaves no object without a row, unless it crashed
\* or a call to the store failed.
NoOrphans ==
  \A b \in Uploads : Ended(b) /\ b \notin leaky =>
    \A k \in KeysOf(b) \cap objects : media[k] # "none"

\* The object of a row, shown or removed, is never deleted, unless the COMMIT
\* of its upload was unsure: then the cleanup leaves rows without objects.
RowsHaveObjects ==
  \A k \in Made : media[k] # "none" /\ UploadOf(k) \notin unsure => k \in objects

\* Removals that race for a row remove it once, with one audit event.
RemovedOnce ==
  \A k \in Keys : Len(audit[k]) = IF media[k] = "removed" THEN 1 ELSE 0

\* What is known of an upload: how far it is, ...
PlaceOK(b) ==
  /\ upload[b].pc # "idle" => upload[b].user \in Users
  /\ upload[b].pc \in {"idle", "forbidden"} => upload[b].stored = 0
  /\ upload[b].pc = "put" => upload[b].stored < Len(Files[b])
  /\ upload[b].pc \in {"insert", "commit", "created"} => upload[b].stored = Len(Files[b])
  /\ upload[b].pc = "insert" => upload[b].at < Len(Files[b])
  /\ upload[b].pc = "cleanup" => /\ upload[b].at < upload[b].stored
                                /\ upload[b].answer \in {"ErrNotFound", "ErrInternal"}

\* ... that it has all of its rows or none, ...
RowsOK(b) ==
  /\ upload[b].pc = "created" => \A k \in KeysOf(b) : media[k] # "none"
  /\ upload[b].pc # "created" /\ b \notin unsure => \A k \in KeysOf(b) : media[k] = "none"
  /\ b \in unsure => upload[b].pc = "cleanup" \/ (Ended(b) /\ upload[b].pc # "created")

\* ... which of its objects are there, and whether it may commit.
ObjectsOK(b) ==
  /\ upload[b].pc \in {"put", "insert", "commit", "created"} =>
       \A i \in 1..upload[b].stored : Files[b][i] \in objects
  /\ b \notin leaky =>
       \A i \in 1..Len(Files[b]) : Files[b][i] \in objects =>
         /\ i <= upload[b].stored
         /\ upload[b].pc = "cleanup" => i > upload[b].at
         /\ Ended(b) => upload[b].pc = "created"
ScopeOK(b) ==
  /\ upload[b].pc \in {"insert", "commit"} /\ CanUpload(upload[b].user, b) => b \in allowed
  /\ upload[b].pc = "commit" => b \in allowed

\* A removal is of a row that exists, and still is shown once it is locked.
RemovalOK(r) ==
  /\ removal[r].pc \in RemovalSteps =>
       /\ removal[r].key \in Made /\ removal[r].user \in Users
       /\ media[removal[r].key] # "none"
  /\ removal[r].pc \in {"find", "lock", "writeAudit", "commit"}
       /\ CanRemove(removal[r].user, removal[r].key) => r \in allowed
  /\ removal[r].pc \in {"lock", "writeAudit", "commit"} => r \in allowed
  /\ removal[r].pc \in {"writeAudit", "commit"} => media[removal[r].key] = "shown"

\* Removals that race for a row remove it once; with what the requests rely on,
\* enough to be preserved by every step.
MediaInv ==
  /\ TypeOK /\ RemovedOnce
  /\ \A b \in Uploads : PlaceOK(b) /\ RowsOK(b) /\ ObjectsOK(b) /\ ScopeOK(b)
  /\ \A r \in Removers : RemovalOK(r)
  /\ \A r, q \in Removers, k \in Made : r # q => ~(Locked(r, k) /\ Locked(q, k))

\* Rows appear and go only for a user that had the authority after the files
\* were stored, or after the removal had been admitted: losing it in between
\* is enough to be refused.
WritesInScope ==
  [][/\ \A b \in Uploads : CommitUpload(b) /\ media' # media => b \in allowed
     /\ \A r \in Removers : CommitRemoval(r) => r \in allowed]_vars
=============================================================================
