-------------------------- MODULE MediaUploadProofs --------------------------
(***************************************************************************)
(* Proofs about MediaUpload, for every set of users, uploads, files and    *)
(* removals.                                                               *)
(***************************************************************************)
EXTENDS MediaUpload, TLAPS

USE UserAssumption, RequestAssumption

\* Every key belongs to one file of one upload.
LEMMA FilesType ==
  ASSUME NEW b \in Uploads
  PROVE  /\ Files[b] \in Seq(Keys) /\ Len(Files[b]) \in Nat \ {0}
         /\ DOMAIN Files[b] = 1..Len(Files[b])
<1>1. Files[b] \in Seq(Keys) /\ Files[b] # <<>>
  BY FileAssumption
<1> QED
  BY <1>1

LEMMA OneFile ==
  ASSUME NEW b \in Uploads, NEW c \in Uploads,
         NEW i \in 1..Len(Files[b]), NEW j \in 1..Len(Files[c]), Files[b][i] = Files[c][j]
  PROVE  b = c /\ i = j
BY FileAssumption, FilesType

LEMMA ItsKeys ==
  ASSUME NEW b \in Uploads
  PROVE  /\ \A i \in 1..Len(Files[b]) : Files[b][i] \in KeysOf(b)
         /\ \A k \in KeysOf(b) : /\ k \in Made /\ k \in Keys
                                 /\ \E i \in 1..Len(Files[b]) : k = Files[b][i]
BY FilesType DEF KeysOf, Made

LEMMA Disjoint ==
  ASSUME NEW b \in Uploads, NEW c \in Uploads, b # c, NEW k \in KeysOf(b)
  PROVE  k \notin KeysOf(c)
BY ItsKeys, OneFile

LEMMA MadeBy ==
  ASSUME NEW k \in Made
  PROVE  k \in Keys /\ UploadOf(k) \in Uploads /\ k \in KeysOf(UploadOf(k))
<1>1. \E b \in Uploads : \E i \in DOMAIN Files[b] : Files[b][i] = k
  BY DEF Made
<1> QED
  BY <1>1 DEF Made, UploadOf, KeysOf

LEMMA NoUploadType ==
  /\ NoUpload \in UploadState /\ NoUpload.pc = "idle" /\ NoUpload.stored = 0
  /\ NoUpload.at = 0 /\ NoUpload.user = None
BY DEF NoUpload, UploadState

LEMMA NoRemovalType ==
  NoRemoval \in RemovalState /\ NoRemoval.pc = "idle" /\ NoRemoval.key = None
BY DEF NoRemoval, RemovalState

-----------------------------------------------------------------------------
LEMMA InitInv == Init => MediaInv
<1> SUFFICES ASSUME Init PROVE MediaInv
  OBVIOUS
<1>1. TypeOK
  BY FilesType, NoUploadType, NoRemovalType DEF Init, TypeOK, RowStates
<1>2. RemovedOnce
  BY DEF Init, RemovedOnce
<1>3. ASSUME NEW b \in Uploads PROVE PlaceOK(b) /\ RowsOK(b) /\ ObjectsOK(b) /\ ScopeOK(b)
  <2>1. upload[b] = NoUpload /\ media = [k \in Keys |-> "none"] /\ objects = {} /\ unsure = {}
    BY DEF Init
  <2>2. PlaceOK(b) /\ ScopeOK(b)
    BY <2>1, NoUploadType DEF PlaceOK, ScopeOK
  <2>3. RowsOK(b)
    BY <2>1, NoUploadType, ItsKeys DEF RowsOK
  <2>4. ObjectsOK(b)
    BY <2>1, NoUploadType DEF ObjectsOK
  <2> QED
    BY <2>2, <2>3, <2>4
<1>4. \A r \in Removers : removal[r].pc = "idle"
  BY NoRemovalType DEF Init
<1> QED
  BY <1>1, <1>2, <1>3, <1>4 DEF MediaInv, RemovalOK, RemovalSteps, Locked

\* What is left to show of a step of upload b, which may only make rows of its
\* own and create or delete objects of its own.
LEMMA UploadFrame ==
  ASSUME MediaInv, NEW b \in Uploads, NEW w \in UploadState,
         upload' = [upload EXCEPT ![b] = w], w.at <= w.stored, w.stored <= Len(Files[b]),
         UNCHANGED <<operators, agents, audit, removal>>,
         media' \in [Keys -> RowStates],
         \A k \in Keys : \/ media'[k] = media[k]
                         \/ k \in KeysOf(b) /\ media[k] = "none" /\ media'[k] = "shown",
         objects' \subseteq objects \cup KeysOf(b), objects \subseteq objects' \cup KeysOf(b),
         allowed' \subseteq allowed \cup {b}, allowed \subseteq allowed' \cup {b},
         unsure' \in {unsure, unsure \cup {b}}, leaky' \in {leaky, leaky \cup {b}},
         PlaceOK(b)', RowsOK(b)', ObjectsOK(b)', ScopeOK(b)'
  PROVE  MediaInv'
<1>1. TypeOK /\ upload'[b] = w /\ \A c \in Uploads \ {b} : upload'[c] = upload[c]
  BY DEF MediaInv, TypeOK
<1>2. TypeOK'
  <2>1. objects' \subseteq Made
    BY <1>1, ItsKeys DEF TypeOK
  <2>2. \A c \in Uploads : upload'[c].at <= upload'[c].stored
                        /\ upload'[c].stored <= Len(Files[c])
    BY <1>1 DEF TypeOK
  <2>3. upload' \in [Uploads -> UploadState]
    BY <1>1 DEF TypeOK
  <2> QED
    BY <1>1, <2>1, <2>2, <2>3 DEF TypeOK
<1>3. RemovedOnce'
  BY DEF MediaInv, RemovedOnce
<1>4. ASSUME NEW c \in Uploads PROVE PlaceOK(c)' /\ RowsOK(c)' /\ ObjectsOK(c)' /\ ScopeOK(c)'
  <2>1. CASE c = b
    BY <2>1
  <2>2. CASE c # b
    <3>1. PlaceOK(c) /\ RowsOK(c) /\ ObjectsOK(c) /\ ScopeOK(c) /\ upload'[c] = upload[c]
      BY <1>1, <2>2 DEF MediaInv
    <3>2. \A k \in KeysOf(c) : k \in Keys /\ k \notin KeysOf(b)
      BY <2>2, Disjoint, ItsKeys
    <3>3. (c \in unsure' <=> c \in unsure) /\ (c \in leaky' <=> c \in leaky)
          /\ (c \in allowed' <=> c \in allowed)
      BY <2>2
    <3>4. PlaceOK(c)'
      BY <3>1 DEF PlaceOK
    <3>5. RowsOK(c)'
      BY <3>1, <3>2, <3>3 DEF RowsOK, Ended
    <3>6. \A i \in 1..Len(Files[c]) : Files[c][i] \in objects' <=> Files[c][i] \in objects
      BY <3>2, ItsKeys
    <3>7. upload[c].stored <= Len(Files[c]) /\ upload[c].stored \in Nat /\ Len(Files[c]) \in Nat
      BY <1>1, FilesType DEF TypeOK, UploadState
    <3>8. ObjectsOK(c)'
      BY <3>1, <3>3, <3>6, <3>7 DEF ObjectsOK, Ended
    <3>9. ScopeOK(c)'
      BY <3>1, <3>3 DEF ScopeOK, CanUpload
    <3> QED
      BY <3>4, <3>5, <3>8, <3>9
  <2> QED
    BY <2>1, <2>2
<1>5. ASSUME NEW r \in Removers PROVE RemovalOK(r)'
  <2>1. RemovalOK(r) /\ r # b
    BY DEF MediaInv
  <2>2. removal[r].pc \in RemovalSteps => removal[r].key \in Keys
    BY <2>1, MadeBy DEF RemovalOK
  <2>3. r \in allowed => r \in allowed'
    BY <2>1
  <2> QED
    BY <2>1, <2>2, <2>3 DEF RemovalOK, RemovalSteps, CanRemove
<1>6. \A r, q \in Removers, k \in Made : r # q => ~(Locked(r, k)' /\ Locked(q, k)')
  BY DEF MediaInv, Locked
<1> QED
  BY <1>2, <1>3, <1>4, <1>5, <1>6 DEF MediaInv

\* The same of a step of removal r, which removes no row but the one it holds.
LEMMA RemovalFrame ==
  ASSUME MediaInv, NEW r \in Removers, NEW w \in RemovalState,
         removal' = [removal EXCEPT ![r] = w],
         UNCHANGED <<operators, agents, objects, upload, unsure, leaky>>,
         media' \in [Keys -> RowStates], audit' \in [Keys -> Seq(Users)],
         \A k \in Keys : \/ media'[k] = media[k]
                         \/ Locked(r, k) /\ media[k] # "none" /\ media'[k] # "none",
         allowed' \subseteq allowed \cup {r}, allowed \subseteq allowed' \cup {r},
         RemovedOnce', RemovalOK(r)',
         w.pc \in {"writeAudit", "commit"} =>
           \A q \in Removers \ {r} : ~Locked(q, w.key)
  PROVE  MediaInv'
<1>1. /\ TypeOK /\ removal'[r] = w /\ \A q \in Removers \ {r} : removal'[q] = removal[q]
      /\ RemovalOK(r)
  BY DEF MediaInv, TypeOK
<1>2. TypeOK'
  BY <1>1 DEF TypeOK
<1>3. ASSUME NEW b \in Uploads PROVE PlaceOK(b)' /\ RowsOK(b)' /\ ObjectsOK(b)' /\ ScopeOK(b)'
  <2>1. PlaceOK(b) /\ RowsOK(b) /\ ObjectsOK(b) /\ ScopeOK(b) /\ b # r
    BY DEF MediaInv
  <2>2. \A k \in KeysOf(b) : k \in Keys /\ (media'[k] = "none" <=> media[k] = "none")
    BY ItsKeys
  <2>3. PlaceOK(b)'
    BY <2>1 DEF PlaceOK
  <2>4. RowsOK(b)'
    BY <2>1, <2>2 DEF RowsOK, Ended
  <2>5. ObjectsOK(b)'
    BY <2>1 DEF ObjectsOK, Ended
  <2>6. ScopeOK(b)'
    BY <2>1 DEF ScopeOK, CanUpload
  <2> QED
    BY <2>3, <2>4, <2>5, <2>6
<1>4. ASSUME NEW q \in Removers PROVE RemovalOK(q)'
  <2>1. CASE q = r
    BY <2>1
  <2>2. CASE q # r
    <3>1. RemovalOK(q) /\ removal'[q] = removal[q] /\ (q \in allowed => q \in allowed')
      BY <1>1, <2>2 DEF MediaInv
    <3>2. removal[q].pc \in RemovalSteps =>
            /\ removal[q].key \in Keys
            /\ media'[removal[q].key] # "none"
      BY <3>1, MadeBy DEF RemovalOK
    <3>3. removal[q].pc \in {"writeAudit", "commit"} => media'[removal[q].key] = "shown"
      <4> SUFFICES ASSUME removal[q].pc \in {"writeAudit", "commit"}
                   PROVE  media'[removal[q].key] = "shown"
        OBVIOUS
      <4>1. removal[q].key \in Made /\ Locked(q, removal[q].key)
        BY <3>1 DEF RemovalOK, RemovalSteps, Locked
      <4>2. ~Locked(r, removal[q].key)
        BY <2>2, <4>1 DEF MediaInv
      <4> QED
        BY <3>1, <4>1, <4>2, MadeBy DEF RemovalOK
    <3> QED
      BY <3>1, <3>2, <3>3 DEF RemovalOK, CanRemove
  <2> QED
    BY <2>1, <2>2
<1>5. ASSUME NEW p \in Removers, NEW q \in Removers, NEW k \in Made, p # q
      PROVE  ~(Locked(p, k)' /\ Locked(q, k)')
  <2>1. CASE p # r /\ q # r
    BY <1>1, <1>5, <2>1 DEF MediaInv, Locked
  <2>2. CASE p = r
    BY <1>1, <1>5, <2>2 DEF Locked
  <2>3. CASE q = r
    BY <1>1, <1>5, <2>3 DEF Locked
  <2> QED
    BY <2>1, <2>2, <2>3
<1> QED
  BY <1>2, <1>3, <1>4, <1>5 DEF MediaInv

-----------------------------------------------------------------------------
\* The steps of an upload.

LEMMA StartUploadInv ==
  ASSUME MediaInv, NEW b \in Uploads, NEW u \in Users, StartUpload(b, u)
  PROVE  MediaInv'
<1> DEFINE w == [NoUpload EXCEPT !.user = u,
                                 !.pc = IF CanUpload(u, b) THEN "put" ELSE "forbidden"]
<1>1. /\ w \in UploadState /\ w.user = u /\ w.pc \in {"put", "forbidden"}
      /\ w.stored = 0 /\ w.at = 0
  BY NoUploadType DEF UploadState, UploadSteps, UploadAnswers
<1>2. /\ upload' = [upload EXCEPT ![b] = w]
      /\ UNCHANGED <<operators, agents, store, removal, allowed, unsure, leaky>>
  BY DEF StartUpload
<1> HIDE DEF w
<1>3. /\ TypeOK /\ RowsOK(b) /\ ObjectsOK(b) /\ upload'[b] = w
      /\ upload[b].pc = "idle" /\ upload[b].stored = 0
  BY <1>2, NoUploadType DEF MediaInv, TypeOK, StartUpload
<1>4. Len(Files[b]) \in Nat \ {0}
  BY FilesType
<1>5. PlaceOK(b)'
  BY <1>1, <1>3, <1>4 DEF PlaceOK
<1>6. RowsOK(b)'
  BY <1>1, <1>2, <1>3 DEF RowsOK, store, Ended, UploadAnswers
<1>7. ObjectsOK(b)'
  BY <1>1, <1>2, <1>3, <1>4 DEF ObjectsOK, store, Ended
<1>8. ScopeOK(b)'
  BY <1>1, <1>3 DEF ScopeOK
<1>9. media' \in [Keys -> RowStates] /\ w.at <= w.stored /\ w.stored <= Len(Files[b])
  BY <1>1, <1>2, <1>3, <1>4 DEF TypeOK, store
<1> QED
  BY <1>1, <1>2, <1>5, <1>6, <1>7, <1>8, <1>9, UploadFrame DEF store

\* A step that gives up, when the batch has no row yet: what may be there is
\* what was stored, and what the step itself left behind.
LEMMA CleanUpInv ==
  ASSUME MediaInv, NEW b \in Uploads, upload[b].pc \in {"put", "insert", "commit"},
         NEW answer \in {"ErrNotFound", "ErrInternal"}, upload' = CleanUpFor(b, answer),
         UNCHANGED <<operators, agents, audit, removal>>,
         \/ objects' = objects /\ leaky' = leaky
         \/ objects \subseteq objects' /\ objects' \subseteq objects \cup KeysOf(b)
              /\ leaky' = leaky \cup {b},
         \/ media' = media /\ unsure' = unsure
         \/ media' = Publish(b) /\ unsure' = unsure \cup {b},
         allowed' \in {allowed, allowed \ {b}}
  PROVE  MediaInv'
<1> DEFINE pc == IF upload[b].stored = 0 THEN answer ELSE "cleanup"
           w == [upload[b] EXCEPT !.pc = pc, !.at = 0, !.answer = answer]
<1>1. /\ TypeOK /\ PlaceOK(b) /\ RowsOK(b) /\ ObjectsOK(b) /\ upload[b] \in UploadState
      /\ upload[b].stored \in Nat /\ upload[b].stored <= Len(Files[b]) /\ Len(Files[b]) \in Nat
  BY FilesType DEF MediaInv, TypeOK, UploadState
<1>2. pc \in {"cleanup", "ErrNotFound", "ErrInternal"} /\ (pc = "cleanup" <=> upload[b].stored # 0)
  OBVIOUS
<1>3. pc \in UploadSteps \cup UploadAnswers /\ answer \in UploadAnswers
  BY DEF UploadSteps, UploadAnswers
<1>4. /\ w \in UploadState /\ w.pc = pc /\ w.at = 0 /\ w.answer = answer
      /\ w.stored = upload[b].stored /\ w.user = upload[b].user
  BY <1>1, <1>3 DEF UploadState
<1>5. upload' = [upload EXCEPT ![b] = w]
  BY <1>1 DEF CleanUpFor, TypeOK
<1> HIDE DEF w, pc
<1>6. upload'[b] = w
  BY <1>1, <1>5 DEF TypeOK
<1>7. \A k \in Keys : \/ media'[k] = media[k]
                      \/ k \in KeysOf(b) /\ media[k] = "none" /\ media'[k] = "shown"
  <2>1. b \notin unsure
    BY <1>1 DEF RowsOK, Ended, UploadAnswers
  <2> QED
    BY <1>1, <2>1 DEF RowsOK, Publish
<1>8. media' \in [Keys -> RowStates]
  BY <1>1 DEF TypeOK, Publish, RowStates
<1>9. PlaceOK(b)'
  BY <1>1, <1>2, <1>4, <1>6 DEF PlaceOK
<1>10. RowsOK(b)'
  BY <1>1, <1>2, <1>3, <1>4, <1>6 DEF RowsOK, Ended, UploadAnswers
<1>11. ObjectsOK(b)'
  <2>1. b \notin leaky' => objects' = objects /\ b \notin leaky
    OBVIOUS
  <2>2. Ended(b)' => upload[b].stored = 0
    BY <1>2, <1>4, <1>6 DEF Ended, UploadAnswers
  <2> QED
    BY <1>1, <1>2, <1>4, <1>6, <2>1, <2>2 DEF ObjectsOK
<1>12. ScopeOK(b)'
  BY <1>2, <1>4, <1>6 DEF ScopeOK
<1>13. w.at <= w.stored /\ w.stored <= Len(Files[b])
  BY <1>1, <1>4
<1>14. unsure' \in {unsure, unsure \cup {b}} /\ leaky' \in {leaky, leaky \cup {b}}
  OBVIOUS
<1>15. objects' \subseteq objects \cup KeysOf(b) /\ objects \subseteq objects' \cup KeysOf(b)
  OBVIOUS
<1>16. allowed' \subseteq allowed \cup {b} /\ allowed \subseteq allowed' \cup {b}
  OBVIOUS
<1> QED
  BY <1>4, <1>5, <1>7, <1>8, <1>9, <1>10, <1>11, <1>12, <1>13, <1>14, <1>15, <1>16, UploadFrame

LEMMA PutInv ==
  ASSUME MediaInv, NEW b \in Uploads, Put(b)
  PROVE  MediaInv'
<1> DEFINE n == upload[b].stored + 1
<1>1. /\ TypeOK /\ PlaceOK(b) /\ RowsOK(b) /\ ObjectsOK(b) /\ upload[b] \in UploadState
      /\ upload[b].stored \in Nat /\ upload[b].at \in Nat /\ upload[b].at <= upload[b].stored
      /\ Len(Files[b]) \in Nat
  BY FilesType DEF MediaInv, TypeOK, UploadState
<1>2. upload[b].pc = "put" /\ upload[b].stored < Len(Files[b])
  BY <1>1 DEF Put, PlaceOK
<1>3. n \in 1..Len(Files[b]) /\ Files[b][n] \in KeysOf(b)
  BY <1>1, <1>2, ItsKeys
<1>4. ASSUME \/ objects' = objects /\ leaky' = leaky
             \/ objects' = objects \cup {Files[b][n]} /\ leaky' = leaky \cup {b},
             upload' = CleanUpFor(b, "ErrInternal"), UNCHANGED allowed
      PROVE  MediaInv'
  BY <1>2, <1>3, <1>4, CleanUpInv DEF Put
<1>5. ASSUME objects' = objects \cup {Files[b][n]},
             upload' = [upload EXCEPT ![b].stored = n,
                          ![b].pc = IF n = Len(Files[b]) THEN "insert" ELSE "put"],
             allowed' = IF n = Len(Files[b]) /\ CanUpload(upload[b].user, b)
                        THEN allowed \cup {b} ELSE allowed,
             UNCHANGED leaky
      PROVE  MediaInv'
  <2> DEFINE pc == IF n = Len(Files[b]) THEN "insert" ELSE "put"
             w == [upload[b] EXCEPT !.stored = n, !.pc = pc]
  <2>1. pc \in UploadSteps
    BY DEF UploadSteps
  <2>2. /\ w \in UploadState /\ w.pc = pc /\ w.stored = n /\ w.at = upload[b].at
        /\ w.user = upload[b].user
    <3>1. n \in Nat
      BY <1>1
    <3> HIDE DEF n, pc
    <3> QED
      BY <1>1, <2>1, <3>1 DEF UploadState
  <2>3. upload' = [upload EXCEPT ![b] = w]
    BY <1>1, <1>5 DEF TypeOK
  <2>4. /\ pc = "insert" <=> n = Len(Files[b])
        /\ pc \in {"put", "insert"}
    OBVIOUS
  <2> HIDE DEF w, pc
  <2>5. upload'[b] = w /\ UNCHANGED <<operators, agents, media, audit, removal, unsure>>
    BY <1>1, <2>3 DEF TypeOK, Put
  <2>6. PlaceOK(b)'
    BY <1>1, <1>2, <1>3, <2>2, <2>4, <2>5 DEF PlaceOK
  <2>7. RowsOK(b)'
    BY <1>1, <1>2, <2>2, <2>4, <2>5 DEF RowsOK, Ended, UploadAnswers
  <2>8. ObjectsOK(b)'
    <3>1. \A i \in 1..Len(Files[b]) : Files[b][i] = Files[b][n] => i = n
      BY <1>3, OneFile
    <3>2. \A i \in 1..n : Files[b][i] \in objects'
      <4>1. \A i \in 1..n : i \in 1..upload[b].stored \/ i = n
        BY <1>1
      <4> QED
        BY <1>1, <1>2, <1>5, <4>1 DEF ObjectsOK
    <3>3. ~Ended(b)'
      BY <2>2, <2>4, <2>5 DEF Ended, UploadAnswers
    <3>4. ASSUME b \notin leaky, NEW i \in 1..Len(Files[b]), Files[b][i] \in objects'
          PROVE  i <= n
      <4>1. i <= upload[b].stored \/ i = n
        BY <1>1, <1>5, <3>1, <3>4 DEF ObjectsOK
      <4> QED
        BY <1>1, <4>1
    <3> HIDE DEF n
    <3> QED
      BY <1>5, <2>2, <2>4, <2>5, <3>2, <3>3, <3>4 DEF ObjectsOK
  <2>9. ScopeOK(b)'
    BY <1>5, <2>2, <2>4, <2>5 DEF ScopeOK, CanUpload
  <2>10. w.at <= w.stored /\ w.stored <= Len(Files[b])
    BY <1>1, <1>3, <2>2
  <2>11. media' \in [Keys -> RowStates]
    BY <1>1, <2>5 DEF TypeOK
  <2> QED
    BY <1>3, <1>5, <2>2, <2>3, <2>5, <2>6, <2>7, <2>8, <2>9, <2>10, <2>11, UploadFrame
<1> QED
  BY <1>4, <1>5 DEF Put

\* An insertion, after which the rows are there for the transaction alone.
LEMMA InsertInv ==
  ASSUME MediaInv, NEW b \in Uploads, Insert(b)
  PROVE  MediaInv'
<1> DEFINE n == upload[b].at + 1
<1>1. /\ TypeOK /\ PlaceOK(b) /\ RowsOK(b) /\ ObjectsOK(b) /\ ScopeOK(b)
      /\ upload[b] \in UploadState /\ upload[b].stored \in Nat /\ upload[b].at \in Nat
      /\ Len(Files[b]) \in Nat
  BY FilesType DEF MediaInv, TypeOK, UploadState
<1>2. /\ upload[b].pc = "insert" /\ upload[b].at < Len(Files[b])
      /\ upload[b].stored = Len(Files[b])
      /\ UNCHANGED <<operators, agents, store, removal, allowed, unsure, leaky>>
  BY <1>1 DEF Insert, PlaceOK
<1>3. ASSUME NEW answer \in {"ErrNotFound", "ErrInternal"}, upload' = CleanUpFor(b, answer)
      PROVE  MediaInv'
  BY <1>2, <1>3, CleanUpInv DEF store
<1>4. ASSUME CanUpload(upload[b].user, b),
             upload' = [upload EXCEPT ![b].at = n,
               ![b].pc = IF n = Len(Files[b]) THEN "commit" ELSE "insert"]
      PROVE  MediaInv'
  <2> DEFINE pc == IF n = Len(Files[b]) THEN "commit" ELSE "insert"
             w == [upload[b] EXCEPT !.at = n, !.pc = pc]
  <2>1. pc \in UploadSteps
    BY DEF UploadSteps
  <2>2. /\ w \in UploadState /\ w.pc = pc /\ w.stored = upload[b].stored /\ w.at = n
        /\ w.user = upload[b].user
    <3>1. n \in Nat
      BY <1>1
    <3> HIDE DEF n, pc
    <3> QED
      BY <1>1, <2>1, <3>1 DEF UploadState
  <2>3. upload' = [upload EXCEPT ![b] = w]
    BY <1>1, <1>4 DEF TypeOK
  <2>4. /\ pc = "commit" <=> n = Len(Files[b])
        /\ pc \in {"commit", "insert"}
    OBVIOUS
  <2> HIDE DEF w, pc
  <2>5. upload'[b] = w
    BY <1>1, <2>3 DEF TypeOK
  <2>6. PlaceOK(b)'
    BY <1>1, <1>2, <2>2, <2>4, <2>5 DEF PlaceOK
  <2>7. RowsOK(b)'
    BY <1>1, <1>2, <2>2, <2>4, <2>5 DEF RowsOK, Ended, UploadAnswers, store
  <2>8. ObjectsOK(b)'
    <3>1. ~Ended(b)'
      BY <2>2, <2>4, <2>5 DEF Ended, UploadAnswers
    <3> QED
      BY <1>1, <1>2, <2>2, <2>4, <2>5, <3>1 DEF ObjectsOK, store
  <2>9. ScopeOK(b)'
    BY <1>1, <1>2, <1>4, <2>2, <2>4, <2>5 DEF ScopeOK, CanUpload
  <2>10. w.at <= w.stored /\ w.stored <= Len(Files[b])
    BY <1>1, <1>2, <2>2
  <2>11. media' \in [Keys -> RowStates]
    BY <1>1, <1>2 DEF TypeOK, store
  <2> QED
    BY <1>2, <2>2, <2>3, <2>6, <2>7, <2>8, <2>9, <2>10, <2>11, UploadFrame DEF store
<1> QED
  BY <1>3, <1>4 DEF Insert

\* A COMMIT that is acknowledged has made all rows of the batch.
LEMMA CommitUploadInv ==
  ASSUME MediaInv, NEW b \in Uploads, CommitUpload(b)
  PROVE  MediaInv'
<1>1. /\ TypeOK /\ PlaceOK(b) /\ RowsOK(b) /\ ObjectsOK(b) /\ upload[b] \in UploadState
      /\ upload[b].stored \in Nat /\ upload[b].at \in Nat /\ Len(Files[b]) \in Nat
      /\ upload[b].at <= upload[b].stored
  BY FilesType DEF MediaInv, TypeOK, UploadState
<1>2. /\ upload[b].pc = "commit" /\ upload[b].stored = Len(Files[b])
      /\ UNCHANGED <<operators, agents, objects, audit, removal, leaky>>
      /\ allowed' = allowed \ {b}
  BY <1>1 DEF CommitUpload, PlaceOK
<1>3. ASSUME upload' = CleanUpFor(b, "ErrInternal"),
             \/ media' = media /\ unsure' = unsure
             \/ media' = Publish(b) /\ unsure' = unsure \cup {b}
      PROVE  MediaInv'
  BY <1>2, <1>3, CleanUpInv
<1>4. ASSUME media' = Publish(b), upload' = [upload EXCEPT ![b].pc = "created"],
             UNCHANGED unsure
      PROVE  MediaInv'
  <2> DEFINE w == [upload[b] EXCEPT !.pc = "created"]
  <2>1. /\ w \in UploadState /\ w.pc = "created" /\ w.stored = upload[b].stored
        /\ w.at = upload[b].at /\ w.user = upload[b].user
    BY <1>1 DEF UploadState, UploadAnswers
  <2>2. upload' = [upload EXCEPT ![b] = w]
    BY <1>4
  <2> HIDE DEF w
  <2>3. upload'[b] = w /\ b \notin unsure
    BY <1>1, <1>2, <2>2 DEF TypeOK, RowsOK, Ended, UploadAnswers
  <2>4. \A k \in Keys : \/ media'[k] = media[k]
                        \/ k \in KeysOf(b) /\ media[k] = "none" /\ media'[k] = "shown"
    BY <1>1, <1>2, <1>4, <2>3 DEF RowsOK, Publish
  <2>5. media' \in [Keys -> RowStates] /\ \A k \in KeysOf(b) : media'[k] = "shown"
    BY <1>1, <1>4, ItsKeys DEF TypeOK, Publish, RowStates
  <2>6. PlaceOK(b)' /\ ScopeOK(b)'
    BY <1>1, <1>2, <2>1, <2>3 DEF PlaceOK, ScopeOK
  <2>7. RowsOK(b)'
    BY <1>4, <2>1, <2>3, <2>5 DEF RowsOK
  <2>8. ObjectsOK(b)'
    BY <1>1, <1>2, <2>1, <2>3 DEF ObjectsOK
  <2>9. w.at <= w.stored /\ w.stored <= Len(Files[b])
    BY <1>1, <1>2, <2>1
  <2> QED
    BY <1>2, <1>4, <2>1, <2>2, <2>4, <2>5, <2>6, <2>7, <2>8, <2>9, UploadFrame
<1> QED
  BY <1>3, <1>4 DEF CommitUpload

\* The cleanup deletes the objects in the order they were stored.
LEMMA CleanupInv ==
  ASSUME MediaInv, NEW b \in Uploads, Cleanup(b)
  PROVE  MediaInv'
<1> DEFINE n == upload[b].at + 1
           pc == IF n = upload[b].stored THEN upload[b].answer ELSE "cleanup"
           w == [upload[b] EXCEPT !.at = n, !.pc = pc]
<1>1. /\ TypeOK /\ PlaceOK(b) /\ RowsOK(b) /\ ObjectsOK(b) /\ upload[b] \in UploadState
      /\ upload[b].stored \in Nat /\ upload[b].at \in Nat /\ Len(Files[b]) \in Nat
      /\ upload[b].stored <= Len(Files[b])
  BY FilesType DEF MediaInv, TypeOK, UploadState
<1>2. /\ upload[b].pc = "cleanup" /\ upload[b].at < upload[b].stored
      /\ upload[b].answer \in {"ErrNotFound", "ErrInternal"}
      /\ UNCHANGED <<operators, agents, media, audit, removal, allowed, unsure>>
  BY <1>1 DEF Cleanup, PlaceOK
<1>3. n \in 1..Len(Files[b]) /\ n <= upload[b].stored /\ Files[b][n] \in KeysOf(b)
  BY <1>1, <1>2, ItsKeys
<1>4. /\ pc \in {"cleanup", "ErrNotFound", "ErrInternal"}
      /\ pc = "cleanup" <=> n # upload[b].stored
  BY <1>2
<1>5. pc \in UploadSteps \cup UploadAnswers
  BY <1>4 DEF UploadSteps, UploadAnswers
<1>6. /\ w \in UploadState /\ w.pc = pc /\ w.at = n /\ w.answer = upload[b].answer
      /\ w.stored = upload[b].stored /\ w.user = upload[b].user
  <2>1. n \in Nat
    BY <1>1
  <2> HIDE DEF n, pc
  <2> QED
    BY <1>1, <1>5, <2>1 DEF UploadState
<1>7. upload' = [upload EXCEPT ![b] = w]
  BY <1>1 DEF Cleanup, TypeOK
<1>8. \/ objects' = objects \ {Files[b][n]} /\ leaky' = leaky
      \/ objects' = objects /\ leaky' = leaky \cup {b}
  BY DEF Cleanup
<1> HIDE DEF w, pc
<1>9. upload'[b] = w
  BY <1>1, <1>7 DEF TypeOK
<1>10. PlaceOK(b)'
  BY <1>1, <1>2, <1>3, <1>4, <1>6, <1>9 DEF PlaceOK
<1>11. RowsOK(b)'
  BY <1>1, <1>2, <1>4, <1>6, <1>9 DEF RowsOK, Ended, UploadAnswers
<1>12. ObjectsOK(b)'
  <2> SUFFICES ASSUME b \notin leaky', NEW i \in 1..Len(Files[b]), Files[b][i] \in objects'
               PROVE  /\ i <= upload[b].stored
                      /\ pc = "cleanup" => i > n
                      /\ pc # "cleanup" => FALSE
    BY <1>4, <1>6, <1>9 DEF ObjectsOK, Ended, UploadAnswers
  <2>1. b \notin leaky /\ objects' = objects \ {Files[b][n]}
    BY <1>8
  <2>2. i <= upload[b].stored /\ i > upload[b].at
    BY <1>1, <1>2, <2>1 DEF ObjectsOK
  <2>3. i # n
    BY <2>1
  <2> QED
    BY <1>1, <1>3, <1>4, <2>2, <2>3
<1>13. ScopeOK(b)'
  BY <1>4, <1>6, <1>9 DEF ScopeOK
<1>14. w.at <= w.stored /\ w.stored <= Len(Files[b])
  BY <1>1, <1>3, <1>6
<1>15. media' \in [Keys -> RowStates] /\ leaky' \in {leaky, leaky \cup {b}}
  BY <1>1, <1>2, <1>8 DEF TypeOK
<1>16. objects' \subseteq objects \cup KeysOf(b) /\ objects \subseteq objects' \cup KeysOf(b)
  BY <1>3, <1>8
<1> QED
  BY <1>2, <1>6, <1>7, <1>10, <1>11, <1>12, <1>13, <1>14, <1>15, <1>16, UploadFrame

LEMMA CrashInv ==
  ASSUME MediaInv, NEW b \in Uploads, Crash(b)
  PROVE  MediaInv'
<1> DEFINE w == [upload[b] EXCEPT !.pc = "crashed"]
<1>1. /\ TypeOK /\ PlaceOK(b) /\ RowsOK(b) /\ upload[b] \in UploadState
      /\ upload[b].at <= upload[b].stored /\ upload[b].stored <= Len(Files[b])
      /\ upload[b].pc \in UploadSteps
      /\ UNCHANGED <<operators, agents, store, removal, unsure>>
      /\ leaky' = leaky \cup {b} /\ allowed' = allowed \ {b}
  BY DEF MediaInv, TypeOK, Crash
<1>2. /\ w \in UploadState /\ w.pc = "crashed" /\ w.stored = upload[b].stored
      /\ w.at = upload[b].at /\ w.user = upload[b].user
  BY <1>1 DEF UploadState, UploadAnswers
<1>3. upload' = [upload EXCEPT ![b] = w]
  BY DEF Crash
<1> HIDE DEF w
<1>4. upload'[b] = w
  BY <1>1, <1>3 DEF TypeOK
<1>5. PlaceOK(b)' /\ ScopeOK(b)'
  BY <1>1, <1>2, <1>4 DEF PlaceOK, ScopeOK, UploadSteps
<1>6. RowsOK(b)'
  BY <1>1, <1>2, <1>4 DEF RowsOK, Ended, UploadAnswers, UploadSteps, store
<1>7. ObjectsOK(b)'
  BY <1>1, <1>2, <1>4 DEF ObjectsOK
<1>8. media' \in [Keys -> RowStates]
  BY <1>1 DEF TypeOK, store
<1> QED
  BY <1>1, <1>2, <1>3, <1>5, <1>6, <1>7, <1>8, UploadFrame DEF store

-----------------------------------------------------------------------------
\* The steps of a removal.

LEMMA StartRemovalInv ==
  ASSUME MediaInv, NEW r \in Removers, NEW k \in Made, NEW u \in Users, StartRemoval(r, k, u)
  PROVE  MediaInv'
<1> DEFINE pc == IF media[k] # "shown" THEN "ErrNotFound"
                 ELSE IF CanRemove(u, k) THEN "begin" ELSE "forbidden"
           w == [key |-> k, user |-> u, pc |-> pc]
<1>1. /\ pc \in {"ErrNotFound", "begin", "forbidden"}
      /\ pc = "begin" => media[k] = "shown"
  OBVIOUS
<1>2. /\ removal' = [removal EXCEPT ![r] = w]
      /\ UNCHANGED <<operators, agents, store, upload, allowed, unsure, leaky>>
  BY DEF StartRemoval
<1> HIDE DEF pc
<1>3. w \in RemovalState /\ w.pc = pc /\ w.key = k /\ w.user = u
  BY <1>1, MadeBy DEF RemovalState, RemovalSteps, RemovalAnswers
<1> HIDE DEF w
<1>4. TypeOK /\ RemovedOnce /\ removal'[r] = w
  BY <1>2 DEF MediaInv, TypeOK
<1>5. RemovalOK(r)'
  BY <1>1, <1>2, <1>3, <1>4 DEF RemovalOK, RemovalSteps, store
<1>6. RemovedOnce' /\ media' \in [Keys -> RowStates] /\ audit' \in [Keys -> Seq(Users)]
  BY <1>2, <1>4 DEF RemovedOnce, TypeOK, store
<1>7. w.pc \notin {"writeAudit", "commit"}
  BY <1>1, <1>3
<1> QED
  BY <1>2, <1>3, <1>5, <1>6, <1>7, RemovalFrame DEF store

\* A removal that goes to pc, and writes nothing.
LEMMA GoToInv ==
  ASSUME MediaInv, NEW r \in Removers, NEW pc \in RemovalSteps \cup RemovalAnswers,
         GoTo(r, pc), UNCHANGED <<operators, agents, store, upload, unsure, leaky>>,
         allowed' \subseteq allowed \cup {r}, allowed \subseteq allowed' \cup {r},
         pc \in RemovalSteps => removal[r].pc \in RemovalSteps,
         pc \in RemovalSteps /\ CanRemove(removal[r].user, removal[r].key) => r \in allowed',
         pc \in {"lock", "writeAudit", "commit"} => r \in allowed',
         pc \in {"writeAudit", "commit"} =>
           /\ media[removal[r].key] = "shown"
           /\ \A q \in Removers \ {r} : ~Locked(q, removal[r].key)
  PROVE  MediaInv'
<1> DEFINE w == [removal[r] EXCEPT !.pc = pc]
<1>1. TypeOK /\ RemovedOnce /\ RemovalOK(r) /\ removal[r] \in RemovalState
  BY DEF MediaInv, TypeOK
<1>2. w \in RemovalState /\ w.pc = pc /\ w.key = removal[r].key /\ w.user = removal[r].user
  BY <1>1 DEF RemovalState
<1>3. removal' = [removal EXCEPT ![r] = w]
  BY DEF GoTo
<1> HIDE DEF w
<1>4. removal'[r] = w
  BY <1>1, <1>3 DEF TypeOK
<1>5. RemovalOK(r)'
  BY <1>1, <1>2, <1>4 DEF RemovalOK, RemovalSteps, store, CanRemove
<1>6. RemovedOnce' /\ media' \in [Keys -> RowStates] /\ audit' \in [Keys -> Seq(Users)]
  BY <1>1 DEF RemovedOnce, TypeOK, store
<1>7. w.pc \in {"writeAudit", "commit"} => \A q \in Removers \ {r} : ~Locked(q, w.key)
  BY <1>2
<1> QED
  BY <1>2, <1>3, <1>5, <1>6, <1>7, RemovalFrame DEF store

LEMMA BeginRemovalInv ==
  ASSUME MediaInv, NEW r \in Removers, BeginRemoval(r)
  PROVE  MediaInv'
<1>1. /\ removal[r].pc = "begin" /\ GoTo(r, "find")
      /\ UNCHANGED <<operators, agents, store, upload, unsure, leaky>>
      /\ allowed' = IF CanRemove(removal[r].user, removal[r].key)
                    THEN allowed \cup {r} ELSE allowed
  BY DEF BeginRemoval
<1>2. removal[r].pc \in RemovalSteps /\ "find" \in RemovalSteps
  BY <1>1 DEF RemovalSteps
<1>3. allowed' \subseteq allowed \cup {r} /\ allowed \subseteq allowed' \cup {r}
  BY <1>1
<1> QED
  BY <1>1, <1>2, <1>3, GoToInv

LEMMA LeaveInv ==
  ASSUME MediaInv, NEW r \in Removers, NEW answer \in RemovalAnswers, Leave(r, answer),
         UNCHANGED <<operators, agents, store, upload, unsure, leaky>>
  PROVE  MediaInv'
<1>1. GoTo(r, answer) /\ allowed' = allowed \ {r}
  BY DEF Leave
<1>2. answer \notin RemovalSteps /\ answer \notin {"lock", "writeAudit", "commit"}
  BY DEF RemovalSteps, RemovalAnswers
<1>3. allowed' \subseteq allowed \cup {r} /\ allowed \subseteq allowed' \cup {r}
  BY <1>1
<1> QED
  BY <1>1, <1>2, <1>3, GoToInv

LEMMA FindRowInv ==
  ASSUME MediaInv, NEW r \in Removers, FindRow(r)
  PROVE  MediaInv'
<1>1. /\ removal[r].pc = "find" /\ RemovalOK(r)
      /\ UNCHANGED <<operators, agents, store, upload, unsure, leaky>>
  BY DEF FindRow, MediaInv
<1>2. CASE CanRemove(removal[r].user, removal[r].key) /\ GoTo(r, "lock") /\ UNCHANGED allowed
  <2>1. removal[r].pc \in RemovalSteps /\ "lock" \in RemovalSteps /\ r \in allowed'
    BY <1>1, <1>2 DEF RemovalSteps, RemovalOK
  <2>2. allowed' \subseteq allowed \cup {r} /\ allowed \subseteq allowed' \cup {r}
    BY <1>2
  <2> QED
    BY <1>1, <1>2, <2>1, <2>2, GoToInv
<1>3. CASE Leave(r, "ErrNotFound")
  BY <1>1, <1>3, LeaveInv DEF RemovalAnswers
<1> QED
  BY <1>2, <1>3 DEF FindRow

\* The row is locked once nobody else has it, and only if it still is shown.
LEMMA LockRowInv ==
  ASSUME MediaInv, NEW r \in Removers, LockRow(r)
  PROVE  MediaInv'
<1>1. /\ removal[r].pc = "lock" /\ RemovalOK(r)
      /\ UNCHANGED <<operators, agents, store, upload, unsure, leaky>>
      /\ \A q \in Removers \ {r} : ~Locked(q, removal[r].key)
  BY DEF LockRow, MediaInv
<1>2. CASE media[removal[r].key] = "shown" /\ GoTo(r, "writeAudit") /\ UNCHANGED allowed
  <2>1. removal[r].pc \in RemovalSteps /\ "writeAudit" \in RemovalSteps /\ r \in allowed'
    BY <1>1, <1>2 DEF RemovalSteps, RemovalOK
  <2>2. allowed' \subseteq allowed \cup {r} /\ allowed \subseteq allowed' \cup {r}
    BY <1>2
  <2> QED
    BY <1>1, <1>2, <2>1, <2>2, GoToInv
<1>3. CASE Leave(r, "ErrNotFound")
  BY <1>1, <1>3, LeaveInv DEF RemovalAnswers
<1> QED
  BY <1>2, <1>3 DEF LockRow

LEMMA WriteAuditInv ==
  ASSUME MediaInv, NEW r \in Removers, WriteAudit(r)
  PROVE  MediaInv'
<1>1. /\ removal[r].pc = "writeAudit" /\ RemovalOK(r) /\ GoTo(r, "commit")
      /\ UNCHANGED <<operators, agents, store, upload, allowed, unsure, leaky>>
  BY DEF WriteAudit, MediaInv
<1>2. /\ removal[r].pc \in RemovalSteps /\ "commit" \in RemovalSteps /\ r \in allowed'
      /\ media[removal[r].key] = "shown" /\ removal[r].key \in Made
  BY <1>1 DEF RemovalSteps, RemovalOK
<1>3. \A q \in Removers \ {r} : ~Locked(q, removal[r].key)
  BY <1>1, <1>2 DEF MediaInv, Locked
<1>4. allowed' \subseteq allowed \cup {r} /\ allowed \subseteq allowed' \cup {r}
  BY <1>1
<1> QED
  BY <1>1, <1>2, <1>3, <1>4, GoToInv

\* The row was shown, so nobody has written of its removal yet.
LEMMA CommitRemovalInv ==
  ASSUME MediaInv, NEW r \in Removers, CommitRemoval(r)
  PROVE  MediaInv'
<1> DEFINE k == removal[r].key
<1>1. PICK answer \in {"removed", "ErrInternal"} : Leave(r, answer)
  BY DEF CommitRemoval
<1> DEFINE w == [removal[r] EXCEPT !.pc = answer]
<1>2. /\ removal[r].pc = "commit" /\ RemovalOK(r) /\ TypeOK /\ RemovedOnce
      /\ removal[r] \in RemovalState
      /\ media' = [media EXCEPT ![k] = "removed"]
      /\ audit' = [audit EXCEPT ![k] = Append(audit[k], removal[r].user)]
      /\ UNCHANGED <<operators, agents, objects, upload, unsure, leaky>>
  BY DEF CommitRemoval, MediaInv, TypeOK
<1>3. k \in Keys /\ removal[r].user \in Users /\ media[k] = "shown" /\ Locked(r, k)
  BY <1>2, MadeBy DEF RemovalOK, RemovalSteps, Locked
<1>4. /\ w \in RemovalState /\ w.pc = answer
      /\ w.pc \notin RemovalSteps /\ w.pc \notin {"writeAudit", "commit"}
      /\ w.pc \notin {"find", "lock", "writeAudit", "commit"}
      /\ w.pc \notin {"lock", "writeAudit", "commit"}
  BY <1>1, <1>2 DEF RemovalState, RemovalSteps, RemovalAnswers
<1>5. removal' = [removal EXCEPT ![r] = w] /\ allowed' = allowed \ {r}
  BY <1>1 DEF Leave, GoTo
<1> HIDE DEF w
<1>6. removal'[r] = w
  BY <1>2, <1>5 DEF TypeOK
<1>7. RemovalOK(r)'
  BY <1>4, <1>6 DEF RemovalOK
<1>8. /\ media' \in [Keys -> RowStates]
      /\ \A j \in Keys : \/ media'[j] = media[j]
                         \/ Locked(r, j) /\ media[j] # "none" /\ media'[j] # "none"
  BY <1>2, <1>3 DEF TypeOK, RowStates
<1>9. audit[k] \in Seq(Users) /\ Len(audit[k]) = 0
  BY <1>2, <1>3 DEF TypeOK, RemovedOnce
<1>10. /\ Append(audit[k], removal[r].user) \in Seq(Users)
       /\ Len(Append(audit[k], removal[r].user)) = 1
  BY <1>3, <1>9
<1>11. audit' \in [Keys -> Seq(Users)]
  BY <1>2, <1>10 DEF TypeOK
<1>12. RemovedOnce'
  <2> SUFFICES ASSUME NEW j \in Keys
               PROVE  Len(audit'[j]) = IF media'[j] = "removed" THEN 1 ELSE 0
    BY DEF RemovedOnce
  <2>1. CASE j = k
    BY <1>2, <1>3, <1>10, <2>1 DEF TypeOK
  <2>2. CASE j # k
    BY <1>2, <2>2 DEF TypeOK, RemovedOnce
  <2> QED
    BY <2>1, <2>2
<1> QED
  BY <1>2, <1>4, <1>5, <1>7, <1>8, <1>11, <1>12, RemovalFrame

LEMMA ReturnRemovalInv ==
  ASSUME MediaInv, NEW r \in Removers, ReturnRemoval(r)
  PROVE  MediaInv'
<1>1. /\ removal' = [removal EXCEPT ![r] = NoRemoval] /\ TypeOK /\ RemovedOnce
      /\ UNCHANGED <<operators, agents, store, upload, allowed, unsure, leaky>>
  BY DEF ReturnRemoval, MediaInv
<1>2. removal'[r] = NoRemoval
  BY <1>1 DEF TypeOK
<1>3. RemovalOK(r)'
  BY <1>2, NoRemovalType DEF RemovalOK, RemovalSteps
<1>4. RemovedOnce' /\ media' \in [Keys -> RowStates] /\ audit' \in [Keys -> Seq(Users)]
  BY <1>1 DEF RemovedOnce, TypeOK, store
<1> QED
  BY <1>1, <1>3, <1>4, NoRemovalType, RemovalFrame DEF store

\* Whoever gains the authority while a request is on its way is noted.
LEMMA ChangeAuthorityInv ==
  ASSUME MediaInv, NEW u \in Users, ChangeAuthority(u)
  PROVE  MediaInv'
<1>1. /\ operators' \subseteq operators \cup {u} /\ agents' \subseteq agents \cup {u}
      /\ UNCHANGED <<objects, media, audit, upload, removal, unsure, leaky>>
      /\ allowed \subseteq allowed'
      /\ allowed' \subseteq allowed \cup Uploads \cup Removers
      /\ \A b \in Uploads : /\ upload[b].pc \in {"insert", "commit"}
                            /\ CanUpload(upload[b].user, b)'
                            => b \in allowed'
      /\ \A r \in Removers : /\ removal[r].pc \in RemovalSteps \ {"begin"}
                             /\ CanRemove(removal[r].user, removal[r].key)'
                             => r \in allowed'
  BY DEF ChangeAuthority, store
<1>2. TypeOK /\ RemovedOnce
  BY DEF MediaInv
<1>3. TypeOK' /\ RemovedOnce'
  BY <1>1, <1>2 DEF TypeOK, RemovedOnce
<1>4. ASSUME NEW b \in Uploads PROVE PlaceOK(b)' /\ RowsOK(b)' /\ ObjectsOK(b)' /\ ScopeOK(b)'
  <2>1. PlaceOK(b) /\ RowsOK(b) /\ ObjectsOK(b) /\ ScopeOK(b)
    BY DEF MediaInv
  <2>2. PlaceOK(b)' /\ RowsOK(b)' /\ ObjectsOK(b)'
    BY <1>1, <2>1 DEF PlaceOK, RowsOK, ObjectsOK, Ended
  <2>3. ScopeOK(b)'
    BY <1>1, <2>1 DEF ScopeOK, CanUpload
  <2> QED
    BY <2>2, <2>3
<1>5. ASSUME NEW r \in Removers PROVE RemovalOK(r)'
  <2>1. RemovalOK(r)
    BY DEF MediaInv
  <2> QED
    BY <1>1, <2>1 DEF RemovalOK, RemovalSteps, CanRemove
<1>6. \A r, q \in Removers, k \in Made : r # q => ~(Locked(r, k)' /\ Locked(q, k)')
  BY <1>1 DEF MediaInv, Locked
<1> QED
  BY <1>3, <1>4, <1>5, <1>6 DEF MediaInv

-----------------------------------------------------------------------------
LEMMA StutterInv == MediaInv /\ UNCHANGED vars => MediaInv'
<1> SUFFICES ASSUME MediaInv, UNCHANGED vars PROVE MediaInv'
  OBVIOUS
<1>1. UNCHANGED <<operators, agents, objects, media, audit, upload, removal, allowed,
                  unsure, leaky>>
  BY DEF vars, store
<1>2. TypeOK' /\ RemovedOnce'
  BY <1>1 DEF MediaInv, TypeOK, RemovedOnce
<1>3. \A b \in Uploads : PlaceOK(b)' /\ RowsOK(b)' /\ ObjectsOK(b)' /\ ScopeOK(b)'
  BY <1>1 DEF MediaInv, PlaceOK, RowsOK, ObjectsOK, ScopeOK, Ended, CanUpload
<1>4. \A r \in Removers : RemovalOK(r)'
  BY <1>1 DEF MediaInv, RemovalOK, CanRemove
<1>5. \A r, q \in Removers, k \in Made : r # q => ~(Locked(r, k)' /\ Locked(q, k)')
  BY <1>1 DEF MediaInv, Locked
<1> QED
  BY <1>2, <1>3, <1>4, <1>5 DEF MediaInv

LEMMA NextInv == MediaInv /\ [Next]_vars => MediaInv'
<1> SUFFICES ASSUME MediaInv, [Next]_vars PROVE MediaInv'
  OBVIOUS
<1>1. ASSUME NEW b \in Uploads,
             \/ \E u \in Users : StartUpload(b, u)
             \/ Put(b) \/ Insert(b) \/ CommitUpload(b) \/ Cleanup(b) \/ Crash(b)
      PROVE  MediaInv'
  BY <1>1, StartUploadInv, PutInv, InsertInv, CommitUploadInv, CleanupInv, CrashInv
<1>2. ASSUME NEW r \in Removers, InterruptRemoval(r) PROVE MediaInv'
  BY <1>2, LeaveInv DEF InterruptRemoval, RemovalAnswers
<1>3. ASSUME NEW r \in Removers,
             \/ \E k \in Made, u \in Users : StartRemoval(r, k, u)
             \/ BeginRemoval(r) \/ FindRow(r) \/ LockRow(r) \/ WriteAudit(r)
             \/ CommitRemoval(r) \/ InterruptRemoval(r) \/ ReturnRemoval(r)
      PROVE  MediaInv'
  BY <1>2, <1>3, StartRemovalInv, BeginRemovalInv, FindRowInv, LockRowInv, WriteAuditInv,
     CommitRemovalInv, ReturnRemovalInv
<1> QED
  BY <1>1, <1>3, ChangeAuthorityInv, StutterInv DEF Next

\* Whatever the order in which uploads store, insert, commit, clean up and
\* crash, and removals lock and commit, a row is removed once, with one audit
\* event, a batch has all of its rows or none, and what each request relies on
\* holds.
THEOREM Inductive == Spec => []MediaInv
BY InitInv, NextInv, PTL DEF Spec

LEMMA Whole == MediaInv => BatchesWhole
BY DEF MediaInv, BatchesWhole, RowsOK, Ended

\* uploadMedia: an upload answered with 201 has all its rows; any other has
\* none, unless it could not know what its COMMIT had done.
THEOREM UploadsWhole == Spec => []BatchesWhole
BY Inductive, Whole, PTL

LEMMA Swept == MediaInv => NoOrphans
<1> SUFFICES ASSUME MediaInv, NEW b \in Uploads, Ended(b), b \notin leaky,
                    NEW k \in KeysOf(b) \cap objects
             PROVE  media[k] # "none"
  BY DEF NoOrphans
<1>1. RowsOK(b) /\ ObjectsOK(b) /\ \E i \in 1..Len(Files[b]) : k = Files[b][i]
  BY ItsKeys DEF MediaInv
<1>2. upload[b].pc = "created"
  BY <1>1 DEF ObjectsOK
<1> QED
  BY <1>1, <1>2 DEF RowsOK

\* cleanupMediaObjects: an upload that has ended leaves no object without a row,
\* unless it crashed or a call to the object store failed.
THEOREM UploadsSwept == Spec => []NoOrphans
BY Inductive, Swept, PTL

LEMMA Kept == MediaInv => RowsHaveObjects
<1> SUFFICES ASSUME MediaInv, NEW k \in Made, media[k] # "none", UploadOf(k) \notin unsure
             PROVE  k \in objects
  BY DEF RowsHaveObjects
<1>1. PICK b \in Uploads : b = UploadOf(k) /\ k \in KeysOf(b)
  BY MadeBy
<1>2. RowsOK(b) /\ ObjectsOK(b) /\ PlaceOK(b) /\ \E i \in 1..Len(Files[b]) : k = Files[b][i]
  BY <1>1, ItsKeys DEF MediaInv
<1>3. upload[b].pc = "created"
  BY <1>1, <1>2 DEF RowsOK
<1> QED
  BY <1>2, <1>3 DEF ObjectsOK, PlaceOK

\* A row, shown or removed, keeps its object, unless the COMMIT of its upload
\* failed after it was done: cleanupMediaObjects then takes the objects away.
THEOREM ObjectsKept == Spec => []RowsHaveObjects
BY Inductive, Kept, PTL

\* CreateAuthorizedMedia and RemoveMedia: rows appear and go only for a user
\* that had the authority while the transaction was at work.
THEOREM RowsInScope == Spec => WritesInScope
<1>1. MediaInv /\ [Next]_vars =>
        [/\ \A b \in Uploads : CommitUpload(b) /\ media' # media => b \in allowed
         /\ \A r \in Removers : CommitRemoval(r) => r \in allowed]_vars
  <2>1. ASSUME MediaInv, NEW b \in Uploads, CommitUpload(b) PROVE b \in allowed
    BY <2>1 DEF MediaInv, ScopeOK, CommitUpload
  <2>2. ASSUME MediaInv, NEW r \in Removers, CommitRemoval(r) PROVE r \in allowed
    BY <2>2 DEF MediaInv, RemovalOK, CommitRemoval
  <2> QED
    BY <2>1, <2>2
<1> QED
  BY <1>1, Inductive, PTL DEF Spec, WritesInScope
=============================================================================
