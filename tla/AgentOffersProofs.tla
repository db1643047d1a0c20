-------------------------- MODULE AgentOffersProofs --------------------------
(***************************************************************************)
(* Proofs about AgentOffers, for every set of agents, operators, prices,   *)
(* drafts, patches and concurrent requests, and every bound on versions.   *)
(***************************************************************************)
EXTENDS AgentOffers, TLAPS

USE VersionAssumption, ContentAssumption, NoneAssumption

Pcs  == {"idle"} \cup Steps \cup Answers
Live == {row \in Offer : row.version > 0 /\ row.price # None /\ row.status # None}
Rows == {NoOffer} \cup Live

\* An agent without an offer has version 0 of it, which no offer has.
LEMMA NoOfferType ==
  /\ NoOffer \in Offer /\ NoOffer \notin Live
  /\ NoOffer.version = 0 /\ ~NoOffer.archived
BY DEF NoOffer, Offer, Live

\* A draft makes the first version of an offer.
LEMMA DraftType ==
  ASSUME NEW draft \in Drafts
  PROVE  Patched(NoOffer, draft) \in Live /\ Patched(NoOffer, draft).version = 1
<1>1. draft.price \in Prices /\ draft.status \in OfferStatuses
  OBVIOUS
<1>2. draft.price # None /\ draft.status # None
  BY <1>1
<1>3. NoOffer.version + 1 = 1 /\ 1 \in 0..MaxVersion
  BY NoOfferType
<1>4. Patched(NoOffer, draft) =
        [NoOffer EXCEPT !.version = 1, !.price = draft.price, !.status = draft.status]
  BY <1>2, <1>3 DEF Patched
<1> DEFINE row == [NoOffer EXCEPT !.version = 1, !.price = draft.price,
                                  !.status = draft.status]
<1>5. row \in Offer /\ row.version = 1 /\ row.price = draft.price /\ row.status = draft.status
  BY <1>1, <1>3, NoOfferType DEF Offer
<1>6. Patched(NoOffer, draft) = row
  BY <1>4
<1> HIDE DEF row
<1> QED
  BY <1>2, <1>5, <1>6 DEF Live

\* A patch makes the next version of an offer.
LEMMA PatchedType ==
  ASSUME NEW row \in Live, row.version < MaxVersion, NEW patch \in Patches
  PROVE  Patched(row, patch) \in Live /\ Patched(row, patch).version = row.version + 1
<1> DEFINE price == IF patch.price = None THEN row.price ELSE patch.price
           s     == IF patch.status = None THEN row.status ELSE patch.status
           v     == row.version + 1
<1>1. /\ row \in Offer /\ v \in 0..MaxVersion /\ v > 0
      /\ row.price \in Prices /\ row.status \in OfferStatuses
  BY DEF Live, Offer
<1>2. price \in Prices /\ s \in OfferStatuses /\ price # None /\ s # None
  <2>1. patch.price \in Prices \cup {None} /\ patch.status \in OfferStatuses \cup {None}
    OBVIOUS
  <2> QED
    BY <1>1, <2>1
<1> DEFINE patched == [row EXCEPT !.version = v, !.price = price, !.status = s]
<1>3. Patched(row, patch) = patched
  BY DEF Patched
<1> HIDE DEF price, s, v
<1>4. patched \in Offer /\ patched.version = v /\ patched.price = price /\ patched.status = s
  BY <1>1, <1>2 DEF Offer
<1> HIDE DEF patched
<1> QED
  BY <1>1, <1>2, <1>3, <1>4 DEF Live, v

\* Archiving makes the next version of an offer.
LEMMA ArchivedType ==
  ASSUME NEW row \in Live, row.version < MaxVersion
  PROVE  Archived(row) \in Live /\ Archived(row).version = row.version + 1
<1> DEFINE v == row.version + 1
<1>1. row \in Offer /\ v \in 0..MaxVersion /\ v > 0 /\ row.price # None
  BY DEF Live, Offer
<1>2. "unavailable" \in OfferStatuses /\ "unavailable" # None
  BY DEF OfferStatuses
<1> DEFINE archived == [row EXCEPT !.version = v, !.status = "unavailable", !.archived = TRUE]
<1>3. Archived(row) = archived
  BY DEF Archived
<1> HIDE DEF v
<1>4. /\ archived \in Offer /\ archived.version = v
      /\ archived.price = row.price /\ archived.status = "unavailable"
  BY <1>1, <1>2 DEF Offer
<1> HIDE DEF archived
<1> QED
  BY <1>1, <1>2, <1>3, <1>4 DEF Live, v

\* A request that is idle, or has its answer, keeps nothing else.
LEMMA IdleType ==
  /\ Idle \in Request
  /\ \A answer \in Answers : /\ [Idle EXCEPT !.pc = answer] \in Request
                             /\ [Idle EXCEPT !.pc = answer].pc = answer
<1>1. Idle \in Request
  BY DEF Idle, Request
<1> QED
  BY <1>1 DEF Request

\* Going on to another statement changes only the program counter of p.
LEMMA AdvanceType ==
  ASSUME TypeOK, NEW p \in Procs, NEW pc \in Pcs, Advance(p, pc)
  PROVE  /\ tx' \in [Procs -> Request]
         /\ tx'[p] = [tx[p] EXCEPT !.pc = pc]
         /\ \A q \in Procs \ {p} : tx'[q] = tx[q]
<1>1. tx \in [Procs -> Request]
  BY DEF TypeOK
<1>2. tx[p] \in Request /\ [tx[p] EXCEPT !.pc = pc] \in Request
  BY <1>1 DEF Request, Pcs
<1> QED
  BY <1>1, <1>2 DEF Advance

-----------------------------------------------------------------------------
\* A step that leaves the offers, agents and roles alone has to be checked for
\* p only.

Same(q) == tx'[q] = tx[q] /\ shown'[q] = shown[q] /\ authorized'[q] = authorized[q]

\* What a request relies on survives a step of another one that leaves the
\* offers, agents and roles alone.
LEMMA RequestSame ==
  ASSUME NEW q \in Procs, CreateOK(q), EditOK(q), Same(q),
         UNCHANGED <<operators, status, offer>>
  PROVE  CreateOK(q)' /\ EditOK(q)'
BY DEF CreateOK, EditOK, Same, Creating, Inserting, Editing, Genuine, CanManage

\* A step of p that leaves the offers, agents and roles alone preserves the
\* invariant once it preserves what is said of p.
LEMMA Frame ==
  ASSUME OfferInv, NEW p \in Procs, UNCHANGED <<operators, status, offer, form>>,
         tx' \in [Procs -> Request], shown' \in [Procs -> Offer],
         authorized' \in [Procs -> BOOLEAN],
         \A q \in Procs \ {p} : Same(q),
         CreateOK(p)', EditOK(p)',
         \A q \in Procs \ {p} : Inserting(p)' /\ Inserting(q) => tx'[p].agent # tx[q].agent
  PROVE  OfferInv'
<1>1. TypeOK'
  BY DEF OfferInv, TypeOK
<1>2. \A q \in Procs : CreateOK(q)' /\ EditOK(q)'
  BY RequestSame DEF OfferInv
<1>3. VersionsNameContents'
  BY DEF OfferInv, VersionsNameContents, Genuine
<1>4. OneInsert'
  BY DEF OfferInv, OneInsert, Inserting, Same
<1> QED
  BY <1>1, <1>2, <1>3, <1>4 DEF OfferInv

\* p goes on to another statement of its transaction.
LEMMA StatementFrame ==
  ASSUME OfferInv, NEW p \in Procs, NEW pc \in Steps, Advance(p, pc),
         UNCHANGED <<operators, status, offer, form, shown, authorized>>,
         CreateOK(p)', EditOK(p)',
         pc = "referenceAgent" =>
           \A q \in Procs : tx[q].pc = "referenceAgent" => tx[q].agent # tx[p].agent
  PROVE  OfferInv'
<1>1. /\ tx' \in [Procs -> Request]
      /\ tx'[p] = [tx[p] EXCEPT !.pc = pc]
      /\ \A q \in Procs \ {p} : tx'[q] = tx[q]
  BY AdvanceType DEF OfferInv, Pcs
<1>2. tx'[p].pc = pc /\ tx'[p].agent = tx[p].agent
  BY <1>1 DEF OfferInv, TypeOK, Request
<1>3. \A q \in Procs \ {p} : Same(q)
  BY <1>1 DEF Same
<1>4. shown' \in [Procs -> Offer] /\ authorized' \in [Procs -> BOOLEAN]
  BY DEF OfferInv, TypeOK
<1> QED
  BY <1>1, <1>2, <1>3, <1>4, Frame DEF Inserting

\* An answer ends p's request, and leaves those of others alone.
LEMMA AnswerType ==
  ASSUME OfferInv, NEW p \in Procs, NEW answer \in Answers, Answer(p, answer)
  PROVE  /\ tx' \in [Procs -> Request] /\ shown' \in [Procs -> Offer]
         /\ authorized' \in [Procs -> BOOLEAN]
         /\ \A q \in Procs \ {p} : Same(q)
         /\ CreateOK(p)' /\ EditOK(p)' /\ ~Inserting(p)'
         /\ UNCHANGED <<operators, status>>
<1>1. /\ tx'[p] = [Idle EXCEPT !.pc = answer]
      /\ \A q \in Procs \ {p} : Same(q)
  BY DEF Answer, Same, OfferInv, TypeOK
<1>2. /\ tx' \in [Procs -> Request] /\ shown' \in [Procs -> Offer]
      /\ authorized' \in [Procs -> BOOLEAN]
  BY IdleType, NoOfferType DEF Answer, OfferInv, TypeOK
<1>3. tx'[p].pc = answer
  BY <1>1, IdleType
<1>4. CreateOK(p)' /\ EditOK(p)' /\ ~Inserting(p)'
  BY <1>3 DEF CreateOK, EditOK, Creating, Inserting, Editing, Answers
<1> QED
  BY <1>1, <1>2, <1>4 DEF Answer

\* A request that is refused, or interrupted, preserves the invariant.
LEMMA RefuseInv ==
  ASSUME OfferInv, NEW p \in Procs, NEW answer \in Answers, Refuse(p, answer)
  PROVE  OfferInv'
BY AnswerType, Frame DEF Refuse

\* A statement that writes the next version of an offer, which nobody else is
\* inserting, preserves the invariant: what clients show, and what other
\* requests expect, is older.
LEMMA WriteInv ==
  ASSUME OfferInv, NEW p \in Procs, NEW row \in Live, Write(p, row),
         tx[p].agent \in Agents, tx[p].user \in Users,
         row.version = offer[tx[p].agent].version + 1,
         \A q \in Procs \ {p} : Inserting(q) => tx[q].agent # tx[p].agent
  PROVE  OfferInv'
<1> DEFINE a == tx[p].agent
<1>1. PICK answer \in {"done", "ErrInternal"} :
        /\ Answer(p, answer)
        /\ form' = form \/ form' = [form EXCEPT ![tx[p].user][a] = row]
  BY DEF Write
<1>2. /\ tx' \in [Procs -> Request] /\ shown' \in [Procs -> Offer]
      /\ authorized' \in [Procs -> BOOLEAN]
      /\ \A q \in Procs \ {p} : Same(q)
      /\ CreateOK(p)' /\ EditOK(p)' /\ ~Inserting(p)'
      /\ UNCHANGED <<operators, status>>
  BY <1>1, AnswerType DEF Answers
<1>3. /\ offer' \in [Agents -> Rows] /\ offer'[a] = row
      /\ \A b \in Agents \ {a} : offer'[b] = offer[b]
  BY DEF Write, OfferInv, TypeOK, Rows, Live
<1>4. ASSUME NEW old \in Offer, NEW b \in Agents, Genuine(old, b)
      PROVE  /\ old.version <= offer'[b].version
             /\ old.version = offer'[b].version => old = offer'[b]
             /\ old.version = offer'[b].version => b # a
  <2>1. offer[b].version \in Nat /\ old.version \in Nat
    BY NoOfferType DEF OfferInv, TypeOK, Offer
  <2> QED
    BY <1>3, <1>4, <2>1 DEF Genuine
<1>5. row \in Offer /\ row.version \in Nat
  BY DEF Live, Offer
<1>6. form' \in [Users -> [Agents -> Offer]]
  BY <1>1, <1>5 DEF OfferInv, TypeOK
<1>7. TypeOK'
  BY <1>2, <1>3, <1>6 DEF OfferInv, TypeOK, Rows, Live
<1>8. VersionsNameContents'
  <2> SUFFICES ASSUME NEW u \in Users, NEW b \in Agents PROVE Genuine(form[u][b], b)'
    BY DEF VersionsNameContents
  <2>1. CASE form'[u][b] = form[u][b]
    <3>1. form[u][b] \in Offer /\ Genuine(form[u][b], b)
      BY DEF OfferInv, TypeOK, VersionsNameContents
    <3> QED
      BY <1>4, <2>1, <3>1 DEF Genuine
  <2>2. CASE form'[u][b] # form[u][b]
    <3>1. b = a /\ form'[u][b] = row
      BY <1>1, <2>2 DEF OfferInv, TypeOK
    <3> QED
      BY <1>3, <1>5, <3>1 DEF Genuine
  <2> QED
    BY <2>1, <2>2
<1>9. ASSUME NEW q \in Procs PROVE CreateOK(q)' /\ EditOK(q)'
  <2>1. CASE q = p
    BY <1>2, <2>1
  <2>2. CASE q # p
    <3>1. Same(q) /\ CreateOK(q) /\ EditOK(q) /\ shown[q] \in Offer
      BY <1>2, <2>2 DEF OfferInv, TypeOK
    <3>2. CreateOK(q)'
      BY <1>3, <2>2, <3>1 DEF CreateOK, Creating, Inserting, Same
    <3>3. EditOK(q)'
      <4>1. CASE Editing(q)
        <5>1. tx[q].agent \in Agents /\ Genuine(shown[q], tx[q].agent)
          BY <3>1, <4>1 DEF EditOK
        <5>2. Genuine(shown[q], tx[q].agent)'
          BY <1>4, <3>1, <5>1 DEF Genuine, Same
        <5> QED
          BY <1>2, <3>1, <4>1, <5>2 DEF EditOK, Same, CanManage
      <4>2. CASE ~Editing(q)
        BY <3>1, <4>2 DEF EditOK, Editing, Same
      <4> QED
        BY <4>1, <4>2
    <3> QED
      BY <3>2, <3>3
  <2> QED
    BY <2>1, <2>2
<1>10. OneInsert'
  BY <1>2 DEF OfferInv, OneInsert, Inserting, Same
<1> QED
  BY <1>7, <1>8, <1>9, <1>10 DEF OfferInv

-----------------------------------------------------------------------------
LEMMA InitInv == Init => OfferInv
<1> SUFFICES ASSUME Init PROVE OfferInv
  OBVIOUS
<1>1. TypeOK
  BY NoOfferType, IdleType DEF Init, TypeOK, AgentStatus
<1>2. VersionsNameContents
  <2> SUFFICES ASSUME NEW u \in Users, NEW a \in Agents PROVE Genuine(form[u][a], a)
    BY DEF VersionsNameContents
  <2>1. form[u][a] = NoOffer /\ offer[a] = NoOffer
    BY DEF Init
  <2> QED
    BY <2>1, NoOfferType DEF Genuine
<1>3. \A p \in Procs : tx[p].pc = "idle"
  BY DEF Init, Idle
<1> QED
  BY <1>1, <1>2, <1>3 DEF OfferInv, OneInsert, CreateOK, EditOK, Creating, Inserting, Editing

\* A request begins with the offer that its client shows.
LEMMA BeginInv ==
  ASSUME OfferInv, NEW p \in Procs, NEW request \in Request, Begin(p, request),
         request.user \in Users, request.agent \in Agents,
         \/ /\ request.pc = "getAgent" /\ request.op = "create"
            /\ request.patch \in Drafts /\ request.user = request.agent
         \/ /\ request.pc = "findRow"
            /\ request.op = "archive" \/ (request.op = "update" /\ request.patch \in Patches)
            /\ request.expected = form[request.user][request.agent].version
            /\ request.expected \in 1..(MaxVersion - 1)
  PROVE  OfferInv'
<1> DEFINE u == request.user
           a == request.agent
<1>1. form[u][a] \in Offer /\ Genuine(form[u][a], a)
  BY DEF OfferInv, TypeOK, VersionsNameContents
<1>2. /\ tx'[p] = request /\ shown'[p] = form[u][a]
      /\ (authorized'[p] <=> CanManage(u, a))
      /\ \A q \in Procs \ {p} : Same(q)
      /\ UNCHANGED <<operators, status, offer, form>>
  BY DEF Begin, OfferInv, TypeOK, Same
<1>3. /\ tx' \in [Procs -> Request] /\ shown' \in [Procs -> Offer]
      /\ authorized' \in [Procs -> BOOLEAN]
  BY <1>1 DEF Begin, OfferInv, TypeOK, CanManage
<1>4. CreateOK(p)' /\ EditOK(p)' /\ ~Inserting(p)'
  BY <1>1, <1>2 DEF CreateOK, EditOK, Creating, Inserting, Editing, Genuine, CanManage
<1> QED
  BY <1>2, <1>3, <1>4, Frame

LEMMA StartCreateInv ==
  ASSUME OfferInv, NEW p \in Procs, NEW a \in Agents, StartCreate(p, a)
  PROVE  OfferInv'
<1>1. PICK draft \in Drafts :
        Begin(p, [Idle EXCEPT !.pc = "getAgent", !.op = "create", !.user = a, !.agent = a,
                              !.patch = draft])
  BY DEF StartCreate
<1> DEFINE request == [Idle EXCEPT !.pc = "getAgent", !.op = "create", !.user = a,
                                   !.agent = a, !.patch = draft]
<1>2. /\ request \in Request /\ request.pc = "getAgent" /\ request.op = "create"
      /\ request.user = a /\ request.agent = a /\ request.patch = draft
  <2>1. /\ "getAgent" \in Steps /\ "create" \in {"none", "create", "update", "archive"}
        /\ a \in Users
    BY DEF Steps, Users
  <2>2. /\ request.pc = "getAgent" /\ request.op = "create"
        /\ request.user = a /\ request.agent = a /\ request.patch = draft
    BY IdleType DEF Request
  <2>3. request \in Request
    BY <2>1, IdleType DEF Request
  <2> QED
    BY <2>2, <2>3
<1> HIDE DEF request
<1> QED
  BY <1>1, <1>2, BeginInv DEF Users, request

LEMMA StartEditInv ==
  ASSUME OfferInv, NEW p \in Procs, NEW u \in Users, NEW a \in Agents, StartEdit(p, u, a)
  PROVE  OfferInv'
<1>1. PICK op \in {"update", "archive"}, patch \in Patches \cup {NoPatch} :
        /\ op = "archive" <=> patch = NoPatch
        /\ Begin(p, [pc |-> "findRow", op |-> op, user |-> u, agent |-> a,
                     expected |-> form[u][a].version, patch |-> patch])
  BY DEF StartEdit
<1> DEFINE request == [pc |-> "findRow", op |-> op, user |-> u, agent |-> a,
                       expected |-> form[u][a].version, patch |-> patch]
<1>2. form[u][a].version \in 1..(MaxVersion - 1)
  BY DEF StartEdit
<1>3. request \in Request
  BY <1>2 DEF Request, Steps
<1>4. /\ request.pc = "findRow" /\ request.user = u /\ request.agent = a
      /\ request.expected = form[u][a].version /\ request.op = op /\ request.patch = patch
  OBVIOUS
<1> HIDE DEF request
<1> QED
  BY <1>1, <1>2, <1>3, <1>4, BeginInv DEF request

\* The statements of a creation.  The last inserts the first version of the
\* agent's offer.
LEMMA CreateInv ==
  ASSUME OfferInv, NEW p \in Procs,
         GetAgent(p) \/ SelectUnit(p) \/ Insert(p) \/ ReferenceAgent(p)
  PROVE  OfferInv'
<1>1. Creating(p) /\ CreateOK(p) /\ EditOK(p) /\ tx[p] \in Request
  BY DEF GetAgent, SelectUnit, Insert, ReferenceAgent, OfferInv, Creating, TypeOK
<1>2. CASE \E answer \in Answers : Refuse(p, answer)
  BY <1>2, RefuseInv
<1>3. ASSUME NEW pc \in {"selectUnit", "insert", "referenceAgent"}, Advance(p, pc),
             UNCHANGED <<operators, status, offer, form, shown, authorized>>,
             pc = "referenceAgent" =>
               /\ offer[tx[p].agent] = NoOffer
               /\ \A q \in Procs : tx[q].pc = "referenceAgent" => tx[q].agent # tx[p].agent
      PROVE  OfferInv'
  <2>1. tx'[p] = [tx[p] EXCEPT !.pc = pc]
    BY <1>3 DEF Advance, OfferInv, TypeOK
  <2>2. /\ tx'[p].pc = pc /\ tx'[p].op = tx[p].op /\ tx'[p].user = tx[p].user
        /\ tx'[p].agent = tx[p].agent /\ tx'[p].patch = tx[p].patch
    BY <1>1, <2>1 DEF Request
  <2>3. CreateOK(p)' /\ EditOK(p)'
    BY <1>1, <1>3, <2>2 DEF CreateOK, EditOK, Creating, Inserting, Editing
  <2> QED
    BY <1>3, <2>3, StatementFrame DEF Steps
<1>4. CASE ReferenceAgent(p)
  <2>1. /\ Inserting(p) /\ tx[p].patch \in Drafts /\ tx[p].agent \in Agents
        /\ tx[p].user \in Users /\ offer[tx[p].agent] = NoOffer
    BY <1>1, <1>4 DEF ReferenceAgent, CreateOK, Creating, Inserting, Users
  <2>2. \A q \in Procs \ {p} : Inserting(q) => tx[q].agent # tx[p].agent
    BY <2>1 DEF OfferInv, OneInsert
  <2>3. Write(p, Patched(NoOffer, tx[p].patch))
    BY <1>4 DEF ReferenceAgent
  <2>4. Patched(NoOffer, tx[p].patch) \in Live /\ Patched(NoOffer, tx[p].patch).version = 1
    BY <2>1, DraftType
  <2> QED
    BY <2>1, <2>2, <2>3, <2>4, NoOfferType, WriteInv
<1>5. CASE GetAgent(p)
  BY <1>2, <1>3, <1>5 DEF GetAgent, Answers
<1>6. CASE SelectUnit(p)
  BY <1>2, <1>3, <1>6 DEF SelectUnit, Answers
<1>7. CASE Insert(p)
  BY <1>2, <1>3, <1>7 DEF Insert, Answers
<1> QED
  BY <1>4, <1>5, <1>6, <1>7

\* An offer that is found by an edit exists, is not archived, and is the one
\* that the client showed; nobody is inserting it.
LEMMA EditFindsShown ==
  ASSUME OfferInv, NEW p \in Procs, tx[p].pc = "lockRow", Matches(p)
  PROVE  LET a == tx[p].agent IN
         /\ a \in Agents /\ tx[p].user \in Users /\ authorized[p]
         /\ shown[p] = offer[a] /\ offer[a] \in Live /\ ~offer[a].archived
         /\ offer[a].version < MaxVersion
         /\ tx[p].op = "archive" \/ (tx[p].op = "update" /\ tx[p].patch \in Patches)
         /\ \A q \in Procs \ {p} : Inserting(q) => tx[q].agent # a
<1> DEFINE a == tx[p].agent
<1>1. Editing(p) /\ EditOK(p)
  BY DEF Editing, OfferInv
<1>2. a \in Agents /\ offer[a].version = tx[p].expected /\ tx[p].expected \in 1..(MaxVersion - 1)
  BY <1>1 DEF Matches, EditOK
<1>3. shown[p] = offer[a]
  BY <1>1, <1>2 DEF EditOK, Genuine
<1>4. offer[a] # NoOffer
  BY <1>2, NoOfferType
<1>5. offer[a] \in Live
  BY <1>2, <1>4 DEF OfferInv, TypeOK, Live
<1>6. \A q \in Procs \ {p} : Inserting(q) => tx[q].agent # a
  BY <1>4 DEF OfferInv, CreateOK, Creating, Inserting
<1> QED
  BY <1>1, <1>2, <1>3, <1>5, <1>6 DEF EditOK, Matches

\* The statement of an edit.
LEMMA EditInv ==
  ASSUME OfferInv, NEW p \in Procs, FindRow(p) \/ LockRow(p)
  PROVE  OfferInv'
<1> DEFINE a == tx[p].agent
<1>1. Editing(p) /\ CreateOK(p) /\ EditOK(p) /\ tx[p] \in Request
  BY DEF FindRow, LockRow, OfferInv, Editing, TypeOK
<1>2. ASSUME NEW pc \in {"lockRow", "classify"}, Advance(p, pc),
             UNCHANGED <<operators, status, offer, form, shown, authorized>>,
             pc = "lockRow" => authorized[p]
      PROVE  OfferInv'
  <2>1. tx'[p] = [tx[p] EXCEPT !.pc = pc]
    BY <1>2 DEF Advance, OfferInv, TypeOK
  <2>2. /\ tx'[p].pc = pc /\ tx'[p].op = tx[p].op /\ tx'[p].user = tx[p].user
        /\ tx'[p].agent = tx[p].agent /\ tx'[p].patch = tx[p].patch
        /\ tx'[p].expected = tx[p].expected
    BY <1>1, <2>1 DEF Request
  <2>3. CreateOK(p)' /\ EditOK(p)'
    BY <1>1, <1>2, <2>2 DEF CreateOK, EditOK, Creating, Inserting, Editing, Genuine, CanManage
  <2> QED
    BY <1>2, <2>3, StatementFrame DEF Steps
<1>3. CASE FindRow(p)
  BY <1>1, <1>2, <1>3 DEF FindRow, EditOK
<1>4. CASE LockRow(p) /\ ~Matches(p)
  BY <1>2, <1>4 DEF LockRow
<1>5. CASE LockRow(p) /\ Matches(p)
  <2>1. Write(p, Written(p, offer[a])) /\ tx[p].pc = "lockRow"
    BY <1>5 DEF LockRow
  <2>2. Written(p, offer[a]) \in Live /\ Written(p, offer[a]).version = offer[a].version + 1
    <3>1. CASE tx[p].op = "archive"
      <4>1. Archived(offer[a]) \in Live /\ Archived(offer[a]).version = offer[a].version + 1
        BY <1>5, <2>1, EditFindsShown, ArchivedType
      <4> QED
        BY <3>1, <4>1 DEF Written
    <3>2. CASE tx[p].op = "update" /\ tx[p].patch \in Patches
      <4>1. LET row == Patched(offer[a], tx[p].patch)
            IN  row \in Live /\ row.version = offer[a].version + 1
        BY <1>5, <2>1, <3>2, EditFindsShown, PatchedType
      <4> QED
        BY <3>2, <4>1 DEF Written
    <3> QED
      BY <1>5, <2>1, <3>1, <3>2, EditFindsShown
  <2> QED
    BY <1>5, <2>1, <2>2, EditFindsShown, WriteInv
<1> QED
  BY <1>3, <1>4, <1>5

\* A client that reads shows the offers; archived ones are no longer listed.
LEMMA ReadInv ==
  ASSUME OfferInv, NEW u \in Users, Read(u)
  PROVE  OfferInv'
<1>1. \A v \in Users, a \in Agents : form'[v][a] \in {form[v][a], offer[a]}
  BY DEF Read, OfferInv, TypeOK
<1>2. \A a \in Agents : offer[a] \in Offer
  BY NoOfferType DEF OfferInv, TypeOK
<1>3. TypeOK'
  <2>1. form' \in [Users -> [Agents -> Offer]]
    BY <1>2 DEF Read, OfferInv, TypeOK
  <2> QED
    BY <2>1 DEF Read, OfferInv, TypeOK
<1>4. VersionsNameContents'
  <2> SUFFICES ASSUME NEW v \in Users, NEW a \in Agents PROVE Genuine(form'[v][a], a)
    BY DEF Read, VersionsNameContents, Genuine
  <2>1. Genuine(form[v][a], a)
    BY DEF OfferInv, VersionsNameContents
  <2>2. offer[a].version \in Nat
    BY <1>2 DEF Offer
  <2> QED
    BY <1>1, <2>1, <2>2 DEF Genuine
<1>5. \A q \in Procs : CreateOK(q)' /\ EditOK(q)'
  BY RequestSame DEF Read, OfferInv, Same
<1>6. OneInsert'
  BY DEF Read, OfferInv, OneInsert, Inserting
<1> QED
  BY <1>3, <1>4, <1>5, <1>6 DEF OfferInv

\* A reinstatement or a grant authorizes the requests that are under way; a
\* suspension or a revocation takes nothing from those that have found their
\* row.
LEMMA AuthorityInv ==
  ASSUME OfferInv, UNCHANGED <<offer, form, tx, shown>>,
         operators' \subseteq Operators, status' \in [Agents -> AgentStatus],
         authorized' \in [Procs -> BOOLEAN],
         \A q \in Procs : authorized[q] => authorized'[q],
         \A q \in Procs : Editing(q) /\ CanManage(tx[q].user, tx[q].agent)' =>
                            CanManage(tx[q].user, tx[q].agent) \/ authorized'[q]
  PROVE  OfferInv'
<1>1. TypeOK'
  BY DEF OfferInv, TypeOK
<1>2. VersionsNameContents' /\ OneInsert'
  BY DEF OfferInv, VersionsNameContents, Genuine, OneInsert, Inserting
<1>3. \A q \in Procs : CreateOK(q)'
  BY DEF OfferInv, CreateOK, Creating, Inserting
<1>4. \A q \in Procs : EditOK(q)'
  BY DEF OfferInv, EditOK, Editing, Genuine
<1> QED
  BY <1>1, <1>2, <1>3, <1>4 DEF OfferInv

LEMMA ChangeAgentInv ==
  ASSUME OfferInv, NEW a \in Agents, ChangeAgent(a)
  PROVE  OfferInv'
<1>1. status' \in [Agents -> AgentStatus]
  BY DEF ChangeAgent, OfferInv, TypeOK, AgentStatus
<1>2. \A q \in Procs : Editing(q) => Serving(q) /\ EditOK(q)
  BY DEF Editing, Serving, Steps, OfferInv
<1>3. \A q \in Procs : Editing(q) /\ CanManage(tx[q].user, tx[q].agent)' =>
                         CanManage(tx[q].user, tx[q].agent) \/ authorized'[q]
  <2> SUFFICES ASSUME NEW q \in Procs, Editing(q), CanManage(tx[q].user, tx[q].agent)',
                      ~CanManage(tx[q].user, tx[q].agent)
               PROVE  authorized'[q]
    OBVIOUS
  <2>1. UNCHANGED <<operators, tx>>
    BY DEF ChangeAgent
  <2>2. /\ tx[q].user = tx[q].agent /\ tx[q].agent \in Agents
        /\ status[tx[q].agent] # "active" /\ status'[tx[q].agent] = "active"
    BY <1>2, <2>1 DEF CanManage, EditOK
  <2>3. tx[q].agent = a /\ status[a] = "suspended"
    BY <2>2 DEF ChangeAgent, OfferInv, TypeOK, AgentStatus
  <2> QED
    BY <1>2, <2>2, <2>3 DEF ChangeAgent
<1>4. authorized' \in [Procs -> BOOLEAN] /\ \A q \in Procs : authorized[q] => authorized'[q]
  BY DEF ChangeAgent, OfferInv, TypeOK
<1> QED
  BY <1>1, <1>3, <1>4, AuthorityInv DEF ChangeAgent, OfferInv, TypeOK

LEMMA ChangeRoleInv ==
  ASSUME OfferInv, NEW u \in Operators, ChangeRole(u)
  PROVE  OfferInv'
<1>1. operators' \subseteq Operators
  BY DEF ChangeRole, OfferInv, TypeOK
<1>2. \A q \in Procs : Editing(q) /\ CanManage(tx[q].user, tx[q].agent)' =>
                         CanManage(tx[q].user, tx[q].agent) \/ authorized'[q]
  BY DEF ChangeRole, Editing, Serving, Steps, CanManage
<1>3. authorized' \in [Procs -> BOOLEAN] /\ \A q \in Procs : authorized[q] => authorized'[q]
  BY DEF ChangeRole, OfferInv, TypeOK
<1> QED
  BY <1>1, <1>2, <1>3, AuthorityInv DEF ChangeRole, OfferInv, TypeOK

-----------------------------------------------------------------------------
LEMMA NextInv == OfferInv /\ [Next]_vars => OfferInv'
<1> SUFFICES ASSUME OfferInv, [Next]_vars PROVE OfferInv'
  OBVIOUS
<1>1. ASSUME NEW p \in Procs, NEW a \in Agents,
             StartCreate(p, a) \/ \E u \in Users : StartEdit(p, u, a)
      PROVE  OfferInv'
  BY <1>1, StartCreateInv, StartEditInv
<1>2. ASSUME NEW p \in Procs, Classify(p) PROVE OfferInv'
  <2>1. \E answer \in {"ErrNotFound", "ErrAgentForbidden", "ErrStaleUpdate"} : Refuse(p, answer)
    BY <1>2 DEF Classify
  <2> QED
    BY <2>1, RefuseInv DEF Answers
<1>3. ASSUME NEW p \in Procs, Statement(p) PROVE OfferInv'
  BY <1>2, <1>3, CreateInv, EditInv DEF Statement
<1>4. ASSUME NEW p \in Procs, Interrupt(p) PROVE OfferInv'
  BY <1>4, RefuseInv DEF Interrupt, Answers
<1>5. ASSUME NEW a \in Agents, ChangeAgent(a) PROVE OfferInv'
  BY <1>5, ChangeAgentInv
<1>6. ASSUME NEW u \in Users, Read(u) PROVE OfferInv'
  BY <1>6, ReadInv
<1>7. ASSUME NEW u \in Operators, ChangeRole(u) PROVE OfferInv'
  BY <1>7, ChangeRoleInv
<1>8. CASE UNCHANGED vars
  BY <1>8 DEF vars, OfferInv, TypeOK, VersionsNameContents, Genuine, OneInsert, CreateOK,
              EditOK, Creating, Inserting, Editing, CanManage
<1> QED
  BY <1>1, <1>3, <1>4, <1>5, <1>6, <1>7, <1>8 DEF Next

\* In every reachable state a version names one state of an offer, and each
\* statement of CreateAgentOffer, UpdateAgentOffer and ArchiveAgentOffer
\* (src/api/internal/repo/property.go) finds what the ones before it have
\* established, whoever writes, is suspended or loses a role in between.
THEOREM Inductive == Spec => []OfferInv
BY InitInv, NextInv, PTL DEF Spec

\* An edit is made only of an offer that matches when it is locked.
LEMMA EditMatches ==
  ASSUME OfferInv, NEW p \in Procs, LockRow(p), offer' # offer
  PROVE  /\ tx[p].pc = "lockRow" /\ Matches(p)
         /\ offer' = [offer EXCEPT ![tx[p].agent] = Written(p, offer[tx[p].agent])]
BY DEF LockRow, Write

\* An edit replaces exactly the offer its client showed.
THEOREM UpdateNotLost == Spec => NoLostUpdate
<1>1. OfferInv /\ [Next]_vars =>
        [\A p \in Procs : LockRow(p) /\ offer' # offer =>
           offer'[tx[p].agent] = Written(p, shown[p])]_vars
  <2> SUFFICES ASSUME OfferInv, NEW p \in Procs, LockRow(p), offer' # offer
               PROVE  offer'[tx[p].agent] = Written(p, shown[p])
    OBVIOUS
  <2>1. tx[p].agent \in Agents /\ shown[p] = offer[tx[p].agent]
    BY EditMatches, EditFindsShown
  <2> QED
    BY <2>1, EditMatches DEF OfferInv, TypeOK
<1> QED
  BY <1>1, Inductive, PTL DEF Spec, NoLostUpdate

\* An archived offer is never written again: an edit does not match it, and a
\* new offer is inserted only where there is none.
THEOREM ArchivedStays == Spec => ArchiveIsFinal
<1>1. OfferInv /\ [Next]_vars =>
        [\A a \in Agents : offer[a].archived => offer'[a] = offer[a]]_vars
  <2> SUFFICES ASSUME OfferInv, Next, NEW a \in Agents, offer[a].archived, offer' # offer
               PROVE  offer'[a] = offer[a]
    OBVIOUS
  <2>1. PICK p \in Procs : ReferenceAgent(p) \/ LockRow(p)
    <3>1. ASSUME NEW p \in Procs, NEW b \in Agents, StartCreate(p, b) PROVE offer' = offer
      BY <3>1 DEF StartCreate, Begin
    <3>2. ASSUME NEW p \in Procs, NEW u \in Users, NEW b \in Agents, StartEdit(p, u, b)
          PROVE  offer' = offer
      BY <3>2 DEF StartEdit, Begin
    <3>3. ASSUME NEW p \in Procs,
                 \/ GetAgent(p) \/ SelectUnit(p) \/ Insert(p)
                 \/ FindRow(p) \/ Classify(p) \/ Interrupt(p)
          PROVE  offer' = offer
      BY <3>3 DEF GetAgent, SelectUnit, Insert, FindRow, Classify, Interrupt, Refuse
    <3>4. ASSUME \/ \E b \in Agents : ChangeAgent(b)
                 \/ \E u \in Users : Read(u)
                 \/ \E u \in Operators : ChangeRole(u)
          PROVE  offer' = offer
      BY <3>4 DEF ChangeAgent, Read, ChangeRole
    <3> QED
      BY <3>1, <3>2, <3>3, <3>4 DEF Next, Statement
  <2>2. CASE ReferenceAgent(p)
    <3>1. offer[tx[p].agent] = NoOffer
      BY <2>2 DEF ReferenceAgent, OfferInv, CreateOK, Creating, Inserting
    <3>2. a # tx[p].agent
      BY <3>1, NoOfferType
    <3> QED
      BY <2>2, <3>2 DEF ReferenceAgent, Write, OfferInv, TypeOK
  <2>3. CASE LockRow(p)
    <3>1. a # tx[p].agent
      BY <2>3, EditMatches DEF Matches
    <3> QED
      BY <2>3, <3>1, EditMatches DEF OfferInv, TypeOK
  <2> QED
    BY <2>1, <2>2, <2>3
<1> QED
  BY <1>1, Inductive, PTL DEF Spec, ArchiveIsFinal

\* An edit is one of a user who could manage the offer during the request: the
\* statement that finds the row checks it, not the middleware.
THEOREM EditsInScope == Spec => EditedInScope
<1>1. OfferInv /\ [Next]_vars =>
        [\A p \in Procs : LockRow(p) /\ offer' # offer => authorized[p]]_vars
  BY EditMatches, EditFindsShown
<1> QED
  BY <1>1, Inductive, PTL DEF Spec, EditedInScope
=============================================================================
