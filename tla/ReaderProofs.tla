---------------------------- MODULE ReaderProofs ----------------------------
(***************************************************************************)
(* Proofs about what readers do: Browsing, with Catalogue, for every       *)
(* finite catalogue, every set of queries, and every bound on prices,      *)
(* pages and writes; and InquirySubmission, for every set of students,     *)
(* offers, questions, submission IDs and requests.                         *)
(***************************************************************************)
EXTENDS Browsing, InquirySubmission, FiniteSetTheorems, WellFoundedInduction,
        SequenceTheorems, TLAPS

(***************************************************************************)
(* A question about an offer                                               *)
(***************************************************************************)

USE NoneAssumption

LEMMA AtMostOne ==
  ASSUME NEW S, \A x, y \in S : x = y
  PROVE  Cardinality(S) <= 1
<1>1. CASE S = {}
  BY <1>1, FS_EmptySet
<1>2. CASE S # {}
  <2>1. PICK x : S = {x}
    BY <1>2
  <2> QED
    BY <2>1, FS_Singleton
<1> QED
  BY <1>1, <1>2

LEMMA ClosedType ==
  /\ Closed \in Sheet /\ Closed.shown = "closed" /\ Closed.request = None
BY DEF Closed, Sheet

LEMMA NoRequestType ==
  /\ NoRequest \in Request /\ NoRequest.pc = "idle" /\ NoRequest.found = None
BY DEF NoRequest, Request

\* One inquiry per submission ID is one per open sheet.
LEMMA Once ==
  ASSUME OneInquiry, \A u \in Students : SheetOK(u)
  PROVE  RecordedOnce
<1> SUFFICES ASSUME NEW u \in Students
             PROVE  Cardinality({i \in inquiries : i.student = u /\ i.submission \in used[u]}) <= 1
  BY DEF RecordedOnce
<1> DEFINE S == {i \in inquiries : i.student = u /\ i.submission \in used[u]}
<1>1. \A i, j \in S : i = j
  BY DEF OneInquiry, SheetOK
<1> HIDE DEF S
<1>2. Cardinality(S) <= 1
  BY <1>1, AtMostOne
<1> QED
  BY <1>2 DEF S

LEMMA OnceNext ==
  ASSUME OneInquiry', \A u \in Students : SheetOK(u)'
  PROVE  RecordedOnce'
<1> SUFFICES ASSUME NEW u \in Students
             PROVE  Cardinality({i \in inquiries' : i.student = u
                                                   /\ i.submission \in used'[u]}) <= 1
  BY DEF RecordedOnce
<1> DEFINE S == {i \in inquiries' : i.student = u /\ i.submission \in used'[u]}
<1>1. \A i, j \in S : i = j
  BY DEF OneInquiry, SheetOK
<1> HIDE DEF S
<1>2. Cardinality(S) <= 1
  BY <1>1, AtMostOne
<1> QED
  BY <1>2 DEF S

-----------------------------------------------------------------------------
LEMMA InitInv == Init => InquiryInv
<1> SUFFICES ASSUME Init PROVE InquiryInv
  OBVIOUS
<1>1. TypeOK
  BY ClosedType, NoRequestType DEF Init, TypeOK
<1>2. OneInquiry /\ HandoffMatches
  BY ClosedType DEF Init, OneInquiry, HandoffMatches
<1>3. Claims = {}
  <2>1. \A r \in Requests : request[r].pc = "idle"
    BY NoRequestType DEF Init
  <2>2. \A u \in Students : sheet[u].shown = "closed"
    BY ClosedType DEF Init
  <2> QED
    BY <2>1, <2>2 DEF Init, Claims
<1>4. OneOffer
  BY <1>3 DEF OneOffer
<1>5. \A r \in Requests : RequestOK(r)
  BY NoRequestType DEF Init, RequestOK
<1>6. \A u \in Students : SheetOK(u)
  BY ClosedType DEF Init, SheetOK
<1>7. RecordedOnce
  BY <1>2, <1>6, Once
<1> QED
  BY <1>1, <1>2, <1>4, <1>5, <1>6, <1>7 DEF InquiryInv

\* What is left to show of a step after which nobody claims anything new.
LEMMA Frame ==
  ASSUME InquiryInv, TypeOK', OneInquiry', HandoffMatches', Claims' \subseteq Claims,
         \A r \in Requests : RequestOK(r)', \A u \in Students : SheetOK(u)'
  PROVE  InquiryInv'
<1>1. OneOffer'
  BY DEF OneOffer, InquiryInv
<1>2. RecordedOnce'
  BY OnceNext
<1> QED
  BY <1>1, <1>2 DEF InquiryInv

-----------------------------------------------------------------------------
\* The statements of the server.

ItsInquiry(r) == [student |-> request[r].student, submission |-> request[r].submission,
                  offer |-> request[r].offer, message |-> request[r].message]

\* A statement of r may record its inquiry, and leaves everything else that is
\* said of the submission as it is.
LEMMA StatementFrame ==
  ASSUME InquiryInv, NEW r \in Requests, request[r].pc # "idle",
         NEW w \in Request, request' = [request EXCEPT ![r] = w], w.pc # "idle",
         w.student = request[r].student, w.submission = request[r].submission,
         w.offer = request[r].offer, w.message = request[r].message,
         UNCHANGED <<offer, sheet, used>>,
         \/ inquiries' = inquiries
         \/ Same(r) = {} /\ inquiries' = inquiries \cup {ItsInquiry(r)},
         w.pc \in {"handoff"} \cup Recorded =>
           [student |-> w.student, submission |-> w.submission,
            offer |-> w.offer, message |-> w.found] \in inquiries'
  PROVE  InquiryInv'
<1>1. /\ TypeOK /\ RequestOK(r) /\ inquiries \subseteq inquiries'
      /\ request'[r] = w /\ \A q \in Requests \ {r} : request'[q] = request[q]
  BY DEF InquiryInv, TypeOK
<1>2. ItsInquiry(r) \in Inquiry
  BY <1>1 DEF RequestOK, ItsInquiry, Inquiry
<1>3. TypeOK'
  BY <1>1, <1>2 DEF TypeOK
<1>4. OneInquiry'
  <2>1. \A i \in inquiries : Same(r) = {} =>
          ~(i.student = request[r].student /\ i.submission = request[r].submission)
    BY DEF Same, Recordings
  <2> QED
    BY <1>1, <2>1 DEF InquiryInv, OneInquiry, ItsInquiry
<1>5. HandoffMatches'
  BY <1>1 DEF InquiryInv, HandoffMatches
<1>6. Claims' \subseteq Claims
  <2> SUFFICES ASSUME NEW c \in Claims' PROVE c \in Claims
    OBVIOUS
  <2>1. Claim(request[r], request[r].student) \in Claims
    BY DEF Claims
  <2>2. ASSUME NEW i \in inquiries', c = Claim(i, i.student) PROVE c \in Claims
    <3>1. CASE i \in inquiries
      BY <2>2, <3>1 DEF Claims
    <3>2. CASE i = ItsInquiry(r)
      <4>1. c = Claim(request[r], request[r].student)
        BY <2>2, <3>2 DEF Claim, ItsInquiry
      <4> QED
        BY <2>1, <4>1
    <3> QED
      BY <3>1, <3>2
  <2>3. ASSUME NEW q \in Requests, request'[q].pc # "idle",
               c = Claim(request'[q], request'[q].student)
        PROVE  c \in Claims
    <3>1. CASE q = r
      <4>1. c = Claim(request[r], request[r].student)
        BY <1>1, <2>3, <3>1 DEF Claim
      <4> QED
        BY <2>1, <4>1
    <3>2. CASE q # r
      BY <1>1, <2>3, <3>2 DEF Claims
    <3> QED
      BY <3>1, <3>2
  <2>4. ASSUME NEW u \in Students, sheet[u].shown # "closed", c = Claim(sheet[u], u)
        PROVE  c \in Claims
    BY <2>4 DEF Claims
  <2> QED
    BY <2>2, <2>3, <2>4 DEF Claims
<1>7. ASSUME NEW q \in Requests PROVE RequestOK(q)'
  <2>1. RequestOK(q)
    BY DEF InquiryInv
  <2>2. CASE q = r
    BY <1>1, <2>1, <2>2 DEF RequestOK
  <2>3. CASE q # r
    BY <1>1, <2>1, <2>3 DEF RequestOK
  <2> QED
    BY <2>2, <2>3
<1>8. ASSUME NEW u \in Students PROVE SheetOK(u)'
  <2>1. SheetOK(u) /\ sheet[u] \in Sheet
    BY <1>1 DEF InquiryInv, TypeOK
  <2> QED
    BY <1>1, <2>1 DEF SheetOK, Sheet
<1> QED
  BY <1>3, <1>4, <1>5, <1>6, <1>7, <1>8, Frame

\* A statement that only goes on, or ends with an answer that shows nothing new.
LEMMA GotoInv ==
  ASSUME InquiryInv, NEW r \in Requests, request[r].pc # "idle",
         NEW pc \in {"insert", "refind", "classify"} \cup Recorded \cup Errors, Goto(r, pc),
         UNCHANGED <<offer, inquiries, sheet, used>>,
         pc \in Recorded => request[r].pc = "handoff"
  PROVE  InquiryInv'
<1> DEFINE w == [request[r] EXCEPT !.pc = pc]
<1>1. request[r] \in Request /\ RequestOK(r)
  BY DEF InquiryInv, TypeOK
<1>2. pc \in Steps \cup Recorded \cup Errors /\ pc # "idle" /\ pc # "handoff"
  BY DEF Steps, Recorded, Errors, Refusals
<1>3. /\ w \in Request /\ w.pc = pc /\ w.student = request[r].student
      /\ w.submission = request[r].submission /\ w.offer = request[r].offer
      /\ w.message = request[r].message /\ w.found = request[r].found
  BY <1>1, <1>2 DEF Request
<1>4. request' = [request EXCEPT ![r] = w]
  BY DEF Goto
<1> HIDE DEF w
<1>5. w.pc \in {"handoff"} \cup Recorded =>
        [student |-> w.student, submission |-> w.submission,
         offer |-> w.offer, message |-> w.found] \in inquiries'
  BY <1>1, <1>2, <1>3 DEF RequestOK
<1> QED
  BY <1>2, <1>3, <1>4, <1>5, StatementFrame

\* What an inquiry under the submission ID of r says: its offer is that of r.
LEMMA SameOffer ==
  ASSUME InquiryInv, NEW r \in Requests, request[r].pc # "idle", NEW i \in Same(r)
  PROVE  /\ i \in inquiries /\ i.message \in Messages
         /\ i = [student |-> request[r].student, submission |-> request[r].submission,
                 offer |-> request[r].offer, message |-> i.message]
<1>1. i \in inquiries /\ i.student = request[r].student /\ i.submission = request[r].submission
  BY DEF Same, Recordings
<1>2. i \in Inquiry
  BY <1>1 DEF InquiryInv, TypeOK
<1>3. Claim(i, i.student) \in Claims /\ Claim(request[r], request[r].student) \in Claims
  BY <1>1 DEF Claims
<1>4. Claim(i, i.student) = Claim(request[r], request[r].student)
  BY <1>1, <1>3 DEF InquiryInv, OneOffer, Claim
<1>5. i.offer = request[r].offer
  BY <1>4 DEF Claim
<1> QED
  BY <1>1, <1>2, <1>5 DEF Inquiry

\* The inquiry that was there already is the one to show.
LEMMA FoundInv ==
  ASSUME InquiryInv, NEW r \in Requests, request[r].pc # "idle", NEW i \in Same(r),
         request' = [request EXCEPT ![r].pc = "handoff", ![r].found = i.message],
         UNCHANGED <<offer, inquiries, sheet, used>>
  PROVE  InquiryInv'
<1> DEFINE w == [request[r] EXCEPT !.pc = "handoff", !.found = i.message]
<1>1. request[r] \in Request /\ request \in [Requests -> Request]
  BY DEF InquiryInv, TypeOK
<1>2. i.message \in Messages
  BY SameOffer
<1>3. "handoff" \in Steps
  BY DEF Steps
<1>4. /\ w \in Request /\ w.pc = "handoff" /\ w.student = request[r].student
      /\ w.submission = request[r].submission /\ w.offer = request[r].offer
      /\ w.message = request[r].message /\ w.found = i.message
  BY <1>1, <1>2, <1>3 DEF Request
<1>5. request' = [request EXCEPT ![r] = w]
  BY <1>1
<1> HIDE DEF w
<1>6. [student |-> w.student, submission |-> w.submission,
       offer |-> w.offer, message |-> w.found] \in inquiries'
  BY <1>4, SameOffer
<1> QED
  BY <1>4, <1>5, <1>6, StatementFrame

LEMMA FindInv ==
  ASSUME InquiryInv, NEW r \in Requests, Find(r) \/ Refind(r)
  PROVE  InquiryInv'
<1>1. request[r].pc # "idle" /\ UNCHANGED <<offer, inquiries, sheet, used>>
  BY DEF Find, Refind
<1>2. CASE Goto(r, "insert")
  BY <1>1, <1>2, GotoInv DEF Recorded
<1>3. CASE \E i \in Same(r) :
             request' = [request EXCEPT ![r].pc = "handoff", ![r].found = i.message]
  BY <1>1, <1>3, FoundInv
<1> QED
  BY <1>2, <1>3 DEF Find, Refind

\* The index lets one inquiry in.
LEMMA InsertInv ==
  ASSUME InquiryInv, NEW r \in Requests, Insert(r)
  PROVE  InquiryInv'
<1>1. request[r].pc = "insert" /\ UNCHANGED <<offer, sheet, used>>
  BY DEF Insert
<1>2. CASE Goto(r, "classify") /\ UNCHANGED inquiries
  BY <1>1, <1>2, GotoInv DEF Recorded
<1>3. CASE Goto(r, "refind") /\ UNCHANGED inquiries
  BY <1>1, <1>3, GotoInv DEF Recorded
<1>4. ASSUME Same(r) = {}, inquiries' = inquiries \cup {ItsInquiry(r)},
             NEW pc \in {"handoff", "ErrInternal"},
             request' = [request EXCEPT ![r].pc = pc, ![r].created = TRUE,
                                        ![r].found = request[r].message]
      PROVE  InquiryInv'
  <2> DEFINE w == [request[r] EXCEPT !.pc = pc, !.created = TRUE, !.found = request[r].message]
  <2>1. request[r] \in Request /\ request \in [Requests -> Request]
    BY DEF InquiryInv, TypeOK
  <2>2. pc \in Steps \cup Errors /\ pc # "idle"
    BY DEF Steps, Errors, Refusals
  <2>3. request[r].message \in Messages
    BY <1>1 DEF InquiryInv, RequestOK
  <2>4. /\ w \in Request /\ w.pc = pc /\ w.student = request[r].student
        /\ w.submission = request[r].submission /\ w.offer = request[r].offer
        /\ w.message = request[r].message /\ w.found = request[r].message
    BY <2>1, <2>2, <2>3 DEF Request
  <2>5. request' = [request EXCEPT ![r] = w]
    BY <1>4, <2>1
  <2> HIDE DEF w
  <2>6. [student |-> w.student, submission |-> w.submission,
         offer |-> w.offer, message |-> w.found] \in inquiries'
    BY <1>4, <2>4 DEF ItsInquiry
  <2> QED
    BY <1>1, <1>4, <2>2, <2>4, <2>5, <2>6, StatementFrame
<1> QED
  BY <1>2, <1>3, <1>4 DEF Insert, ItsInquiry

LEMMA HandoffInv ==
  ASSUME InquiryInv, NEW r \in Requests, Handoff(r)
  PROVE  InquiryInv'
<1>1. request[r].pc = "handoff" /\ UNCHANGED <<offer, inquiries, sheet, used>>
  BY DEF Handoff
<1>2. PICK pc \in Recorded : Goto(r, pc)
  BY DEF Handoff, Recorded
<1> QED
  BY <1>1, <1>2, GotoInv

LEMMA ErrorInv ==
  ASSUME InquiryInv, NEW r \in Requests, Classify(r) \/ Fail(r)
  PROVE  InquiryInv'
<1>1. request[r].pc # "idle" /\ UNCHANGED <<offer, inquiries, sheet, used>>
  BY DEF Classify, Fail, Steps
<1>2. PICK pc \in Errors : Goto(r, pc)
  BY DEF Classify, Fail, Errors, Refusals
<1>3. pc \notin Recorded
  BY DEF Errors, Refusals, Recorded
<1> QED
  BY <1>1, <1>2, <1>3, GotoInv

-----------------------------------------------------------------------------
\* The sheet.

\* A sheet is opened for an offer, under an ID that nobody knows.
LEMMA OpenInv ==
  ASSUME InquiryInv, NEW u \in Students, NEW o \in OfferIds, NEW s \in Submissions, Open(u, o, s)
  PROVE  InquiryInv'
<1> DEFINE w == [Closed EXCEPT !.shown = "form", !.offer = o, !.submission = s]
<1>1. /\ w \in Sheet /\ w.shown = "form" /\ w.offer = o /\ w.submission = s
      /\ w.request = None
  BY ClosedType DEF Sheet
<1>2. sheet' = [sheet EXCEPT ![u] = w] /\ UNCHANGED <<offer, inquiries, request, used>>
  BY DEF Open
<1> HIDE DEF w
<1>3. TypeOK /\ sheet'[u] = w /\ \A v \in Students \ {u} : sheet'[v] = sheet[v]
  BY <1>2 DEF InquiryInv, TypeOK
<1>4. TypeOK'
  BY <1>1, <1>2, <1>3 DEF TypeOK
<1>5. OneInquiry' /\ \A r \in Requests : RequestOK(r)'
  BY <1>2 DEF InquiryInv, OneInquiry, RequestOK
<1>6. HandoffMatches'
  BY <1>1, <1>2, <1>3 DEF InquiryInv, HandoffMatches
<1>7. used[u] = {}
  BY DEF Open, InquiryInv, SheetOK
<1>8. ASSUME NEW v \in Students PROVE SheetOK(v)'
  <2>1. SheetOK(v)
    BY DEF InquiryInv
  <2>2. CASE v = u
    BY <1>1, <1>2, <1>3, <1>7, <2>2 DEF SheetOK
  <2>3. CASE v # u
    BY <1>2, <1>3, <2>1, <2>3 DEF SheetOK
  <2> QED
    BY <2>2, <2>3
<1>9. ASSUME NEW c \in Claims' PROVE c \in Claims \/ c = Claim(w, u)
  <2>1. ASSUME NEW v \in Students, sheet'[v].shown # "closed", c = Claim(sheet'[v], v)
        PROVE  c \in Claims \/ c = Claim(w, u)
    BY <1>3, <2>1 DEF Claims
  <2>2. ASSUME NEW r \in Requests, request[r].pc # "idle",
               c = Claim(request[r], request[r].student)
        PROVE  c \in Claims
    BY <2>2 DEF Claims
  <2>3. ASSUME NEW i \in inquiries, c = Claim(i, i.student) PROVE c \in Claims
    BY <2>3 DEF Claims
  <2> QED
    BY <1>2, <2>1, <2>2, <2>3 DEF Claims
<1>10. ASSUME NEW c \in Claims PROVE c.submission # s
  <2>1. Fresh(s)
    BY DEF Open
  <2> QED
    BY <2>1 DEF Claims, Claim, Fresh
<1>11. Claim(w, u).submission = s
  BY <1>1 DEF Claim
<1>12. OneOffer'
  BY <1>9, <1>10, <1>11 DEF InquiryInv, OneOffer
<1>13. RecordedOnce'
  BY <1>5, <1>8, OnceNext
<1> QED
  BY <1>4, <1>5, <1>6, <1>8, <1>12, <1>13 DEF InquiryInv

\* A step of the sheet of u that keeps its offer and its ID, or closes it.
LEMMA SheetFrame ==
  ASSUME InquiryInv, NEW u \in Students, NEW w \in Sheet, sheet' = [sheet EXCEPT ![u] = w],
         \/ w.shown = "closed"
         \/ /\ sheet[u].shown # "closed"
            /\ w.offer = sheet[u].offer /\ w.submission = sheet[u].submission,
         UNCHANGED <<offer, inquiries>>,
         request' \in [Requests -> Request], used' \in [Students -> SUBSET Submissions],
         \A r \in Requests :
           \/ request'[r] = request[r]
           \/ request'[r].pc = "idle"
           \/ /\ sheet[u].shown # "closed" /\ request'[r].student = u
              /\ request'[r].offer = sheet[u].offer
              /\ request'[r].submission = sheet[u].submission,
         \A v \in Students \ {u} : used'[v] = used[v],
         \A v \in Students \ {u} : sheet[v].request # None =>
           request'[sheet[v].request] = request[sheet[v].request],
         SheetOK(u)', \A r \in Requests : RequestOK(r)',
         w.shown = "recorded" =>
           [student |-> u, submission |-> w.submission, offer |-> w.offer,
            message |-> w.handoff] \in inquiries
  PROVE  InquiryInv'
<1>1. TypeOK /\ sheet'[u] = w /\ \A v \in Students \ {u} : sheet'[v] = sheet[v]
  BY DEF InquiryInv, TypeOK
<1>2. TypeOK'
  BY <1>1 DEF TypeOK
<1>3. OneInquiry'
  BY DEF InquiryInv, OneInquiry
<1>4. HandoffMatches'
  BY <1>1 DEF InquiryInv, HandoffMatches
<1>5. Claims' \subseteq Claims
  <2> SUFFICES ASSUME NEW c \in Claims' PROVE c \in Claims
    OBVIOUS
  <2>1. sheet[u].shown # "closed" => Claim(sheet[u], u) \in Claims
    BY DEF Claims
  <2>2. ASSUME NEW v \in Students, sheet'[v].shown # "closed", c = Claim(sheet'[v], v)
        PROVE  c \in Claims
    <3>1. CASE v = u
      <4>1. sheet[u].shown # "closed" /\ c = Claim(sheet[u], u)
        BY <1>1, <2>2, <3>1 DEF Claim
      <4> QED
        BY <2>1, <4>1
    <3>2. CASE v # u
      BY <1>1, <2>2, <3>2 DEF Claims
    <3> QED
      BY <3>1, <3>2
  <2>3. ASSUME NEW r \in Requests, request'[r].pc # "idle",
               c = Claim(request'[r], request'[r].student)
        PROVE  c \in Claims
    <3>1. CASE request'[r] = request[r]
      BY <2>3, <3>1 DEF Claims
    <3>2. CASE request'[r] # request[r]
      <4>1. sheet[u].shown # "closed" /\ c = Claim(sheet[u], u)
        BY <2>3, <3>2 DEF Claim
      <4> QED
        BY <2>1, <4>1
    <3> QED
      BY <3>1, <3>2
  <2>4. ASSUME NEW i \in inquiries, c = Claim(i, i.student) PROVE c \in Claims
    BY <2>4 DEF Claims
  <2> QED
    BY <2>2, <2>3, <2>4 DEF Claims
<1>6. ASSUME NEW v \in Students PROVE SheetOK(v)'
  <2>1. CASE v = u
    BY <2>1
  <2>2. CASE v # u
    <3>1. SheetOK(v) /\ sheet'[v] = sheet[v] /\ used'[v] = used[v]
      BY <1>1, <2>2 DEF InquiryInv
    <3>2. sheet[v].request # None =>
            request'[sheet[v].request] = request[sheet[v].request]
      BY <2>2
    <3> QED
      BY <3>1, <3>2 DEF SheetOK
  <2> QED
    BY <2>1, <2>2
<1> QED
  BY <1>2, <1>3, <1>4, <1>5, <1>6, Frame

LEMMA CloseInv ==
  ASSUME InquiryInv, NEW u \in Students, Close(u)
  PROVE  InquiryInv'
<1>1. /\ sheet' = [sheet EXCEPT ![u] = Closed] /\ used' = [used EXCEPT ![u] = {}]
      /\ UNCHANGED <<offer, inquiries, request>>
  BY DEF Close
<1>2. /\ TypeOK /\ sheet'[u] = Closed /\ used'[u] = {}
      /\ \A v \in Students \ {u} : used'[v] = used[v]
  BY <1>1 DEF InquiryInv, TypeOK
<1>3. /\ request' \in [Requests -> Request] /\ used' \in [Students -> SUBSET Submissions]
      /\ \A r \in Requests : request'[r] = request[r]
  BY <1>1, <1>2 DEF TypeOK
<1>4. SheetOK(u)' /\ \A r \in Requests : RequestOK(r)'
  BY <1>1, <1>2, ClosedType DEF InquiryInv, SheetOK, RequestOK
<1>5. \A v \in Students \ {u} : sheet[v].request # None =>
        request'[sheet[v].request] = request[sheet[v].request]
  BY <1>1
<1> QED
  BY <1>1, <1>2, <1>3, <1>4, <1>5, ClosedType, SheetFrame

\* A try or a retry is about the sheet's offer, under its ID.
LEMMA SubmitInv ==
  ASSUME InquiryInv, NEW u \in Students, NEW r \in Requests, NEW question \in Messages,
         Submit(u, r, question)
  PROVE  InquiryInv'
<1> DEFINE q == [NoRequest EXCEPT !.pc = "find", !.student = u, !.offer = sheet[u].offer,
                                  !.submission = sheet[u].submission, !.message = question]
           w == [sheet[u] EXCEPT !.shown = "pending", !.request = r, !.asked = question]
<1>1. /\ TypeOK /\ SheetOK(u) /\ sheet[u] \in Sheet /\ sheet[u].shown # "closed"
      /\ sheet[u].submission \in Submissions /\ sheet[u].offer \in OfferIds
      /\ request[r] = NoRequest
  BY DEF Submit, InquiryInv, TypeOK, SheetOK
<1>2. /\ q \in Request /\ q.pc = "find" /\ q.student = u /\ q.offer = sheet[u].offer
      /\ q.submission = sheet[u].submission /\ q.message = question
  BY <1>1, NoRequestType DEF Request, Steps
<1>3. /\ w \in Sheet /\ w.shown = "pending" /\ w.request = r
      /\ w.offer = sheet[u].offer /\ w.submission = sheet[u].submission
  BY <1>1 DEF Sheet
<1>4. /\ request' = [request EXCEPT ![r] = q]
      /\ sheet' = [sheet EXCEPT ![u].shown = "pending", ![u].request = r,
                                ![u].asked = question]
      /\ used' = [used EXCEPT ![u] = @ \cup {sheet[u].submission}]
      /\ UNCHANGED <<offer, inquiries>>
  BY DEF Submit
<1>5. sheet' = [sheet EXCEPT ![u] = w]
  BY <1>1, <1>4 DEF TypeOK
<1> HIDE DEF q, w
<1>6. /\ request' \in [Requests -> Request] /\ request'[r] = q
      /\ \A k \in Requests \ {r} : request'[k] = request[k]
      /\ used' \in [Students -> SUBSET Submissions]
      /\ used'[u] = used[u] \cup {sheet[u].submission}
      /\ \A v \in Students \ {u} : used'[v] = used[v]
      /\ sheet'[u] = w
  BY <1>1, <1>2, <1>3, <1>4, <1>5 DEF TypeOK
<1>7. SheetOK(u)'
  BY <1>1, <1>2, <1>3, <1>6 DEF SheetOK
<1>8. \A k \in Requests : RequestOK(k)'
  BY <1>1, <1>2, <1>4, <1>6 DEF InquiryInv, RequestOK, Recorded
<1>9. \A v \in Students \ {u} : sheet[v].request # None =>
        request'[sheet[v].request] = request[sheet[v].request]
  BY <1>1, <1>6, NoRequestType DEF InquiryInv, SheetOK, TypeOK, Sheet
<1>10. \A k \in Requests : \/ request'[k] = request[k]
                           \/ /\ request'[k].student = u
                              /\ request'[k].offer = sheet[u].offer
                              /\ request'[k].submission = sheet[u].submission
  BY <1>2, <1>6
<1> QED
  BY <1>1, <1>3, <1>4, <1>5, <1>6, <1>7, <1>8, <1>9, <1>10, SheetFrame

LEMMA ConnectionLostInv ==
  ASSUME InquiryInv, NEW u \in Students, ConnectionLost(u)
  PROVE  InquiryInv'
<1> DEFINE w == [sheet[u] EXCEPT !.shown = "failed", !.request = None]
<1>1. /\ TypeOK /\ SheetOK(u) /\ sheet[u] \in Sheet /\ sheet[u].shown # "closed"
  BY DEF ConnectionLost, InquiryInv, TypeOK
<1>2. /\ w \in Sheet /\ w.shown = "failed" /\ w.request = None
      /\ w.offer = sheet[u].offer /\ w.submission = sheet[u].submission
  BY <1>1 DEF Sheet
<1>3. sheet' = [sheet EXCEPT ![u] = w] /\ UNCHANGED <<offer, inquiries, request, used>>
  BY <1>1 DEF ConnectionLost, TypeOK
<1> HIDE DEF w
<1>4. /\ sheet'[u] = w /\ request' \in [Requests -> Request]
      /\ used' \in [Students -> SUBSET Submissions]
      /\ \A r \in Requests : request'[r] = request[r]
  BY <1>1, <1>2, <1>3 DEF TypeOK
<1>5. SheetOK(u)' /\ \A r \in Requests : RequestOK(r)'
  BY <1>1, <1>2, <1>3, <1>4 DEF InquiryInv, SheetOK, RequestOK
<1>6. /\ \A v \in Students \ {u} : sheet[v].request # None =>
           request'[sheet[v].request] = request[sheet[v].request]
      /\ \A v \in Students \ {u} : used'[v] = used[v]
  BY <1>3
<1> QED
  BY <1>1, <1>2, <1>3, <1>4, <1>5, <1>6, SheetFrame

\* The answer of r is shown by the sheet that waits for it, if it still does:
\* then r is about what the sheet is about.
LEMMA RespondInv ==
  ASSUME InquiryInv, NEW r \in Requests, Respond(r)
  PROVE  InquiryInv'
<1>1. /\ TypeOK /\ request[r] \in Request /\ RequestOK(r)
      /\ request[r].pc \in Recorded \cup Errors /\ request[r].pc # "idle"
  BY DEF Respond, InquiryInv, TypeOK, Recorded, Errors, Refusals
<1>2. PICK u \in Students : u = request[r].student
  BY <1>1 DEF RequestOK
<1> DEFINE w == CASE sheet[u].request # r -> sheet[u]
                  [] sheet[u].request = r /\ request[r].pc \in Recorded ->
                       [sheet[u] EXCEPT !.shown = "recorded", !.request = None,
                                        !.handoff = request[r].found]
                  [] OTHER -> [sheet[u] EXCEPT !.shown = "failed", !.request = None]
<1>3. SheetOK(u) /\ sheet[u] \in Sheet
  BY <1>1, <1>2 DEF InquiryInv, TypeOK
<1>4. /\ sheet' = [sheet EXCEPT ![u] = w] /\ request' = [request EXCEPT ![r] = NoRequest]
      /\ UNCHANGED <<offer, inquiries, used>>
  BY <1>2 DEF Respond, InquiryInv, TypeOK
<1>5. sheet[u].request = r => sheet[u].shown # "closed"
  BY <1>3 DEF SheetOK
<1>6. /\ w \in Sheet /\ w.offer = sheet[u].offer /\ w.submission = sheet[u].submission
      /\ sheet[u].request # r => w = sheet[u]
      /\ sheet[u].request = r => w.request = None /\ w.shown \in {"recorded", "failed"}
      /\ sheet[u].request = r /\ w.shown = "recorded" =>
           request[r].pc \in Recorded /\ w.handoff = request[r].found
  <2>1. CASE sheet[u].request # r
    <3>1. w = sheet[u]
      BY <2>1
    <3> HIDE DEF w
    <3> QED
      BY <1>3, <2>1, <3>1
  <2>2. CASE sheet[u].request = r /\ request[r].pc \in Recorded
    <3>1. w = [sheet[u] EXCEPT !.shown = "recorded", !.request = None,
                               !.handoff = request[r].found]
      BY <2>2
    <3>2. request[r].found \in Messages \cup {None}
      BY <1>1 DEF Request
    <3> HIDE DEF w
    <3> QED
      BY <1>3, <2>2, <3>1, <3>2 DEF Sheet
  <2>3. CASE sheet[u].request = r /\ request[r].pc \notin Recorded
    <3>1. w = [sheet[u] EXCEPT !.shown = "failed", !.request = None]
      BY <2>3
    <3> HIDE DEF w
    <3> QED
      BY <1>3, <2>3, <3>1 DEF Sheet
  <2> QED
    BY <2>1, <2>2, <2>3
<1> HIDE DEF w
<1>7. /\ sheet'[u] = w /\ request'[r] = NoRequest /\ request'[r].pc = "idle"
      /\ \A k \in Requests \ {r} : request'[k] = request[k]
      /\ request' \in [Requests -> Request] /\ used' \in [Students -> SUBSET Submissions]
  BY <1>1, <1>2, <1>4, <1>6, NoRequestType DEF TypeOK
<1>8. SheetOK(u)'
  <2>1. CASE sheet[u].request # r
    <3>1. /\ sheet'[u] = sheet[u] /\ used'[u] = used[u]
          /\ sheet[u].request # None =>
               request'[sheet[u].request] = request[sheet[u].request]
      BY <1>3, <1>4, <1>6, <1>7, <2>1 DEF Sheet
    <3> QED
      BY <1>3, <3>1 DEF SheetOK
  <2>2. CASE sheet[u].request = r
    <3>1. /\ sheet'[u].request = None /\ sheet'[u].shown # "closed" /\ used'[u] = used[u]
          /\ sheet'[u].offer = sheet[u].offer /\ sheet'[u].submission = sheet[u].submission
          /\ sheet[u].shown # "closed"
      BY <1>4, <1>5, <1>6, <1>7, <2>2
    <3> QED
      BY <1>3, <3>1 DEF SheetOK
  <2> QED
    BY <2>1, <2>2
<1>9. \A k \in Requests : RequestOK(k)'
  <2> SUFFICES ASSUME NEW k \in Requests PROVE RequestOK(k)'
    OBVIOUS
  <2>1. RequestOK(k)
    BY DEF InquiryInv
  <2>2. request'[k].pc = "idle" \/ request'[k] = request[k]
    BY <1>7
  <2> QED
    BY <1>4, <2>1, <2>2 DEF RequestOK
<1>10. \A v \in Students \ {u} : sheet[v].request # None =>
         request'[sheet[v].request] = request[sheet[v].request]
  <2> SUFFICES ASSUME NEW v \in Students \ {u}, sheet[v].request # None
               PROVE  request'[sheet[v].request] = request[sheet[v].request]
    OBVIOUS
  <2>1. request[sheet[v].request].student = v /\ sheet[v].request \in Requests
    BY <1>1 DEF InquiryInv, SheetOK, TypeOK, Sheet
  <2> QED
    BY <1>2, <1>7, <2>1
<1>11. w.shown = "recorded" =>
         [student |-> u, submission |-> w.submission, offer |-> w.offer,
          message |-> w.handoff] \in inquiries
  <2>1. CASE sheet[u].request # r
    <3>1. w = sheet[u]
      BY <1>6, <2>1
    <3> QED
      BY <1>2, <3>1 DEF InquiryInv, HandoffMatches
  <2>2. CASE sheet[u].request = r /\ w.shown = "recorded"
    <3>1. request[r].pc \in Recorded /\ w.handoff = request[r].found
      BY <1>6, <2>2
    <3>2. request[r].submission = sheet[u].submission
      BY <1>3, <2>2 DEF SheetOK
    <3>3. Claim(request[r], u) \in Claims /\ Claim(sheet[u], u) \in Claims
      BY <1>1, <1>2, <1>5, <2>2 DEF Claims
    <3>4. Claim(request[r], u) = Claim(sheet[u], u)
      BY <3>2, <3>3 DEF InquiryInv, OneOffer, Claim
    <3>5. request[r].offer = sheet[u].offer
      BY <3>4 DEF Claim
    <3>6. [student |-> request[r].student, submission |-> request[r].submission,
           offer |-> request[r].offer, message |-> request[r].found] \in inquiries
      BY <1>1, <3>1 DEF RequestOK
    <3> QED
      BY <1>2, <1>6, <3>1, <3>2, <3>5, <3>6
  <2> QED
    BY <2>1, <2>2
<1>12. w.shown = "closed" \/ sheet[u].shown # "closed"
  BY <1>5, <1>6
<1>13. /\ \A k \in Requests : request'[k] = request[k] \/ request'[k].pc = "idle"
       /\ \A v \in Students \ {u} : used'[v] = used[v]
  BY <1>4, <1>7
<1> QED
  BY <1>2, <1>4, <1>6, <1>7, <1>8, <1>9, <1>10, <1>11, <1>12, <1>13, SheetFrame

\* The offer changes, and nobody's claim about it.
LEMMA ChangeOfferInv ==
  ASSUME InquiryInv, NEW o \in OfferIds, NEW s \in OfferStates, ChangeOffer(o, s)
  PROVE  InquiryInv'
<1>1. /\ offer' \in [OfferIds -> OfferStates]
      /\ UNCHANGED <<inquiries, sheet, request, used>>
  BY DEF ChangeOffer, InquiryInv, TypeOK
<1>2. TypeOK' /\ OneInquiry' /\ HandoffMatches' /\ Claims' = Claims
  BY <1>1 DEF InquiryInv, TypeOK, OneInquiry, HandoffMatches, Claims
<1>3. /\ \A r \in Requests : RequestOK(r)'
      /\ \A u \in Students : SheetOK(u)'
  BY <1>1 DEF InquiryInv, RequestOK, SheetOK
<1> QED
  BY <1>2, <1>3, Frame

LEMMA StutterInv == InquiryInv /\ UNCHANGED vars => InquiryInv'
<1> SUFFICES ASSUME InquiryInv, UNCHANGED vars PROVE InquiryInv'
  OBVIOUS
<1>1. TypeOK' /\ OneInquiry' /\ HandoffMatches' /\ Claims' = Claims
  BY DEF vars, InquiryInv, TypeOK, OneInquiry, HandoffMatches, Claims
<1>2. /\ \A r \in Requests : RequestOK(r)'
      /\ \A u \in Students : SheetOK(u)'
  BY DEF vars, InquiryInv, RequestOK, SheetOK
<1> QED
  BY <1>1, <1>2, Frame

-----------------------------------------------------------------------------
LEMMA NextInv == InquiryInv /\ [Next]_vars => InquiryInv'
<1> SUFFICES ASSUME InquiryInv, Next PROVE InquiryInv'
  BY StutterInv
<1>1. ASSUME NEW u \in Students, NEW o \in OfferIds, NEW s \in Submissions, Open(u, o, s)
      PROVE  InquiryInv'
  BY <1>1, OpenInv
<1>2. ASSUME NEW u \in Students, NEW r \in Requests, NEW question \in Messages,
             Submit(u, r, question)
      PROVE  InquiryInv'
  BY <1>2, SubmitInv
<1>3. ASSUME NEW u \in Students, Close(u) \/ ConnectionLost(u) PROVE InquiryInv'
  BY <1>3, CloseInv, ConnectionLostInv
<1>4. ASSUME NEW r \in Requests, Statement(r) \/ Fail(r) \/ Respond(r) PROVE InquiryInv'
  BY <1>4, FindInv, InsertInv, HandoffInv, ErrorInv, RespondInv DEF Statement
<1>5. ASSUME NEW o \in OfferIds, NEW s \in OfferStates, ChangeOffer(o, s) PROVE InquiryInv'
  BY <1>5, ChangeOfferInv
<1> QED
  BY <1>1, <1>2, <1>3, <1>4, <1>5 DEF Next

\* However often a question is sent from an open sheet, whatever was lost and in
\* whatever order the requests run on the server, it is recorded at most once:
\* handleSubmit of web/src/features/workflow/inquiry-sheet.tsx with Submit of
\* api/internal/repo/inquiry.go.
THEOREM InquiryInductive == Spec => []InquiryInv
BY InitInv, NextInv, PTL DEF Spec

\* A sheet that says "recorded" hands over a question that is in the database,
\* on its offer and with its words, though an earlier try may have been the one
\* that was recorded.
THEOREM HandoffIsRecorded == Spec => []HandoffMatches
<1>1. InquiryInv => HandoffMatches
  BY DEF InquiryInv
<1> QED
  BY <1>1, InquiryInductive, PTL

-----------------------------------------------------------------------------
\* Refusals.  What they say rests on the history of a request, which no step but
\* its own, a new question and a change of the offer touch.

LEMMA InitSeen == Init => RefusalsInv
BY NoRequestType DEF Init, RefusalsInv, SeenOK, RefusalTrue, Facts, Steps, Refusals

\* A row under the ID of a request stays.
LEMMA SameStays ==
  ASSUME NEW r, inquiries \subseteq inquiries',
         request'[r].student = request[r].student,
         request'[r].submission = request[r].submission
  PROVE  Same(r) # {} => Same(r)' # {}
BY DEF Same, Recordings

\* What is left to show of a step on the server, or of the sheet alone.
LEMMA SeenFrame ==
  ASSUME RefusalsInv, UNCHANGED <<offer, seen>>, inquiries \subseteq inquiries',
         \A r \in Requests :
           /\ request'[r].student = request[r].student
           /\ request'[r].submission = request[r].submission
           /\ request'[r].offer = request[r].offer,
         \A r \in Requests :
           \/ request'[r].pc = request[r].pc
           \/ /\ request[r].pc \in Steps
              /\ request'[r].pc \in {"insert", "refind", "classify"} \cup Refusals =>
                   "recorded" \notin seen[r]
              /\ request'[r].pc = "classify" =>
                   \/ "shut" \in seen[r]
                   \/ AgentUser[request[r].offer] = request[r].student
              /\ request'[r].pc \in Refusals => RefusalTrue(r)'
  PROVE  RefusalsInv'
<1> SUFFICES ASSUME NEW r \in Requests PROVE SeenOK(r)' /\ RefusalTrue(r)'
  BY DEF RefusalsInv
<1>1. SeenOK(r) /\ RefusalTrue(r) /\ (Same(r) # {} => Same(r)' # {})
  BY SameStays DEF RefusalsInv
<1>2. CASE request'[r].pc = request[r].pc
  BY <1>1, <1>2 DEF SeenOK, RefusalTrue
<1>3. CASE request'[r].pc # request[r].pc
  <2>1. SeenOK(r)'
    BY <1>1, <1>3 DEF SeenOK
  <2>2. RefusalTrue(r)'
    BY <1>3 DEF RefusalTrue, Refusals
  <2> QED
    BY <2>1, <2>2
<1> QED
  BY <1>2, <1>3

\* A statement of r that goes on to pc.
LEMMA GoesOn ==
  ASSUME InquiryInv, RefusalsInv, NEW r \in Requests, NEW w \in Request,
         request' = [request EXCEPT ![r] = w], UNCHANGED <<offer, seen>>,
         inquiries \subseteq inquiries', request[r].pc \in Steps,
         w.student = request[r].student, w.submission = request[r].submission,
         w.offer = request[r].offer,
         w.pc \in {"insert", "refind", "classify"} \cup Refusals => "recorded" \notin seen[r],
         w.pc = "classify" =>
           "shut" \in seen[r] \/ AgentUser[request[r].offer] = request[r].student,
         w.pc \in Refusals => RefusalTrue(r)'
  PROVE  RefusalsInv'
<1>1. request'[r] = w /\ \A q \in Requests \ {r} : request'[q] = request[q]
  BY DEF InquiryInv, TypeOK
<1>2. ASSUME NEW q \in Requests
      PROVE  /\ request'[q].student = request[q].student
             /\ request'[q].submission = request[q].submission
             /\ request'[q].offer = request[q].offer
             /\ q # r => request'[q].pc = request[q].pc
  BY <1>1
<1> QED
  BY <1>1, <1>2, SeenFrame

LEMMA GotoSeen ==
  ASSUME InquiryInv, RefusalsInv, NEW r \in Requests, NEW pc, Goto(r, pc),
         UNCHANGED <<offer, inquiries, seen>>, request[r].pc \in Steps,
         pc \in Steps \cup Recorded \cup Errors,
         pc \in {"insert", "refind", "classify"} \cup Refusals => "recorded" \notin seen[r],
         pc = "classify" =>
           "shut" \in seen[r] \/ AgentUser[request[r].offer] = request[r].student,
         pc = "ErrOfferUnavailable" =>
           "shut" \in seen[r] /\ AgentUser[request[r].offer] # request[r].student,
         pc = "ErrOwnOffer" => AgentUser[request[r].offer] = request[r].student,
         pc = "ErrNotFound" => offer[request[r].offer] = "archived"
  PROVE  RefusalsInv'
<1> DEFINE w == [request[r] EXCEPT !.pc = pc]
<1>1. request[r] \in Request /\ request \in [Requests -> Request]
  BY DEF InquiryInv, TypeOK
<1>2. /\ w \in Request /\ w.pc = pc /\ w.student = request[r].student
      /\ w.submission = request[r].submission /\ w.offer = request[r].offer
  BY <1>1 DEF Request
<1>3. request' = [request EXCEPT ![r] = w] /\ request'[r] = w
  BY <1>1 DEF Goto
<1> HIDE DEF w
<1>4. RefusalTrue(r)'
  BY <1>2, <1>3 DEF RefusalTrue
<1> QED
  BY <1>2, <1>3, <1>4, GoesOn

LEMMA StatementSeen ==
  ASSUME InquiryInv, RefusalsInv, NEW r \in Requests, Statement(r) \/ Fail(r)
  PROVE  RefusalsInv'
<1>1. /\ SeenOK(r) /\ request[r] \in Request /\ request \in [Requests -> Request]
      /\ request[r].pc # "idle" => RequestOK(r)
  BY DEF InquiryInv, TypeOK, RefusalsInv
<1>2. ASSUME NEW message \in Messages, UNCHANGED <<offer, seen>>,
             inquiries \subseteq inquiries', request[r].pc \in Steps,
             NEW pc \in {"handoff", "ErrInternal"}, NEW created \in BOOLEAN,
             request' = [request EXCEPT ![r].pc = pc, ![r].created = created,
                                        ![r].found = message]
      PROVE  RefusalsInv'
  <2> DEFINE w == [request[r] EXCEPT !.pc = pc, !.created = created, !.found = message]
  <2>1. /\ w \in Request /\ w.pc = pc /\ w.student = request[r].student
        /\ w.submission = request[r].submission /\ w.offer = request[r].offer
    BY <1>1 DEF Request, Steps, Errors
  <2>2. request' = [request EXCEPT ![r] = w]
    BY <1>1, <1>2
  <2> HIDE DEF w
  <2>3. pc \notin {"insert", "refind", "classify"} \cup Refusals
    BY DEF Refusals
  <2> QED
    BY <1>2, <2>1, <2>2, <2>3, GoesOn
<1>3. ASSUME NEW i \in Same(r), UNCHANGED <<offer, inquiries, seen>>, request[r].pc \in Steps,
             request' = [request EXCEPT ![r].pc = "handoff", ![r].found = i.message]
      PROVE  RefusalsInv'
  <2>1. i.message \in Messages
    BY <1>3, SameOffer DEF Steps
  <2>2. PICK created \in BOOLEAN : created = request[r].created
    BY <1>1 DEF Request
  <2>3. request' = [request EXCEPT ![r].pc = "handoff", ![r].created = created,
                                   ![r].found = i.message]
    BY <1>1, <1>3, <2>2 DEF Request
  <2> QED
    BY <1>2, <1>3, <2>1, <2>3
<1>4. CASE Find(r)
  <2>1. request[r].pc \in Steps /\ UNCHANGED <<offer, inquiries, seen>>
    BY <1>4 DEF Find, Steps
  <2>2. CASE Same(r) = {} /\ Goto(r, "insert")
    BY <1>1, <2>1, <2>2, GotoSeen DEF SeenOK, Steps
  <2> QED
    BY <1>3, <1>4, <2>1, <2>2 DEF Find
<1>5. CASE Refind(r)
  BY <1>3, <1>5 DEF Refind, Steps
<1>6. CASE Insert(r)
  <2>1. /\ request[r].pc = "insert" /\ request[r].pc \in Steps
        /\ "recorded" \notin seen[r] /\ UNCHANGED <<offer, seen>>
    BY <1>1, <1>6 DEF Insert, Steps, SeenOK
  <2>2. CASE ~Eligible(r) /\ Goto(r, "classify") /\ UNCHANGED inquiries
    <3>1. "shut" \in seen[r] \/ AgentUser[request[r].offer] = request[r].student
      BY <1>1, <2>1, <2>2 DEF SeenOK, Eligible
    <3> QED
      BY <2>1, <2>2, <3>1, GotoSeen DEF Steps
  <2>3. CASE Goto(r, "refind") /\ UNCHANGED inquiries
    BY <2>1, <2>3, GotoSeen DEF Steps
  <2>4. request[r].message \in Messages
    BY <1>1, <2>1 DEF RequestOK
  <2> QED
    BY <1>2, <1>6, <2>1, <2>2, <2>3, <2>4 DEF Insert
<1>7. CASE Handoff(r)
  <2>1. PICK pc \in Recorded : Goto(r, pc)
    BY <1>7 DEF Handoff, Recorded
  <2> QED
    BY <1>7, <2>1, GotoSeen DEF Handoff, Recorded, Refusals, Steps
<1>8. CASE Classify(r)
  <2>1. /\ request[r].pc = "classify" /\ request[r].pc \in Steps
        /\ "recorded" \notin seen[r] /\ UNCHANGED <<offer, inquiries, seen>>
        /\ "shut" \in seen[r] \/ AgentUser[request[r].offer] = request[r].student
    BY <1>1, <1>8 DEF Classify, Steps, SeenOK
  <2>2. PICK pc \in Refusals :
          /\ Goto(r, pc)
          /\ pc = "ErrOfferUnavailable" => AgentUser[request[r].offer] # request[r].student
          /\ pc = "ErrOwnOffer" => AgentUser[request[r].offer] = request[r].student
          /\ pc = "ErrNotFound" => offer[request[r].offer] = "archived"
    BY <1>8 DEF Classify, Refusals
  <2>3. pc # "classify" /\ pc \in Errors
    BY DEF Refusals, Errors
  <2> QED
    BY <2>1, <2>2, <2>3, GotoSeen
<1>9. CASE Fail(r)
  BY <1>9, GotoSeen DEF Fail, Errors, Refusals
<1> QED
  BY <1>4, <1>5, <1>6, <1>7, <1>8, <1>9 DEF Statement

\* A question is sent: what the request could know is noted.
LEMMA SubmitSeen ==
  ASSUME InquiryInv, RefusalsInv, NEW u \in Students, NEW r \in Requests,
         NEW question \in Messages, Submit(u, r, question)
  PROVE  RefusalsInv'
<1> DEFINE s == sheet[u].submission
           facts == {f \in Facts :
                       \/ f = "recorded" /\ Recordings(u, s) # {}
                       \/ f = "shut" /\ offer[sheet[u].offer] # "available"}
           w == [NoRequest EXCEPT !.pc = "find", !.student = u, !.offer = sheet[u].offer,
                                  !.submission = s, !.message = question]
<1>1. /\ w.pc = "find" /\ w.student = u /\ w.offer = sheet[u].offer /\ w.submission = s
  BY NoRequestType DEF NoRequest
<1>2. /\ request' = [request EXCEPT ![r] = w] /\ seen' = [seen EXCEPT ![r] = facts]
      /\ UNCHANGED <<offer, inquiries>>
  BY DEF Submit
<1>3. /\ facts \subseteq Facts
      /\ "recorded" \in facts => Recordings(u, s) # {}
      /\ offer[sheet[u].offer] # "available" => "shut" \in facts
  BY DEF Facts
<1> HIDE DEF w, facts
<1>4. /\ request'[r] = w /\ seen'[r] = facts /\ seen' \in [Requests -> SUBSET Facts]
      /\ \A q \in Requests \ {r} : request'[q] = request[q] /\ seen'[q] = seen[q]
  BY <1>2, <1>3 DEF InquiryInv, TypeOK, RefusalsInv
<1> SUFFICES ASSUME NEW q \in Requests PROVE SeenOK(q)' /\ RefusalTrue(q)'
  BY <1>4 DEF RefusalsInv
<1>5. CASE q = r
  <2>1. "recorded" \in seen'[r] => Same(r)' # {}
    BY <1>1, <1>2, <1>3, <1>4 DEF Same, Recordings
  <2> QED
    BY <1>1, <1>2, <1>3, <1>4, <1>5, <2>1 DEF SeenOK, RefusalTrue, Refusals
<1>6. CASE q # r
  <2>1. SeenOK(q) /\ RefusalTrue(q) /\ (Same(q) # {} => Same(q)' # {})
    BY <1>2, <1>4, <1>6, SameStays DEF RefusalsInv
  <2> QED
    BY <1>2, <1>4, <1>6, <2>1 DEF SeenOK, RefusalTrue
<1> QED
  BY <1>5, <1>6

\* The answer is sent, and its history ends.
LEMMA RespondSeen ==
  ASSUME InquiryInv, RefusalsInv, NEW r \in Requests, Respond(r)
  PROVE  RefusalsInv'
<1>1. /\ request'[r] = NoRequest /\ seen'[r] = {} /\ seen' \in [Requests -> SUBSET Facts]
      /\ \A q \in Requests \ {r} : request'[q] = request[q] /\ seen'[q] = seen[q]
      /\ UNCHANGED <<offer, inquiries>>
  BY DEF Respond, InquiryInv, TypeOK, RefusalsInv
<1> SUFFICES ASSUME NEW q \in Requests PROVE SeenOK(q)' /\ RefusalTrue(q)'
  BY <1>1 DEF RefusalsInv
<1>2. CASE q = r
  BY <1>1, <1>2, NoRequestType DEF SeenOK, RefusalTrue, Steps, Refusals
<1>3. CASE q # r
  <2>1. SeenOK(q) /\ RefusalTrue(q) /\ (Same(q) # {} => Same(q)' # {})
    BY <1>1, <1>3, SameStays DEF RefusalsInv
  <2> QED
    BY <1>1, <1>3, <2>1 DEF SeenOK, RefusalTrue
<1> QED
  BY <1>2, <1>3

\* An offer changes under the requests about it, which leaves a trace; archiving
\* is for good.
LEMMA ChangeSeen ==
  ASSUME InquiryInv, RefusalsInv, NEW o \in OfferIds, NEW s \in OfferStates, ChangeOffer(o, s)
  PROVE  RefusalsInv'
<1>1. /\ UNCHANGED <<inquiries, request>> /\ offer[o] # "archived"
      /\ offer'[o] = s /\ \A p \in OfferIds \ {o} : offer'[p] = offer[p]
  BY DEF ChangeOffer, InquiryInv, TypeOK
<1>2. ASSUME NEW q \in Requests
      PROVE  /\ seen'[q] \subseteq Facts /\ seen[q] \subseteq seen'[q]
             /\ "recorded" \in seen'[q] => "recorded" \in seen[q]
             /\ request[q].pc \in Steps /\ request[q].offer = o /\ s # "available" =>
                  "shut" \in seen'[q]
  BY DEF ChangeOffer, RefusalsInv, Facts
<1>3. seen' \in [Requests -> SUBSET Facts]
  BY <1>2 DEF ChangeOffer
<1> SUFFICES ASSUME NEW q \in Requests PROVE SeenOK(q)' /\ RefusalTrue(q)'
  BY <1>3 DEF RefusalsInv
<1>4. SeenOK(q) /\ RefusalTrue(q) /\ (Same(q) # {} => Same(q)' # {})
  BY <1>1, SameStays DEF RefusalsInv
<1>5. request[q].pc # "idle" => request[q].offer \in OfferIds
  BY DEF InquiryInv, RequestOK
<1>6. SeenOK(q)'
  BY <1>1, <1>2, <1>4, <1>5 DEF SeenOK, Steps
<1>7. RefusalTrue(q)'
  BY <1>1, <1>2, <1>4, <1>5 DEF RefusalTrue, Refusals
<1> QED
  BY <1>6, <1>7

LEMMA SheetSeen ==
  ASSUME RefusalsInv, UNCHANGED <<offer, inquiries, request, seen>>
  PROVE  RefusalsInv'
BY DEF RefusalsInv, SeenOK, RefusalTrue, Same, Recordings

\* Whoever is told that an offer is unavailable, one's own or gone, is told the
\* truth, however the offer changes between the two times that Submit of
\* api/internal/repo/inquiry.go reads it and whoever overtakes the request; and a
\* retry of what was recorded is not refused.
THEOREM RefusalsInductive == Spec => []RefusalsInv
<1>1. InquiryInv /\ RefusalsInv /\ [Next]_vars => RefusalsInv'
  <2> SUFFICES ASSUME InquiryInv, RefusalsInv, [Next]_vars PROVE RefusalsInv'
    OBVIOUS
  <2>1. CASE UNCHANGED vars
    BY <2>1, SheetSeen DEF vars
  <2>2. ASSUME NEW u \in Students, NEW o \in OfferIds, NEW s \in Submissions, Open(u, o, s)
        PROVE  RefusalsInv'
    BY <2>2, SheetSeen DEF Open
  <2>3. ASSUME NEW u \in Students, NEW r \in Requests, NEW question \in Messages,
               Submit(u, r, question)
        PROVE  RefusalsInv'
    BY <2>3, SubmitSeen
  <2>4. ASSUME NEW u \in Students, Close(u) \/ ConnectionLost(u) PROVE RefusalsInv'
    BY <2>4, SheetSeen DEF Close, ConnectionLost
  <2>5. ASSUME NEW r \in Requests, Statement(r) \/ Fail(r) PROVE RefusalsInv'
    BY <2>5, StatementSeen
  <2>6. ASSUME NEW r \in Requests, Respond(r) PROVE RefusalsInv'
    BY <2>6, RespondSeen
  <2>7. ASSUME NEW o \in OfferIds, NEW s \in OfferStates, ChangeOffer(o, s) PROVE RefusalsInv'
    BY <2>7, ChangeSeen
  <2> QED
    BY <2>1, <2>2, <2>3, <2>4, <2>5, <2>6, <2>7 DEF Next
<1> QED
  BY <1>1, InitSeen, InquiryInductive, PTL DEF Spec

(***************************************************************************)
(* The pages                                                               *)
(***************************************************************************)

USE IdAssumption, FiniteAssumption, PlaceAssumption, CompletenessAssumption, PriceAssumption,
    SearchAssumption

(* Writes *)

\* A write counts, keeps the types, and takes no id away.
LEMMA WriteType ==
  ASSUME CatalogueOK, Write
  PROVE  /\ CatalogueOK'
         /\ writes' = writes + 1
         /\ DOMAIN properties \subseteq DOMAIN properties'
         /\ DOMAIN unitTypes \subseteq DOMAIN unitTypes'
         /\ DOMAIN offers \subseteq DOMAIN offers'
<1> DEFINE Grown == /\ DOMAIN properties \subseteq DOMAIN properties'
                    /\ DOMAIN unitTypes \subseteq DOMAIN unitTypes'
                    /\ DOMAIN offers \subseteq DOMAIN offers'
<1>1. /\ writes \in 0..MaxWrites
      /\ IsTable(properties, Properties, Times) /\ IsTable(unitTypes, UnitTypes, Times)
      /\ IsTable(offers, Offers, Offer) /\ IsTable(media, Media, Medium)
      /\ \A u \in DOMAIN unitTypes : PropertyOf[u] \in DOMAIN properties
      /\ \A o \in DOMAIN offers : UnitOf[o] \in DOMAIN unitTypes
  BY DEF CatalogueOK
<1>2. Tick
  BY DEF Write, CreateProperty, UpdateProperty, CreateUnitType, UpdateUnitType, CreateOffer,
         UpdateOffer, ArchiveOffer, AddMedia, RemoveMedia
<1>3. writes' = writes + 1 /\ writes' \in 0..MaxWrites /\ New \in Times
  BY <1>1, <1>2 DEF Tick, New, Times
<1>4. ASSUME NEW p \in Properties, CreateProperty(p) PROVE CatalogueOK' /\ Grown
  <2>1. IsTable(properties', Properties, Times) /\ DOMAIN properties' = DOMAIN properties \cup {p}
    BY <1>1, <1>3, <1>4 DEF CreateProperty, IsTable, Put
  <2> QED
    BY <1>1, <1>3, <1>4, <2>1 DEF CreateProperty, CatalogueOK
<1>5. ASSUME NEW p \in Properties, UpdateProperty(p) PROVE CatalogueOK' /\ Grown
  <2>1. IsTable(properties', Properties, Times) /\ DOMAIN properties' = DOMAIN properties
    BY <1>1, <1>3, <1>5 DEF UpdateProperty, IsTable, Times
  <2> QED
    BY <1>1, <1>3, <1>5, <2>1 DEF UpdateProperty, CatalogueOK
<1>6. ASSUME NEW u \in UnitTypes, CreateUnitType(u) PROVE CatalogueOK' /\ Grown
  <2>1. IsTable(unitTypes', UnitTypes, Times) /\ DOMAIN unitTypes' = DOMAIN unitTypes \cup {u}
    BY <1>1, <1>3, <1>6 DEF CreateUnitType, IsTable, Put
  <2> QED
    BY <1>1, <1>3, <1>6, <2>1 DEF CreateUnitType, CatalogueOK
<1>7. ASSUME NEW u \in UnitTypes, UpdateUnitType(u) PROVE CatalogueOK' /\ Grown
  <2>1. IsTable(unitTypes', UnitTypes, Times) /\ DOMAIN unitTypes' = DOMAIN unitTypes
    BY <1>1, <1>3, <1>7 DEF UpdateUnitType, IsTable, Times
  <2> QED
    BY <1>1, <1>3, <1>7, <2>1 DEF UpdateUnitType, CatalogueOK
<1>8. ASSUME NEW o \in Offers, NEW price \in Prices, NEW status \in {"available", "unavailable"},
             CreateOffer(o, price, status)
      PROVE  CatalogueOK' /\ Grown
  <2>1. [price |-> price, status |-> status, archived |-> FALSE, updated |-> writes'] \in Offer
    BY <1>3 DEF Offer
  <2>2. IsTable(offers', Offers, Offer) /\ DOMAIN offers' = DOMAIN offers \cup {o}
    BY <1>1, <1>8, <2>1 DEF CreateOffer, IsTable, Put
  <2> QED
    BY <1>1, <1>3, <1>8, <2>2 DEF CreateOffer, CatalogueOK
<1>9. ASSUME NEW o \in Offers, NEW price \in Prices, NEW status \in {"available", "unavailable"},
             UpdateOffer(o, price, status)
      PROVE  CatalogueOK' /\ Grown
  <2>1. IsTable(offers', Offers, Offer) /\ DOMAIN offers' = DOMAIN offers
    BY <1>1, <1>3, <1>9 DEF UpdateOffer, IsTable, Offer
  <2> QED
    BY <1>1, <1>3, <1>9, <2>1 DEF UpdateOffer, CatalogueOK
<1>10. ASSUME NEW o \in Offers, ArchiveOffer(o) PROVE CatalogueOK' /\ Grown
  <2>1. IsTable(offers', Offers, Offer) /\ DOMAIN offers' = DOMAIN offers
    BY <1>1, <1>3, <1>10 DEF ArchiveOffer, IsTable, Offer
  <2> QED
    BY <1>1, <1>3, <1>10, <2>1 DEF ArchiveOffer, CatalogueOK
<1>11. ASSUME NEW target, NEW ms \in SUBSET Media, AddMedia(target, ms) PROVE CatalogueOK' /\ Grown
  <2>1. [created |-> writes', removed |-> FALSE] \in Medium
    BY <1>3 DEF Medium
  <2>2. IsTable(media', Media, Medium)
    BY <1>1, <1>11, <2>1 DEF AddMedia, IsTable
  <2> QED
    BY <1>1, <1>3, <1>11, <2>2 DEF AddMedia, CatalogueOK
<1>12. ASSUME NEW m \in Media, RemoveMedia(m) PROVE CatalogueOK' /\ Grown
  <2>1. IsTable(media', Media, Medium)
    BY <1>1, <1>12 DEF RemoveMedia, IsTable, Medium
  <2> QED
    BY <1>1, <1>3, <1>12, <2>1 DEF RemoveMedia, CatalogueOK
<1> QED
  BY <1>3, <1>4, <1>5, <1>6, <1>7, <1>8, <1>9, <1>10, <1>11, <1>12 DEF Write

LEMMA InitType == BrowsingInit => CatalogueOK /\ view = Blank
<1> SUFFICES ASSUME BrowsingInit PROVE CatalogueOK /\ view = Blank
  OBVIOUS
<1>1. 0 \in 0..MaxWrites /\ [created |-> 0, updated |-> 0] \in Times
  BY DEF Times
<1>2. PICK ps \in SUBSET Properties : properties = [p \in ps |-> [created |-> 0, updated |-> 0]]
  BY DEF BrowsingInit
<1>3. PICK us \in SUBSET {u \in UnitTypes : PropertyOf[u] \in DOMAIN properties} :
        unitTypes = [u \in us |-> [created |-> 0, updated |-> 0]]
  BY DEF BrowsingInit
<1>4. PICK price \in Prices, made \in SUBSET {o \in Offers : UnitOf[o] \in DOMAIN unitTypes} :
        offers = [o \in made |-> [price |-> price, status |-> "available",
                                  archived |-> FALSE, updated |-> 0]]
  BY DEF BrowsingInit
<1>5. IsTable(properties, Properties, Times)
  BY <1>1, <1>2 DEF IsTable
<1>6. IsTable(unitTypes, UnitTypes, Times)
  BY <1>1, <1>3 DEF IsTable
<1>7. IsTable(offers, Offers, Offer)
  BY <1>1, <1>4 DEF IsTable, Offer
<1>8. IsTable(media, Media, Medium)
  BY DEF IsTable, BrowsingInit
<1>9. /\ \A u \in DOMAIN unitTypes : PropertyOf[u] \in DOMAIN properties
      /\ \A o \in DOMAIN offers : UnitOf[o] \in DOMAIN unitTypes
  BY <1>3, <1>4
<1> QED
  BY <1>1, <1>5, <1>6, <1>7, <1>8, <1>9 DEF BrowsingInit, CatalogueOK

-----------------------------------------------------------------------------
(* A page of several statements *)

\* What the media that a page of p may show are media of.
Places(p) ==
  {<<"property", p>>} \cup {<<"unit", u>> : u \in UnitsOf(p)}
  \cup {<<"offer", o>> : o \in {o \in DOMAIN offers : UnitOf[o] \in UnitsOf(p)}}

LEMMA RowsAre ==
  ASSUME NEW p, NEW row
  PROVE  row \in Rows(p) <=>
           \/ row = <<"property", p, properties[p]>>
           \/ \E u \in UnitsOf(p) : row = <<"unit", u, unitTypes[u]>>
           \/ \E o \in UnarchivedOffers(UnitsOf(p)) : row = <<"offer", o, offers[o]>>
           \/ \E m \in MediaAt(Places(p)) : row = <<"media", m, media[m]>>
BY DEF Rows, Places, PropertyRows, UnitRows, OfferRows, MediaRows

LEMMA NamesAre ==
  ASSUME NEW p, NEW name
  PROVE  name \in Named(Rows(p)) <=>
           \/ name = <<"property", p>>
           \/ \E u \in UnitsOf(p) : name = <<"unit", u>>
           \/ \E o \in UnarchivedOffers(UnitsOf(p)) : name = <<"offer", o>>
           \/ \E m \in MediaAt(Places(p)) : name = <<"media", m>>
<1>1. ASSUME name \in Named(Rows(p))
      PROVE  \/ name = <<"property", p>>
             \/ \E u \in UnitsOf(p) : name = <<"unit", u>>
             \/ \E o \in UnarchivedOffers(UnitsOf(p)) : name = <<"offer", o>>
             \/ \E m \in MediaAt(Places(p)) : name = <<"media", m>>
  <2>1. PICK row \in Rows(p) : name = <<row[1], row[2]>>
    BY <1>1 DEF Named, Name
  <2> QED
    BY <2>1, RowsAre
<1>2. \A row \in Rows(p) : <<row[1], row[2]>> \in Named(Rows(p))
  BY DEF Named, Name
<1>3. <<"property", p>> \in Named(Rows(p))
  <2>1. <<"property", p, properties[p]>> \in Rows(p)
    BY RowsAre
  <2> QED
    BY <1>2, <2>1
<1>4. ASSUME NEW u \in UnitsOf(p) PROVE <<"unit", u>> \in Named(Rows(p))
  <2>1. <<"unit", u, unitTypes[u]>> \in Rows(p)
    BY RowsAre
  <2> QED
    BY <1>2, <2>1
<1>5. ASSUME NEW o \in UnarchivedOffers(UnitsOf(p)) PROVE <<"offer", o>> \in Named(Rows(p))
  <2>1. <<"offer", o, offers[o]>> \in Rows(p)
    BY RowsAre
  <2> QED
    BY <1>2, <2>1
<1>6. ASSUME NEW m \in MediaAt(Places(p)) PROVE <<"media", m>> \in Named(Rows(p))
  <2>1. <<"media", m, media[m]>> \in Rows(p)
    BY RowsAre
  <2> QED
    BY <1>2, <2>1
<1> QED
  BY <1>1, <1>3, <1>4, <1>5, <1>6

\* The unit types of the next moment are among its names.
LEMMA UnitsNamedNext ==
  ASSUME NEW p, NEW u \in UnitsOf(p)'
  PROVE  <<"unit", u>> \in Named(Rows(p)')
<1>1. <<"unit", u, unitTypes'[u]>> \in Rows(p)'
  BY DEF Rows, UnitRows
<1>2. Name(<<"unit", u, unitTypes'[u]>>) = <<"unit", u>>
  BY DEF Name
<1> QED
  BY <1>1, <1>2 DEF Named

\* Nothing changes for a page if nothing is written.
LEMMA RowsSame ==
  ASSUME NEW p, UNCHANGED catalogue
  PROVE  Rows(p)' = Rows(p) /\ UnitsOf(p)' = UnitsOf(p)
BY DEF catalogue, Rows, UnitsOf, PropertyRows, UnitRows, OfferRows, MediaRows, MediaAt,
       UnarchivedOffers

\* A row of the moment belongs to the property.
LEMMA RowsBelong ==
  ASSUME NEW p, NEW rows, rows \subseteq Rows(p)
  PROVE  /\ Ids(rows, "unit") \subseteq UnitsOf(p)
         /\ \A o \in Ids(rows, "offer") : o \in DOMAIN offers /\ UnitOf[o] \in UnitsOf(p)
<1>1. \A row \in rows : row[1] = "unit" => row[2] \in UnitsOf(p)
  BY RowsAre
<1>2. \A row \in rows : row[1] = "offer" => row[2] \in UnarchivedOffers(UnitsOf(p))
  BY RowsAre
<1> QED
  BY <1>1, <1>2 DEF Ids, UnarchivedOffers

\* A statement adds rows of its moment.
LEMMA ReadRows ==
  ASSUME NEW p, RowsRemembered(p), PlacesRemembered(p),
         NEW rows, rows \subseteq Rows(p), NEW now, NEW next, Read(now, rows, next)
  PROVE  /\ RowsRemembered(p)' /\ PlacesRemembered(p)'
         /\ view.next = now /\ view'.next = next
         /\ view'.shown = view.shown \cup rows /\ view'.always = view.always
<1>1. /\ UNCHANGED catalogue
      /\ view' = [view EXCEPT !.shown = view.shown \cup rows, !.next = next]
      /\ view.next = now
  BY DEF Read
<1>2. PICK n, shown, since, ever, always :
        view = [kind |-> "detail", property |-> p, next |-> n, shown |-> shown,
                since |-> since, ever |-> ever, always |-> always]
  BY DEF RowsRemembered
<1>3. view' = [kind |-> "detail", property |-> p, next |-> next, shown |-> view.shown \cup rows,
               since |-> view.since, ever |-> view.ever, always |-> view.always]
  <2>1. /\ view.shown = shown /\ view.since = since /\ view.ever = ever
        /\ view.always = always
    BY <1>2
  <2>2. view' = [kind |-> "detail", property |-> p, next |-> next, shown |-> view.shown \cup rows,
                 since |-> since, ever |-> ever, always |-> always]
    BY <1>1, <1>2
  <2> QED
    BY <2>1, <2>2
<1>4. /\ view'.next = next /\ view'.shown = view.shown \cup rows /\ view'.since = view.since
      /\ view'.ever = view.ever /\ view'.always = view.always
  BY <1>3
<1>5. RowsRemembered(p)'
  <2>1. view' = [kind |-> "detail", property |-> p, next |-> view'.next, shown |-> view'.shown,
                 since |-> view'.since, ever |-> view'.ever, always |-> view'.always]
    BY <1>3, <1>4
  <2>2. properties' = properties /\ writes' = writes
    BY <1>1 DEF catalogue
  <2> QED
    BY <1>1, <1>4, <2>1, <2>2, RowsSame DEF RowsRemembered
<1>6. PlacesRemembered(p)'
  <2>1. \A table : Ids(view.shown \cup rows, table) = Ids(view.shown, table) \cup Ids(rows, table)
    BY DEF Ids
  <2>2. UnitsOf(p)' = UnitsOf(p) /\ offers' = offers
    BY <1>1, RowsSame DEF catalogue
  <2>3. /\ Ids(view'.shown, "unit") \subseteq UnitsOf(p)
        /\ \A o \in Ids(view'.shown, "offer") : o \in DOMAIN offers /\ UnitOf[o] \in UnitsOf(p)
    BY <1>4, <2>1, RowsBelong DEF PlacesRemembered
  <2> QED
    BY <1>4, <2>2, <2>3 DEF PlacesRemembered
<1> QED
  BY <1>1, <1>4, <1>5, <1>6

\* What a set of rows names.
LEMMA Naming ==
  /\ \A rows, table, id : <<table, id>> \in Named(rows) <=> id \in Ids(rows, table)
  /\ \A rows, more : Named(rows \cup more) = Named(rows) \cup Named(more)
  /\ \A p : <<"property", p>> \in Named(PropertyRows(p))
  /\ \A p : \A u \in UnitsOf(p) : <<"unit", u>> \in Named(UnitRows(p))
  /\ \A us : \A o \in UnarchivedOffers(us) : <<"offer", o>> \in Named(OfferRows(us))
  /\ \A targets : \A m \in MediaAt(targets) : <<"media", m>> \in Named(MediaRows(targets))
<1>1. ASSUME NEW rows, NEW table, NEW id
      PROVE  <<table, id>> \in Named(rows) <=> id \in Ids(rows, table)
  <2>1. ASSUME <<table, id>> \in Named(rows) PROVE id \in Ids(rows, table)
    <3>1. PICK row \in rows : <<table, id>> = <<row[1], row[2]>>
      BY <2>1 DEF Named, Name
    <3> QED
      BY <3>1 DEF Ids
  <2>2. ASSUME id \in Ids(rows, table) PROVE <<table, id>> \in Named(rows)
    <3>1. PICK row \in rows : row[1] = table /\ row[2] = id
      BY <2>2 DEF Ids
    <3> QED
      BY <3>1 DEF Named, Name
  <2> QED
    BY <2>1, <2>2
<1>2. \A rows, more : Named(rows \cup more) = Named(rows) \cup Named(more)
  BY DEF Named
<1>3. ASSUME NEW p PROVE <<"property", p>> \in Named(PropertyRows(p))
  BY DEF Named, Name, PropertyRows
<1>4. ASSUME NEW p, NEW u \in UnitsOf(p) PROVE <<"unit", u>> \in Named(UnitRows(p))
  <2>1. <<"unit", u, unitTypes[u]>> \in UnitRows(p)
    BY DEF UnitRows
  <2> QED
    BY <2>1 DEF Named, Name
<1>5. ASSUME NEW us, NEW o \in UnarchivedOffers(us) PROVE <<"offer", o>> \in Named(OfferRows(us))
  <2>1. <<"offer", o, offers[o]>> \in OfferRows(us)
    BY DEF OfferRows
  <2> QED
    BY <2>1 DEF Named, Name
<1>6. ASSUME NEW targets, NEW m \in MediaAt(targets)
      PROVE  <<"media", m>> \in Named(MediaRows(targets))
  <2>1. <<"media", m, media[m]>> \in MediaRows(targets)
    BY DEF MediaRows
  <2> QED
    BY <2>1 DEF Named, Name
<1> QED
  BY <1>1, <1>2, <1>3, <1>4, <1>5, <1>6

\* What was there all along is still there, in its place.
LEMMA AlwaysThere ==
  ASSUME NEW p, RowsRemembered(p), PlacesRemembered(p)
  PROVE  /\ \A name \in In(view.always, "property") : name = <<"property", p>>
         /\ \A name \in In(view.always, "unit") :
              \E u \in UnitsOf(p) : name = <<"unit", u>>
         /\ \A name \in In(view.always, "offer") :
              \E o \in UnarchivedOffers(UnitsOf(p)) :
                name = <<"offer", o>> /\ <<"unit", UnitOf[o]>> \in In(view.always, "unit")
         /\ \A name \in MediaIn(view.always, "property") :
              \E m \in MediaAt({<<"property", p>>}) : name = <<"media", m>>
         /\ \A name \in MediaIn(view.always, "unit") :
              \E u : \E m \in MediaAt({<<"unit", u>>}) :
                name = <<"media", m>> /\ <<"unit", u>> \in In(view.always, "unit")
         /\ \A name \in MediaIn(Kept(view.always), "offer") :
              \E o : \E m \in MediaAt({<<"offer", o>>}) :
                name = <<"media", m>> /\ <<"offer", o>> \in In(view.always, "offer")
<1>1. \A name \in view.always : name \in Named(Rows(p))
  BY DEF RowsRemembered
<1>2. \A name \in In(view.always, "property") : name = <<"property", p>>
  BY <1>1, NamesAre DEF In
<1>3. \A name \in In(view.always, "unit") : \E u \in UnitsOf(p) : name = <<"unit", u>>
  BY <1>1, NamesAre DEF In
<1>4. ASSUME NEW name \in In(view.always, "offer")
      PROVE  \E o \in UnarchivedOffers(UnitsOf(p)) :
               name = <<"offer", o>> /\ <<"unit", UnitOf[o]>> \in In(view.always, "unit")
  <2>1. PICK o \in UnarchivedOffers(UnitsOf(p)) : name = <<"offer", o>>
    BY <1>1, NamesAre DEF In
  <2>2. <<"unit", UnitOf[o]>> \in view.always
    BY <2>1 DEF In, PlacesRemembered
  <2> QED
    BY <2>1, <2>2 DEF In
<1>5. ASSUME NEW table, NEW name \in MediaIn(view.always, table)
      PROVE  \E m \in MediaAt(Places(p)) :
               name = <<"media", m>> /\ TargetOf[m] \in Places(p) /\ TargetOf[m][1] = table
  <2>1. name \in view.always /\ name[1] = "media" /\ TargetOf[name[2]][1] = table
    BY DEF MediaIn, In
  <2>2. PICK m \in MediaAt(Places(p)) : name = <<"media", m>>
    BY <1>1, <2>1, NamesAre
  <2> QED
    BY <2>1, <2>2 DEF MediaAt
<1>6. ASSUME NEW name \in MediaIn(view.always, "property")
      PROVE  \E m \in MediaAt({<<"property", p>>}) : name = <<"media", m>>
  <2>1. PICK m \in MediaAt(Places(p)) :
          name = <<"media", m>> /\ TargetOf[m] \in Places(p) /\ TargetOf[m][1] = "property"
    BY <1>5
  <2>2. TargetOf[m] = <<"property", p>>
    BY <2>1 DEF Places
  <2> QED
    BY <2>1, <2>2 DEF MediaAt
<1>7. ASSUME NEW name \in MediaIn(view.always, "unit")
      PROVE  \E u : \E m \in MediaAt({<<"unit", u>>}) :
               name = <<"media", m>> /\ <<"unit", u>> \in In(view.always, "unit")
  <2>1. PICK m \in MediaAt(Places(p)) :
          name = <<"media", m>> /\ TargetOf[m] \in Places(p) /\ TargetOf[m][1] = "unit"
    BY <1>5
  <2>2. PICK u \in UnitsOf(p) : TargetOf[m] = <<"unit", u>>
    BY <2>1 DEF Places
  <2>3. <<"unit", u>> \in view.always
    BY <2>1, <2>2 DEF MediaIn, In, PlacesRemembered
  <2> QED
    BY <2>1, <2>2, <2>3 DEF MediaAt, In
<1>8. ASSUME NEW name \in MediaIn(Kept(view.always), "offer")
      PROVE  \E o : \E m \in MediaAt({<<"offer", o>>}) :
               name = <<"media", m>> /\ <<"offer", o>> \in In(view.always, "offer")
  <2>1. name \in MediaIn(view.always, "offer") /\ TargetOf[name[2]] \in view.always
    BY DEF MediaIn, In, Kept
  <2>2. PICK m \in MediaAt(Places(p)) :
          name = <<"media", m>> /\ TargetOf[m] \in Places(p) /\ TargetOf[m][1] = "offer"
    BY <1>5, <2>1
  <2>3. PICK o : TargetOf[m] = <<"offer", o>>
    BY <2>2 DEF Places
  <2> QED
    BY <2>1, <2>2, <2>3 DEF MediaAt, In
<1> QED
  BY <1>2, <1>3, <1>4, <1>6, <1>7, <1>8

Remembered(p) == RowsRemembered(p) /\ PlacesRemembered(p)

\* Reading a part of the page: what is left to show are the later parts.
LEMMA ReadsInTurn ==
  ASSUME NEW p, Remembered(p), ShownInTurn,
         \/ ReadUnitTypes /\ view.property = p
         \/ ReadPropertyMedia /\ view.property = p
         \/ ReadUnitMedia \/ ReadOffers \/ ReadOfferMedia
  PROVE  Remembered(p)' /\ ShownInTurn'
<1> DEFINE names == Named(view.shown)
           units == Ids(view.shown, "unit")
<1> USE DEF Remembered
<1>0. ASSUME NEW name \in In(view.always, "unit") PROVE \E u \in UnitsOf(p) : name = <<"unit", u>>
  <2>1. name \in Named(Rows(p)) /\ name[1] = "unit"
    BY DEF In, RowsRemembered
  <2> QED
    BY <2>1, NamesAre
\* The names that are shown next, with those of more rows.
<1>1. ASSUME NEW rows, NEW now, NEW next, rows \subseteq Rows(p), Read(now, rows, next)
      PROVE  /\ Remembered(p)' /\ view.next = now /\ view'.next = next
             /\ view'.always = view.always
             /\ Named(view'.shown) = names \cup Named(rows)
  <2>1. /\ Remembered(p)' /\ view.next = now /\ view'.next = next
        /\ view'.always = view.always /\ view'.shown = view.shown \cup rows
    BY <1>1, ReadRows
  <2>2. Named(view.shown \cup rows) = names \cup Named(rows)
    BY Naming
  <2> QED
    BY <2>1, <2>2
\* What the last statements read is there only if there are unit types.
<1>2. ASSUME In(view.always, "unit") = {}
      PROVE  /\ In(view.always, "offer") = {}
             /\ MediaIn(view.always, "unit") = {}
             /\ MediaIn(Kept(view.always), "offer") = {}
  BY <1>2, AlwaysThere
<1>3. ASSUME ReadUnitTypes, view.property = p PROVE Remembered(p)' /\ ShownInTurn'
  <2> DEFINE rows == UnitRows(p)
  <2>1. Read("unit types", rows, "property media") /\ rows \subseteq Rows(p)
    BY <1>3 DEF ReadUnitTypes, Rows
  <2>2. /\ Remembered(p)' /\ view'.next = "property media" /\ view'.always = view.always
        /\ Named(view'.shown) = names \cup Named(rows)
    BY <1>1, <2>1
  <2>3. ASSUME NEW name \in In(view.always, "unit") PROVE name \in Named(rows)
    <3>1. PICK u \in UnitsOf(p) : name = <<"unit", u>>
      BY <1>0
    <3> QED
      BY <3>1, Naming
  <2> HIDE DEF rows
  <2> QED
    BY <2>2, <2>3 DEF ShownInTurn
<1>4. ASSUME ReadPropertyMedia, view.property = p PROVE Remembered(p)' /\ ShownInTurn'
  <2> DEFINE rows == MediaRows({<<"property", p>>})
             next == IF units = {} THEN "nothing" ELSE "unit media"
  <2>1. Read("property media", rows, next)
    BY <1>4 DEF ReadPropertyMedia
  <2>2. rows \subseteq Rows(p)
    BY DEF Rows, MediaRows, MediaAt
  <2>3. /\ Remembered(p)' /\ view.next = "property media" /\ view'.next = next
        /\ view'.always = view.always
        /\ Named(view'.shown) = names \cup Named(rows)
    BY <1>1, <2>1, <2>2
  <2>4. MediaIn(view.always, "property") \subseteq Named(rows)
    BY AlwaysThere, Naming
  <2>5. In(view.always, "property") \subseteq names /\ In(view.always, "unit") \subseteq names
    BY <2>3 DEF ShownInTurn
  <2>6. ASSUME NEW name \in In(view.always, "unit") PROVE units # {}
    <3>1. PICK u \in UnitsOf(p) : name = <<"unit", u>>
      BY <1>0
    <3>2. u \in units
      BY <2>5, <3>1, Naming
    <3> QED
      BY <3>2
  <2> HIDE DEF rows, names, units
  <2> QED
    BY <1>2, <2>3, <2>4, <2>5, <2>6 DEF ShownInTurn
<1>5. ASSUME ReadUnitMedia PROVE Remembered(p)' /\ ShownInTurn'
  <2> DEFINE rows == MediaRows(Targeted("unit"))
  <2>1. Read("unit media", rows, "offers")
    BY <1>5 DEF ReadUnitMedia
  <2>2. rows \subseteq Rows(p)
    <3>1. Targeted("unit") \subseteq Places(p)
      BY DEF Targeted, PlacesRemembered, Places
    <3> QED
      BY <3>1, RowsAre DEF MediaRows, MediaAt
  <2>3. /\ Remembered(p)' /\ view.next = "unit media" /\ view'.next = "offers"
        /\ view'.always = view.always
        /\ Named(view'.shown) = names \cup Named(rows)
    BY <1>1, <2>1, <2>2
  <2>4. /\ In(view.always, "property") \subseteq names /\ In(view.always, "unit") \subseteq names
        /\ MediaIn(view.always, "property") \subseteq names
    BY <2>3 DEF ShownInTurn
  <2>5. ASSUME NEW name \in MediaIn(view.always, "unit") PROVE name \in Named(rows)
    <3>1. PICK u : \E m \in MediaAt({<<"unit", u>>}) :
                     name = <<"media", m>> /\ <<"unit", u>> \in In(view.always, "unit")
      BY AlwaysThere
    <3>2. <<"unit", u>> \in Targeted("unit")
      BY <2>4, <3>1, Naming DEF Targeted
    <3> QED
      BY <3>1, <3>2, Naming DEF MediaAt
  <2> HIDE DEF rows, names
  <2> QED
    BY <2>3, <2>4, <2>5 DEF ShownInTurn
<1>6. ASSUME ReadOffers PROVE Remembered(p)' /\ ShownInTurn'
  <2> DEFINE rows == OfferRows(units)
             next == IF rows = {} THEN "nothing" ELSE "offer media"
  <2>1. Read("offers", rows, next)
    BY <1>6 DEF ReadOffers
  <2>2. rows \subseteq Rows(p)
    BY DEF OfferRows, UnarchivedOffers, Rows, PlacesRemembered
  <2>3. /\ Remembered(p)' /\ view.next = "offers" /\ view'.next = next
        /\ view'.always = view.always
        /\ Named(view'.shown) = names \cup Named(rows)
    BY <1>1, <2>1, <2>2
  <2>4. /\ In(view.always, "property") \subseteq names /\ In(view.always, "unit") \subseteq names
        /\ MediaIn(view.always, "property") \subseteq names
        /\ MediaIn(view.always, "unit") \subseteq names
    BY <2>3 DEF ShownInTurn
  <2>5. ASSUME NEW name \in In(view.always, "offer")
        PROVE  name \in Named(rows) /\ rows # {}
    <3>1. PICK o \in UnarchivedOffers(UnitsOf(p)) :
            name = <<"offer", o>> /\ <<"unit", UnitOf[o]>> \in In(view.always, "unit")
      BY AlwaysThere
    <3>2. UnitOf[o] \in units
      BY <2>4, <3>1, Naming
    <3>3. o \in UnarchivedOffers(units)
      BY <3>1, <3>2 DEF UnarchivedOffers
    <3>4. <<"offer", o>> \in Named(rows)
      BY <3>3, Naming
    <3>5. <<"offer", o, offers[o]>> \in rows
      BY <3>3 DEF OfferRows
    <3> QED
      BY <3>1, <3>4, <3>5
  <2>6. rows = {} => MediaIn(Kept(view.always), "offer") = {}
    BY <2>5, AlwaysThere
  <2> HIDE DEF rows, names
  <2> QED
    BY <2>3, <2>4, <2>5, <2>6 DEF ShownInTurn
<1>7. ASSUME ReadOfferMedia PROVE Remembered(p)' /\ ShownInTurn'
  <2> DEFINE rows == MediaRows(Targeted("offer"))
  <2>1. Read("offer media", rows, "nothing")
    BY <1>7 DEF ReadOfferMedia
  <2>2. rows \subseteq Rows(p)
    <3>1. Targeted("offer") \subseteq Places(p)
      BY DEF Targeted, PlacesRemembered, Places
    <3> QED
      BY <3>1, RowsAre DEF MediaRows, MediaAt
  <2>3. /\ Remembered(p)' /\ view.next = "offer media" /\ view'.next = "nothing"
        /\ view'.always = view.always
        /\ Named(view'.shown) = names \cup Named(rows)
    BY <1>1, <2>1, <2>2
  <2>4. /\ In(view.always, "property") \subseteq names /\ In(view.always, "unit") \subseteq names
        /\ MediaIn(view.always, "property") \subseteq names
        /\ MediaIn(view.always, "unit") \subseteq names
        /\ In(view.always, "offer") \subseteq names
    BY <2>3 DEF ShownInTurn
  <2>5. ASSUME NEW name \in MediaIn(Kept(view.always), "offer") PROVE name \in Named(rows)
    <3>1. PICK o : \E m \in MediaAt({<<"offer", o>>}) :
                     name = <<"media", m>> /\ <<"offer", o>> \in In(view.always, "offer")
      BY AlwaysThere
    <3>2. <<"offer", o>> \in Targeted("offer")
      BY <2>4, <3>1, Naming DEF Targeted
    <3> QED
      BY <3>1, <3>2, Naming DEF MediaAt
  <2> HIDE DEF rows, names
  <2> QED
    BY <2>3, <2>4, <2>5 DEF ShownInTurn
<1> QED
  BY <1>3, <1>4, <1>5, <1>6, <1>7

\* A page begins with what is there.
LEMMA OpenRemembers ==
  ASSUME CatalogueOK, NEW p \in Properties, OpenProperty(p), view' # Blank
  PROVE  Remembered(p)' /\ ShownInTurn'
<1>1. /\ UNCHANGED catalogue /\ p \in DOMAIN properties
      /\ view' = [kind |-> "detail", property |-> p, next |-> "unit types",
                  shown |-> PropertyRows(p), since |-> writes,
                  ever |-> Rows(p), always |-> Named(Rows(p))]
  BY DEF OpenProperty
<1>2. /\ view'.next = "unit types" /\ view'.shown = PropertyRows(p) /\ view'.since = writes
      /\ view'.ever = Rows(p) /\ view'.always = Named(Rows(p))
  BY <1>1
<1>3. /\ Rows(p)' = Rows(p) /\ UnitsOf(p)' = UnitsOf(p)
      /\ properties' = properties /\ offers' = offers /\ writes' = writes
  BY <1>1, RowsSame DEF catalogue
<1>4. PropertyRows(p) \subseteq Rows(p) /\ writes \in 0..writes
  BY DEF Rows, CatalogueOK
<1>5. RowsRemembered(p)'
  BY <1>1, <1>2, <1>3, <1>4 DEF RowsRemembered
<1>6. PlacesRemembered(p)'
  <2>1. /\ Ids(PropertyRows(p), "unit") \subseteq UnitsOf(p)
        /\ \A o \in Ids(PropertyRows(p), "offer") : o \in DOMAIN offers /\ UnitOf[o] \in UnitsOf(p)
    BY <1>4, RowsBelong
  <2>2. ASSUME NEW name \in Named(Rows(p)), name[1] = "offer"
        PROVE  <<"unit", UnitOf[name[2]]>> \in Named(Rows(p))
    <3>1. PICK o \in UnarchivedOffers(UnitsOf(p)) : name = <<"offer", o>>
      BY <2>2, NamesAre
    <3> QED
      BY <3>1, NamesAre DEF UnarchivedOffers
  <2>3. ASSUME NEW name \in Named(Rows(p)), name[1] = "media", TargetOf[name[2]][1] = "unit"
        PROVE  TargetOf[name[2]] \in Named(Rows(p))
    <3>1. PICK m \in MediaAt(Places(p)) : name = <<"media", m>>
      BY <2>3, NamesAre
    <3>2. PICK u \in UnitsOf(p) : TargetOf[m] = <<"unit", u>>
      BY <2>3, <3>1 DEF MediaAt, Places
    <3> QED
      BY <3>1, <3>2, NamesAre
  <2> QED
    BY <1>2, <1>3, <2>1, <2>2, <2>3 DEF PlacesRemembered
<1>7. ShownInTurn'
  <2>1. ASSUME NEW name \in In(Named(Rows(p)), "property") PROVE name \in Named(PropertyRows(p))
    <3>1. name = <<"property", p>>
      BY NamesAre DEF In
    <3> QED
      BY <3>1, Naming
  <2> QED
    BY <1>2, <2>1 DEF ShownInTurn
<1> QED
  BY <1>5, <1>6, <1>7 DEF Remembered

\* A write while the page is read takes names away, and no unit type.
LEMMA WriteRemembers ==
  ASSUME CatalogueOK, NEW p, Remembered(p), ShownInTurn, WriteUnderDetail(p)
  PROVE  Remembered(p)' /\ ShownInTurn' /\ view'.next # "nothing"
<1> USE DEF Remembered
<1>1. PICK next, shown, since, ever, always :
        view = [kind |-> "detail", property |-> p, next |-> next, shown |-> shown,
                since |-> since, ever |-> ever, always |-> always]
  BY DEF RowsRemembered
<1>2. view' = [kind |-> "detail", property |-> p, next |-> next, shown |-> shown, since |-> since,
               ever |-> ever \cup Rows(p)', always |-> always \cap Named(Rows(p)')]
  <2>1. view' = [view EXCEPT !.ever = view.ever \cup Rows(p)',
                             !.always = view.always \cap Named(Rows(p)')]
    BY DEF WriteUnderDetail
  <2>2. view.ever = ever /\ view.always = always
    BY <1>1
  <2> QED
    BY <1>1, <2>1, <2>2
<1>3. /\ view.next = next /\ view.shown = shown /\ view.since = since
      /\ view.ever = ever /\ view.always = always
  BY <1>1
<1>4. /\ view'.next = next /\ view'.shown = shown /\ view'.since = since
      /\ view'.ever = ever \cup Rows(p)' /\ view'.always = always \cap Named(Rows(p)')
  BY <1>2
<1>5. /\ CatalogueOK' /\ writes' = writes + 1
      /\ DOMAIN properties \subseteq DOMAIN properties'
      /\ DOMAIN unitTypes \subseteq DOMAIN unitTypes'
      /\ DOMAIN offers \subseteq DOMAIN offers'
  BY WriteType DEF WriteUnderDetail
<1>6. UnitsOf(p) \subseteq UnitsOf(p)'
  BY <1>5 DEF UnitsOf
<1>7. RowsRemembered(p)'
  <2>1. writes \in Nat /\ since \in 0..writes
    BY <1>3 DEF CatalogueOK, RowsRemembered
  <2>2. since \in 0..writes' /\ since # writes'
    BY <1>5, <2>1
  <2>3. p \in DOMAIN properties' /\ shown \subseteq ever
    BY <1>3, <1>5 DEF RowsRemembered
  <2> QED
    BY <1>2, <1>4, <2>2, <2>3 DEF RowsRemembered
<1>8. PlacesRemembered(p)'
  <2>1. /\ Ids(shown, "unit") \subseteq UnitsOf(p)'
        /\ \A o \in Ids(shown, "offer") : o \in DOMAIN offers' /\ UnitOf[o] \in UnitsOf(p)'
    BY <1>3, <1>5, <1>6 DEF PlacesRemembered
  <2>2. ASSUME NEW u, <<"unit", u>> \in always PROVE <<"unit", u>> \in Named(Rows(p)')
    <3>1. <<"unit", u>> \in Named(Rows(p))
      BY <1>3, <2>2 DEF RowsRemembered
    <3>2. u \in UnitsOf(p)'
      BY <1>6, <3>1, NamesAre
    <3> QED
      BY <3>2, UnitsNamedNext
  <2>3. ASSUME NEW name \in always, name[1] = "offer"
        PROVE  <<"unit", UnitOf[name[2]]>> \in always \cap Named(Rows(p)')
    <3>1. <<"unit", UnitOf[name[2]]>> \in always
      BY <1>3, <2>3 DEF PlacesRemembered
    <3> QED
      BY <2>2, <3>1
  <2>4. ASSUME NEW name \in always, name[1] = "media", TargetOf[name[2]][1] = "unit"
        PROVE  TargetOf[name[2]] \in always \cap Named(Rows(p)')
    <3>1. TargetOf[name[2]] \in always
      BY <1>3, <2>4 DEF PlacesRemembered
    <3>2. TargetOf[name[2]] \in Named(Rows(p))
      BY <1>3, <3>1 DEF RowsRemembered
    <3>3. PICK u : TargetOf[name[2]] = <<"unit", u>>
      BY <2>4, <3>2, NamesAre
    <3> QED
      BY <2>2, <3>1, <3>3
  <2> QED
    BY <1>4, <2>1, <2>3, <2>4 DEF PlacesRemembered
<1>9. ShownInTurn'
  BY <1>3, <1>4 DEF ShownInTurn, In, MediaIn, Kept
<1>10. view'.next # "nothing"
  BY <1>3, <1>4 DEF WriteUnderDetail
<1> QED
  BY <1>7, <1>8, <1>9, <1>10

-----------------------------------------------------------------------------
(* The page at its end *)

\* All that was there throughout is shown, and nothing that never was.
LEMMA EndOfItsTime ==
  ASSUME NEW p, Remembered(p), ShownInTurn, view.next = "nothing"
  PROVE  DetailOfItsTime
<1>1. view.shown \subseteq view.ever
  BY DEF Remembered, RowsRemembered
<1>2. ASSUME NEW name \in Kept(view.always) PROVE name \in Named(view.shown)
  <2>1. name \in view.always /\ name \in Named(Rows(p))
    BY DEF Kept, Remembered, RowsRemembered
  <2>2. name[1] \in {"property", "unit", "offer"} => name \in Named(view.shown)
    BY <2>1 DEF ShownInTurn, In
  <2>3. ASSUME NEW m \in MediaAt(Places(p)), name = <<"media", m>>
        PROVE  name \in Named(view.shown)
    <3>1. TargetOf[m][1] \in {"property", "unit", "offer"}
      BY DEF MediaAt, Places
    <3>2. /\ name \in MediaIn(view.always, TargetOf[m][1])
          /\ name \in MediaIn(Kept(view.always), TargetOf[m][1])
      BY <2>1, <2>3 DEF MediaIn, In
    <3> QED
      BY <3>1, <3>2 DEF ShownInTurn
  <2> QED
    BY <2>1, <2>2, <2>3, NamesAre
<1> QED
  BY <1>1, <1>2 DEF DetailOfItsTime

\* The rows of some of the offers.
RowsOf(os) == {<<"offer", o, offers[o]>> : o \in os}

LEMMA RowsOfOffers ==
  ASSUME NEW os, os \subseteq Offers
  PROVE  /\ Cardinality(RowsOf(os)) = Cardinality(os)
         /\ {row[3].price : row \in RowsOf(os)} = PricesOf(os)
<1>1. IsFiniteSet(os)
  BY FS_Subset
<1> DEFINE f == [o \in os |-> <<"offer", o, offers[o]>>]
<1>2. f \in Bijection(os, RowsOf(os))
  <2>1. f \in [os -> RowsOf(os)]
    BY DEF RowsOf
  <2>2. \A o, other \in os : f[o] = f[other] => o = other
    OBVIOUS
  <2>3. \A row \in RowsOf(os) : \E o \in os : f[o] = row
    BY DEF RowsOf
  <2> QED
    BY <2>1, <2>2, <2>3 DEF Bijection, Injection, Surjection, IsInjective
<1>3. ExistsBijection(os, RowsOf(os))
  BY <1>2 DEF ExistsBijection
<1>4. Cardinality(RowsOf(os)) = Cardinality(os)
  BY <1>1, <1>3, FS_Bijection
<1>5. {row[3].price : row \in RowsOf(os)} = PricesOf(os)
  <2>1. \A row \in RowsOf(os) : \E o \in os : row[3].price = offers[o].price
    BY DEF RowsOf
  <2>2. ASSUME NEW o \in os PROVE \E row \in RowsOf(os) : row[3].price = offers[o].price
    <3>1. <<"offer", o, offers[o]>> \in RowsOf(os)
      BY DEF RowsOf
    <3>2. <<"offer", o, offers[o]>>[3] = offers[o]
      OBVIOUS
    <3> QED
      BY <3>1, <3>2
  <2> QED
    BY <2>1, <2>2 DEF PricesOf
<1> QED
  BY <1>4, <1>5

\* Without a write, what is shown of the offers are the rows of this moment.
LEMMA OffersShown ==
  ASSUME NEW p, Remembered(p), ShownInTurn, view.next = "nothing", view.since = writes
  PROVE  {row \in view.shown : row[1] = "offer"} = RowsOf(UnarchivedOffers(UnitsOf(p)))
<1> DEFINE os == UnarchivedOffers(UnitsOf(p))
<1>1. view.shown \subseteq Rows(p) /\ view.always = Named(Rows(p))
  BY DEF Remembered, RowsRemembered
<1>2. ASSUME NEW row \in view.shown, row[1] = "offer" PROVE row \in RowsOf(os)
  BY <1>1, <1>2, RowsAre DEF RowsOf
<1>3. ASSUME NEW o \in os PROVE <<"offer", o, offers[o]>> \in view.shown
  <2>1. <<"offer", o>> \in In(view.always, "offer")
    BY <1>1, NamesAre DEF In
  <2>2. o \in Ids(view.shown, "offer")
    BY <2>1, Naming DEF ShownInTurn
  <2>3. PICK row \in view.shown : row[1] = "offer" /\ row[2] = o
    BY <2>2 DEF Ids
  <2>4. row = <<"offer", o, offers[o]>>
    BY <1>1, <2>3, RowsAre
  <2> QED
    BY <2>3, <2>4
<1> QED
  BY <1>2, <1>3 DEF RowsOf

\* And so is what is shown of the media.
LEMMA MediaShown ==
  ASSUME NEW p, Remembered(p), ShownInTurn, view.next = "nothing", view.since = writes,
         NEW m \in MediaAt(Places(p)),
         TargetOf[m][1] = "offer" => TargetOf[m][2] \in UnarchivedOffers(UnitsOf(p))
  PROVE  m \in Ids(view.shown, "media")
<1>1. view.always = Named(Rows(p))
  BY DEF Remembered, RowsRemembered
<1>2. TargetOf[m] \in Places(p)
  BY DEF MediaAt
<1>3. <<"media", m>> \in view.always
  BY <1>1, NamesAre
<1>4. ASSUME TargetOf[m][1] = "offer" PROVE TargetOf[m] \in view.always
  <2>1. PICK o : TargetOf[m] = <<"offer", o>>
    BY <1>2, <1>4 DEF Places
  <2> QED
    BY <1>1, <1>4, <2>1, NamesAre
<1>5. <<"media", m>> \in Kept(view.always)
  BY <1>3, <1>4 DEF Kept
<1>6. DetailOfItsTime
  BY EndOfItsTime
<1> QED
  BY <1>5, <1>6, Naming DEF DetailOfItsTime

\* Without a write, the page agrees with the cards.
LEMMA EndMatchesCards ==
  ASSUME CatalogueOK, NEW p, Remembered(p), ShownInTurn, view.next = "nothing",
         view.since = writes
  PROVE  DetailMatchesCards
<1> DEFINE OffersFor(u) == {row \in view.shown : row[1] = "offer" /\ UnitOf[row[2]] = u
                                                 /\ row[3].status = "available"}
           all == UNION {AvailableOffers(u) : u \in UnitsOf(p)}
           AgreesWith(card, rows) ==
             /\ card.count = Cardinality(rows)
             /\ card.lowest = Least({row[3].price : row \in rows})
             /\ card.thumbnail \subseteq Ids(view.shown, "media")
<1>1. view.property = p
  BY DEF Remembered, RowsRemembered
<1>2. DOMAIN offers \subseteq Offers
  BY DEF CatalogueOK, IsTable
<1>3. ASSUME NEW u \in UnitsOf(p)
      PROVE  OffersFor(u) = RowsOf(AvailableOffers(u)) /\ AvailableOffers(u) \subseteq Offers
  <2>1. {row \in view.shown : row[1] = "offer"} = RowsOf(UnarchivedOffers(UnitsOf(p)))
    BY OffersShown
  <2>2. OffersFor(u) = {row \in RowsOf(UnarchivedOffers(UnitsOf(p))) :
                          UnitOf[row[2]] = u /\ row[3].status = "available"}
    BY <2>1
  <2> QED
    BY <1>2, <2>2 DEF RowsOf, UnarchivedOffers, AvailableOffers
<1>4. UNION {OffersFor(u) : u \in UnitsOf(p)} = RowsOf(all) /\ all \subseteq Offers
  <2>1. UNION {OffersFor(u) : u \in UnitsOf(p)} = UNION {RowsOf(AvailableOffers(u)) : u \in UnitsOf(p)}
    BY <1>3
  <2> QED
    BY <1>3, <2>1 DEF RowsOf
<1>5. \A ms : Earliest(ms) \subseteq ms
  BY DEF Earliest
<1>6. ASSUME NEW u \in UnitsOf(p) PROVE AgreesWith(UnitCard(u), OffersFor(u))
  <2>1. /\ UnitCard(u).count = Cardinality(AvailableOffers(u))
        /\ UnitCard(u).lowest = Least(PricesOf(AvailableOffers(u)))
    BY DEF UnitCard
  <2>2. /\ Cardinality(OffersFor(u)) = Cardinality(AvailableOffers(u))
        /\ {row[3].price : row \in OffersFor(u)} = PricesOf(AvailableOffers(u))
    BY <1>3, RowsOfOffers
  <2>3. UnitCard(u).thumbnail \subseteq
          MediaAt({<<"unit", u>>}) \cup MediaAt({<<"property", PropertyOf[u]>>})
    BY <1>5 DEF UnitCard
  <2>4. ASSUME NEW m \in MediaAt({<<"unit", u>>}) \cup MediaAt({<<"property", PropertyOf[u]>>})
        PROVE  m \in Ids(view.shown, "media")
    <3>1. PropertyOf[u] = p
      BY DEF UnitsOf
    <3>2. m \in MediaAt(Places(p)) /\ TargetOf[m][1] # "offer"
      BY <3>1 DEF MediaAt, Places
    <3> QED
      BY <3>2, MediaShown
  <2> QED
    BY <2>1, <2>2, <2>3, <2>4
<1>7. AgreesWith(PropertyCard(p), UNION {OffersFor(u) : u \in UnitsOf(p)})
  <2> DEFINE shown == {o \in DOMAIN offers : UnitOf[o] \in UnitsOf(p) /\ ~offers[o].archived}
             targets == {<<"property", p>>} \cup {<<"unit", u>> : u \in UnitsOf(p)}
                        \cup {<<"offer", o>> : o \in shown}
  <2>1. /\ PropertyCard(p).count = Cardinality(all)
        /\ PropertyCard(p).lowest = Least(PricesOf(all))
        /\ PropertyCard(p).thumbnail = Earliest(MediaAt(targets))
    BY DEF PropertyCard
  <2>2. /\ Cardinality(RowsOf(all)) = Cardinality(all)
        /\ {row[3].price : row \in RowsOf(all)} = PricesOf(all)
    BY <1>4, RowsOfOffers
  <2>3. ASSUME NEW m \in MediaAt(targets) PROVE m \in Ids(view.shown, "media")
    <3>1. m \in MediaAt(Places(p))
      BY DEF MediaAt, Places
    <3>2. TargetOf[m][1] = "offer" => TargetOf[m][2] \in UnarchivedOffers(UnitsOf(p))
      BY DEF MediaAt, UnarchivedOffers
    <3> QED
      BY <3>1, <3>2, MediaShown
  <2>4. Earliest(MediaAt(targets)) \subseteq MediaAt(targets)
    BY <1>5
  <2> HIDE DEF targets, all
  <2> QED
    BY <1>4, <2>1, <2>2, <2>3, <2>4
<1> HIDE DEF all
<1> QED
  BY <1>1, <1>6, <1>7 DEF DetailMatchesCards

-----------------------------------------------------------------------------
(* The page of a property in every behaviour *)

DetailInv ==
  /\ CatalogueOK
  /\ view.kind \in {"blank", "walk", "detail"}
  /\ view.kind = "detail" => (\E p \in Properties : Remembered(p)) /\ ShownInTurn

LEMMA DetailNext == DetailInv /\ [BrowsingNext]_browsingVars => DetailInv'
<1> SUFFICES ASSUME DetailInv, [BrowsingNext]_browsingVars PROVE DetailInv'
  OBVIOUS
<1>1. CatalogueOK /\ (view.kind = "detail" => ShownInTurn)
  BY DEF DetailInv
<1>2. ASSUME view.kind = "detail"
      PROVE  \E p \in Properties : Remembered(p) /\ view.property = p
  <2>1. PICK p \in Properties : Remembered(p)
    BY <1>2 DEF DetailInv
  <2>2. view.property = p
    BY <2>1 DEF Remembered, RowsRemembered
  <2> QED
    BY <2>1, <2>2
<1>3. UNCHANGED catalogue => CatalogueOK'
  BY <1>1 DEF catalogue, CatalogueOK, IsTable
<1>4. Blank.kind = "blank"
  BY DEF Blank
<1>5. ASSUME view' = Blank, CatalogueOK' PROVE DetailInv'
  BY <1>4, <1>5 DEF DetailInv
<1>6. ASSUME CatalogueOK', NEW p \in Properties, Remembered(p)', ShownInTurn' PROVE DetailInv'
  <2>1. view'.kind = "detail"
    BY <1>6 DEF Remembered, RowsRemembered
  <2> QED
    BY <1>6, <2>1 DEF DetailInv
<1>7. ASSUME CatalogueOK', view'.kind = "walk" PROVE DetailInv'
  BY <1>7 DEF DetailInv
<1>8. ASSUME NEW q \in Searches, NEW page \in 1..MaxPage, Search(q, page) PROVE DetailInv'
  <2>1. view'.kind = "walk" /\ UNCHANGED catalogue
    BY <1>8 DEF Search
  <2> QED
    BY <1>3, <1>7, <2>1
<1>9. ASSUME NEW page \in 1..MaxPage, Turn(page) PROVE DetailInv'
  <2>1. view'.kind = "walk" /\ UNCHANGED catalogue
    BY <1>9 DEF Turn
  <2> QED
    BY <1>3, <1>7, <2>1
<1>10. ASSUME NEW p \in Properties, OpenProperty(p) PROVE DetailInv'
  <2>1. UNCHANGED catalogue
    BY <1>10 DEF OpenProperty
  <2> QED
    BY <1>1, <1>3, <1>5, <1>6, <1>10, <2>1, OpenRemembers
<1>11. CASE ReadUnitTypes \/ ReadPropertyMedia \/ ReadUnitMedia \/ ReadOffers \/ ReadOfferMedia
  <2>1. view.kind = "detail" /\ UNCHANGED catalogue
    BY <1>11 DEF ReadUnitTypes, ReadPropertyMedia, ReadUnitMedia, ReadOffers, ReadOfferMedia, Read
  <2>2. PICK p \in Properties : Remembered(p) /\ view.property = p
    BY <1>2, <2>1
  <2>3. Remembered(p)' /\ ShownInTurn'
    BY <1>1, <1>11, <2>1, <2>2, ReadsInTurn
  <2> QED
    BY <1>3, <1>6, <2>1, <2>3
<1>12. ASSUME Leave PROVE DetailInv'
  BY <1>3, <1>5, <1>12 DEF Leave
<1>13. ASSUME NEW p \in Properties, WriteUnderDetail(p) PROVE DetailInv'
  <2>1. view.kind = "detail" /\ view.property = p /\ Write
    BY <1>13 DEF WriteUnderDetail
  <2>2. Remembered(p) /\ CatalogueOK'
    BY <1>1, <1>2, <2>1, WriteType
  <2>3. Remembered(p)' /\ ShownInTurn'
    BY <1>1, <1>13, <2>1, <2>2, WriteRemembers
  <2> QED
    BY <1>6, <2>2, <2>3
<1>14. ASSUME WriteUnseen PROVE DetailInv'
  <2>1. view' = Blank /\ CatalogueOK'
    BY <1>1, <1>14, WriteType DEF WriteUnseen
  <2> QED
    BY <1>5, <2>1
<1>15. ASSUME UNCHANGED browsingVars PROVE DetailInv'
  <2>1. view' = view /\ UNCHANGED catalogue
    BY <1>15 DEF browsingVars
  <2>2. ASSUME view.kind = "detail" PROVE DetailInv'
    <3>1. PICK p \in Properties : Remembered(p)
      BY <1>2, <2>2
    <3>2. Rows(p)' = Rows(p) /\ UnitsOf(p)' = UnitsOf(p)
      BY <2>1, RowsSame
    <3>3. properties' = properties /\ offers' = offers /\ writes' = writes
      BY <2>1 DEF catalogue
    <3>4. RowsRemembered(p)'
      BY <2>1, <3>1, <3>2, <3>3 DEF Remembered, RowsRemembered
    <3>5. PlacesRemembered(p)'
      BY <2>1, <3>1, <3>2, <3>3 DEF Remembered, PlacesRemembered
    <3>6. ShownInTurn'
      BY <1>1, <2>1, <2>2 DEF ShownInTurn
    <3> QED
      BY <1>3, <1>6, <2>1, <3>4, <3>5, <3>6 DEF Remembered
  <2>3. ASSUME view.kind # "detail" PROVE DetailInv'
    BY <1>3, <2>1, <2>3 DEF DetailInv
  <2> QED
    BY <2>2, <2>3
<1> QED
  BY <1>8, <1>9, <1>10, <1>11, <1>12, <1>13, <1>14, <1>15 DEF BrowsingNext

\* The page of a property, put together by up to six statements while others
\* write, shows all that was there throughout and nothing that never was, and
\* agrees with the cards that lead to it if nobody wrote.
THEOREM DetailsInductive == BrowsingSpec => []DetailsHold
<1>1. BrowsingInit => DetailInv
  <2>1. BrowsingInit => CatalogueOK /\ view.kind = "blank"
    BY InitType DEF Blank
  <2> QED
    BY <2>1 DEF DetailInv
<1>2. DetailInv => DetailsHold
  <2>1. ASSUME DetailInv, view.kind = "detail" PROVE DetailsHold
    <3>1. ShownInTurn /\ CatalogueOK
      BY <2>1 DEF DetailInv
    <3>2. PICK p \in Properties : Remembered(p)
      BY <2>1 DEF DetailInv
    <3>3. ASSUME view.next = "nothing"
          PROVE  DetailOfItsTime /\ (view.since = writes => DetailMatchesCards)
      BY <3>1, <3>2, <3>3, EndOfItsTime, EndMatchesCards
    <3> QED
      BY <3>1, <3>2, <3>3 DEF DetailsHold, Remembered
  <2>2. ASSUME view.kind # "detail" PROVE DetailsHold
    BY <2>2 DEF DetailsHold
  <2> QED
    BY <2>1, <2>2
<1> QED
  BY <1>1, <1>2, DetailNext, PTL DEF BrowsingSpec

-----------------------------------------------------------------------------
(* The pages of a list *)

LEMMA Division ==
  ASSUME NEW a \in Nat, NEW b \in Nat \ {0}
  PROVE  a \div b \in Nat /\ (a \div b) * b =< a /\ a < (a \div b) * b + b
OBVIOUS

\* A set of numbers has a least element, and a bounded one a greatest.
LEMMA LeastNat ==
  ASSUME NEW S, S \subseteq Nat, S # {}
  PROVE  \E x \in S : \A y \in S : x =< y
<1> DEFINE R == OpToRel(<, Nat)
<1>1. IsWellFoundedOn(R, Nat)
  BY NatLessThanWellFounded
<1>2. PICK x \in S : \A y \in S : ~(<<y, x>> \in R)
  <2> HIDE DEF R
  <2> QED
    BY <1>1, WFMin
<1>3. \A y \in S : ~(y < x)
  BY <1>2 DEF OpToRel
<1> QED
  BY <1>3

LEMMA MinNat ==
  ASSUME NEW S, S \subseteq Nat, S # {}
  PROVE  Min(S) \in S /\ \A y \in S : Min(S) =< y
<1>1. \E x \in S : \A y \in S : x =< y
  BY LeastNat
<1> QED
  BY ONLY <1>1 DEF Min

LEMMA MaxNat ==
  ASSUME NEW bound \in Nat, NEW S, S \subseteq 0..bound, S # {}
  PROVE  Max(S) \in S /\ \A y \in S : Max(S) >= y
<1> DEFINE gaps == {bound - x : x \in S}
<1>1. gaps \subseteq Nat /\ gaps # {}
  <2>1. \A x \in S : bound - x \in Nat
    OBVIOUS
  <2>2. PICK x : x \in S
    OBVIOUS
  <2>3. bound - x \in gaps
    BY <2>2
  <2> QED
    BY <2>1, <2>3
<1>2. PICK gap \in gaps : \A other \in gaps : gap =< other
  BY <1>1, LeastNat
<1>3. PICK x \in S : gap = bound - x
  BY <1>2
<1>4. \A y \in S : x >= y
  <2> SUFFICES ASSUME NEW y \in S PROVE x >= y
    OBVIOUS
  <2>1. bound - y \in gaps
    OBVIOUS
  <2>2. bound - x =< bound - y
    BY ONLY <1>2, <1>3, <2>1
  <2>3. bound - x \in Int /\ bound - y \in Int /\ x \in Int /\ y \in Int
    OBVIOUS
  <2> QED
    BY ONLY <2>2, <2>3, bound \in Nat
<1>5. \E z \in S : \A y \in S : z >= y
  BY <1>3, <1>4
<1> QED
  BY ONLY <1>5 DEF Max

\* Two keys of one query differ first at some place.
LEMMA KeysCompare ==
  ASSUME NEW m \in Nat, NEW s \in [1..m -> Int], NEW t \in [1..m -> Int], s # t
  PROVE  Smaller(s, t) \/ Smaller(t, s)
<1> DEFINE D == {i \in 1..m : s[i] # t[i]}
<1>1. D \subseteq Nat /\ D # {}
  <2>1. \E i \in 1..m : s[i] # t[i]
    OBVIOUS
  <2>2. PICK i \in 1..m : i \in D
    BY <2>1
  <2>3. D \subseteq Nat
    OBVIOUS
  <2> HIDE DEF D
  <2> QED
    BY <2>2, <2>3
<1>2. PICK i \in D : \A j \in D : i =< j
  BY <1>1, LeastNat
<1>3. \A j \in 1..(i - 1) : s[j] = t[j]
  <2> SUFFICES ASSUME NEW j \in 1..(i - 1), s[j] # t[j] PROVE FALSE
    OBVIOUS
  <2>1. j \in D
    OBVIOUS
  <2>2. i =< j
    BY <1>2, <2>1
  <2> QED
    BY <2>2
<1>4. s[i] < t[i] \/ t[i] < s[i]
  OBVIOUS
<1>5. DOMAIN s = 1..m /\ DOMAIN t = 1..m /\ i \in 1..m
  OBVIOUS
<1> HIDE DEF D
<1> QED
  BY <1>3, <1>4, <1>5 DEF Smaller

\* A finite set whose members are pairwise ordered has one enumeration in
\* order.
Ordered(D, n, key, s) ==
  /\ s \in [1..n -> D]
  /\ \A i, j \in 1..n : i < j => s[i] # s[j] /\ ~Before(key, s[j], s[i])

LEMMA Onto ==
  ASSUME NEW D, IsFiniteSet(D), NEW key, NEW s, Ordered(D, Cardinality(D), key, s)
  PROVE  \A x \in D : \E i \in 1..Cardinality(D) : s[i] = x
<1> DEFINE n == Cardinality(D)
<1>0. n \in Nat
  BY FS_CardinalityType
<1>1. s \in Injection(1..n, D)
  <2>1. \A i, j \in 1..n : s[i] = s[j] => i = j
    <3> SUFFICES ASSUME NEW i \in 1..n, NEW j \in 1..n, i # j PROVE s[i] # s[j]
      OBVIOUS
    <3>1. i < j \/ j < i
      BY <1>0
    <3> QED
      BY <3>1 DEF Ordered
  <2> QED
    BY <2>1 DEF Ordered, Injection, IsInjective
<1>2. Cardinality(1..n) = n
  <2>1. Cardinality(1..n) = IF 1 > n THEN 0 ELSE n - 1 + 1
    BY <1>0, FS_Interval
  <2> HIDE DEF n
  <2> QED
    BY <1>0, <2>1
<1>3. s \in Surjection(1..n, D)
  BY <1>1, <1>2, FS_Injection
<1> QED
  BY <1>3 DEF Surjection

LEMMA SameFunction ==
  ASSUME NEW S, NEW D, NEW s \in [S -> D], NEW t \in [S -> D], \A i \in S : s[i] = t[i]
  PROVE  s = t
OBVIOUS

LEMMA OneOrder ==
  ASSUME NEW D, IsFiniteSet(D), NEW key,
         \A x, y \in D : x # y => Before(key, x, y) \/ Before(key, y, x),
         NEW s, NEW t, Ordered(D, Cardinality(D), key, s), Ordered(D, Cardinality(D), key, t)
  PROVE  s = t
<1> DEFINE n == Cardinality(D)
           E == {i \in 1..n : s[i] # t[i]}
<1>0. n \in Nat
  BY FS_CardinalityType
<1>1. SUFFICES ASSUME E # {} PROVE FALSE
  <2>1. ASSUME E = {} PROVE s = t
    <3> DEFINE I == 1..n
    <3>1. \A i \in I : s[i] = t[i]
      BY <2>1
    <3>2. s \in [I -> D] /\ t \in [I -> D]
      BY DEF Ordered
    <3> HIDE DEF I
    <3> QED
      BY <3>1, <3>2, SameFunction
  <2> QED
    BY <2>1
<1>2. PICK i \in E : \A j \in E : i =< j
  <2>1. E \subseteq Nat
    BY <1>0
  <2> QED
    BY <1>1, <2>1, LeastNat
<1>3. i \in 1..n /\ s[i] # t[i] /\ s[i] \in D /\ t[i] \in D
  BY <1>2 DEF Ordered
<1>4. \A j \in 1..n : j < i => s[j] = t[j]
  BY <1>0, <1>2
<1> HIDE DEF E, n
<1>5. PICK j \in 1..n : t[j] = s[i]
  BY <1>3, Onto DEF n
<1>6. PICK k \in 1..n : s[k] = t[i]
  BY <1>3, Onto DEF n
<1>7. i < j
  <2>1. j # i /\ (j < i => s[j] # s[i])
    BY <1>3, <1>5 DEF Ordered, n
  <2> QED
    BY <1>0, <1>3, <1>4, <1>5, <2>1
<1>8. i < k
  <2>1. k # i /\ (k < i => t[k] # t[i])
    BY <1>3, <1>6 DEF Ordered, n
  <2> QED
    BY <1>0, <1>3, <1>4, <1>6, <2>1
<1>9. ~Before(key, s[k], s[i]) /\ ~Before(key, t[j], t[i])
  BY <1>3, <1>5, <1>6, <1>7, <1>8 DEF Ordered, n
<1> QED
  BY <1>3, <1>5, <1>6, <1>9

LEMMA QueryType ==
  ASSUME NEW q \in Searches
  PROVE  /\ q.min \in Nat /\ q.max \in Nat /\ q.size \in Nat \ {0}
         /\ q.offered \in {"all", "yes", "no"}
         /\ q.list = "discover" => q.sort \in {"recommended"} \cup TimeSorts \cup PriceSorts
         /\ q.list # "discover" => q.sort \in TimeSorts \cup PriceSorts \cup CountSorts
BY IntAssumption DEF Queries

\* The offers that a row of a list counts.
OffersOf(q, x) ==
  IF q.list = "discover" THEN AvailableOffers(x)
                         ELSE UNION {AvailableOffers(u) : u \in UnitsOf(x)}

Listed(q) == IF q.list = "discover" THEN DOMAIN unitTypes ELSE DOMAIN properties

LEMMA OffersOfType ==
  ASSUME CatalogueOK, NEW q, NEW x
  PROVE  /\ IsFiniteSet(OffersOf(q, x))
         /\ PricesOf(OffersOf(q, x)) \subseteq Nat
         /\ PricesOf(OffersOf(q, x)) = {} <=> OffersOf(q, x) = {}
<1>1. OffersOf(q, x) \subseteq DOMAIN offers
  BY DEF OffersOf, AvailableOffers
<1>2. DOMAIN offers \subseteq Offers /\ \A o \in DOMAIN offers : offers[o] \in Offer
  BY DEF CatalogueOK, IsTable
<1>3. IsFiniteSet(OffersOf(q, x))
  BY <1>1, <1>2, FS_Subset
<1>4. PricesOf(OffersOf(q, x)) \subseteq Nat
  BY <1>1, <1>2 DEF PricesOf, Offer
<1>5. PricesOf(OffersOf(q, x)) = {} <=> OffersOf(q, x) = {}
  BY ONLY DEF PricesOf
<1> QED
  BY <1>3, <1>4, <1>5

LEMMA CardIs ==
  ASSUME NEW q, NEW x
  PROVE  /\ Card(q, x).count = Cardinality(OffersOf(q, x))
         /\ Card(q, x).lowest = Least(PricesOf(OffersOf(q, x)))
BY DEF Card, UnitCard, PropertyCard, OffersOf

\* What a row of a list is sorted by.
LEMMA CardType ==
  ASSUME CatalogueOK, NEW q \in Searches, NEW x \in Listed(q)
  PROVE  /\ Card(q, x).count \in Nat
         /\ Card(q, x).created \in Nat /\ Card(q, x).updated \in Nat
         /\ Card(q, x).lowest # {} => Min(Card(q, x).lowest) \in Nat
<1> DEFINE os == OffersOf(q, x)
<1>1. Card(q, x).count \in Nat
  BY CardIs, OffersOfType, FS_CardinalityType
<1>2. ASSUME Card(q, x).lowest # {} PROVE Min(Card(q, x).lowest) \in Nat
  <2>1. PricesOf(os) \subseteq Nat /\ Card(q, x).lowest = {Min(PricesOf(os))} /\ PricesOf(os) # {}
    BY <1>2, CardIs, OffersOfType DEF Least
  <2>2. Min(PricesOf(os)) \in Nat
    BY <2>1, MinNat
  <2>3. Min({Min(PricesOf(os))}) \in {Min(PricesOf(os))}
    BY <2>2, MinNat
  <2> QED
    BY <2>1, <2>2, <2>3
<1>3. /\ \A p \in DOMAIN properties : properties[p] \in Times
      /\ \A u \in DOMAIN unitTypes : unitTypes[u] \in Times /\ PropertyOf[u] \in DOMAIN properties
      /\ \A o \in DOMAIN offers : offers[o] \in Offer
  BY DEF CatalogueOK, IsTable
<1>4. CASE q.list = "discover"
  <2> DEFINE changes == {properties[PropertyOf[x]].updated, unitTypes[x].updated}
                        \cup {offers[o].updated : o \in AvailableOffers(x)}
  <2>1. /\ Card(q, x).created = properties[PropertyOf[x]].created
        /\ Card(q, x).updated = Max(changes)
    BY <1>4 DEF Card, UnitCard
  <2>2. x \in DOMAIN unitTypes
    BY <1>4 DEF Listed
  <2>3. {properties[PropertyOf[x]].updated, unitTypes[x].updated} \subseteq 0..MaxWrites
        /\ properties[PropertyOf[x]].created \in 0..MaxWrites
    BY <1>3, <2>2 DEF Times
  <2>4. \A o \in AvailableOffers(x) : offers[o].updated \in 0..MaxWrites
    BY <1>3 DEF AvailableOffers, Offer
  <2>5. changes \subseteq 0..MaxWrites /\ changes # {}
    BY <2>3, <2>4
  <2>6. Max(changes) \in 0..MaxWrites
    <3> HIDE DEF changes
    <3> QED
      BY <2>5, MaxNat
  <2> QED
    BY <1>1, <1>2, <2>1, <2>3, <2>6
<1>5. CASE q.list # "discover"
  <2>1. /\ Card(q, x).created = properties[x].created
        /\ Card(q, x).updated = properties[x].updated
    BY <1>5 DEF Card, PropertyCard
  <2>2. properties[x] \in Times
    BY <1>3, <1>5 DEF Listed
  <2> QED
    BY <1>1, <1>2, <2>1, <2>2 DEF Times
<1> QED
  BY <1>4, <1>5

LEMMA OneKey == ASSUME NEW a \in Int PROVE <<a>> \in [1..1 -> Int]
OBVIOUS
LEMMA FiveKeys ==
  ASSUME NEW a \in Int, NEW b \in Int, NEW c \in Int, NEW d \in Int, NEW e \in Int
  PROVE  <<a, b, c, d, e>> \in [1..5 -> Int]
OBVIOUS

\* The sort keys of one query have one length.
LEMMA KeyType ==
  ASSUME CatalogueOK, NEW q \in Searches
  PROVE  \E m \in Nat : \A x \in Listed(q) : SortKey(q, x) \in [1..m -> Int]
<1> DEFINE m == IF q.sort = "recommended" THEN 5 ELSE 1
<1>1. ASSUME NEW x \in Listed(q) PROVE SortKey(q, x) \in [1..m -> Int]
  <2> DEFINE card == Card(q, x)
  <2>1. /\ card.count \in Nat /\ card.created \in Nat /\ card.updated \in Nat
        /\ card.lowest # {} => Min(card.lowest) \in Nat
    BY CardType
  <2>2. PriceKey(1, card.lowest) \in Int /\ PriceKey(-1, card.lowest) \in Int
    BY <2>1 DEF PriceKey
  <2>3. /\ -card.created \in Int /\ -card.updated \in Int /\ -card.count \in Int
        /\ card.created \in Int /\ card.count \in Int
    BY <2>1
  <2>4. -Yes(card.count > 0) \in Int /\ -Yes(card.thumbnail # {}) \in Int
    BY DEF Yes
  <2>5. CASE q.sort = "recommended"
    <3>1. q.list = "discover"
      BY <2>5, QueryType DEF TimeSorts, PriceSorts, CountSorts
    <3>2. x \in UnitTypes
      BY <3>1 DEF Listed, CatalogueOK, IsTable
    <3>3. -Completeness[x] \in Int
      BY <3>2
    <3>4. SortKey(q, x) = <<-Yes(card.count > 0), -Yes(card.thumbnail # {}), -Completeness[x],
                            -card.updated, -card.count>>
      BY <2>5 DEF SortKey
    <3>5. <<-Yes(card.count > 0), -Yes(card.thumbnail # {}), -Completeness[x],
            -card.updated, -card.count>> \in [1..5 -> Int]
      BY ONLY <2>3, <2>4, <3>3, FiveKeys
    <3>6. m = 5
      BY <2>5
    <3> HIDE DEF card, m
    <3> QED
      BY ONLY <3>4, <3>5, <3>6
  <2>6. CASE q.sort # "recommended"
    <3>1. q.sort \in TimeSorts \cup PriceSorts \cup CountSorts
      BY <2>6, QueryType
    <3>2. SortKey(q, x) \in {<<card.created>>, <<-card.created>>, <<PriceKey(1, card.lowest)>>,
                             <<PriceKey(-1, card.lowest)>>, <<card.count>>, <<-card.count>>}
      BY <3>1 DEF SortKey, TimeSorts, PriceSorts, CountSorts
    <3> HIDE DEF card
    <3> QED
      BY <2>2, <2>3, <2>6, <3>2, OneKey
  <2> QED
    BY <2>5, <2>6
<1> QED
  BY <1>1

LEMMA KoboType ==
  ASSUME NEW naira \in Nat
  PROVE  Kobo(naira) \in Int /\ (Exact(naira) => Kobo(naira) = naira * 100)
<1> DEFINE n == naira * 100
           m == MaxInt + 1
<1>1. n \in Nat /\ m \in Nat \ {0} /\ Kobo(naira) = ((n + m) % (2 * m)) - m
  BY IntAssumption DEF Kobo
<1>2. Exact(naira) <=> n < m
  BY <1>1, IntAssumption DEF Exact
<1> HIDE DEF n, m
<1>3. (n + m) % (2 * m) \in Nat /\ (n < m => (n + m) % (2 * m) = n + m)
  BY <1>1
<1> QED
  BY <1>1, <1>2, <1>3 DEF n

\* The lowest price of some offers tells what the filters ask of them.
LEMMA LowestTells ==
  ASSUME CatalogueOK, NEW q, NEW x, NEW kobo \in Int
  PROVE  /\ (\E price \in Card(q, x).lowest : price >= kobo)
              <=> OffersOf(q, x) # {} /\ \A o \in OffersOf(q, x) : offers[o].price >= kobo
         /\ (\E price \in Card(q, x).lowest : price =< kobo)
              <=> \E o \in OffersOf(q, x) : offers[o].price =< kobo
         /\ Card(q, x).count > 0 <=> OffersOf(q, x) # {}
         /\ Card(q, x).count = 0 <=> OffersOf(q, x) = {}
<1> DEFINE os == OffersOf(q, x)
           lowest == Card(q, x).lowest
           prices == PricesOf(os)
<1>1. /\ IsFiniteSet(os) /\ prices \subseteq Nat /\ (prices = {} <=> os = {})
      /\ lowest = Least(prices) /\ Card(q, x).count = Cardinality(os)
  BY OffersOfType, CardIs
<1>2. Cardinality(os) \in Nat /\ (Cardinality(os) = 0 <=> os = {})
  BY <1>1, FS_CardinalityType, FS_EmptySet
<1>3. (Card(q, x).count > 0 <=> os # {}) /\ (Card(q, x).count = 0 <=> os = {})
  <2> HIDE DEF os
  <2> QED
    BY <1>1, <1>2
<1>4. CASE os = {}
  <2>1. lowest = {}
    BY <1>1, <1>4 DEF Least
  <2> QED
    BY <1>3, <1>4, <2>1
<1>5. CASE os # {}
  <2>1. lowest = {Min(prices)}
    BY <1>1, <1>5 DEF Least
  <2>2. Min(prices) \in prices /\ \A price \in prices : Min(prices) =< price
    BY <1>1, <1>5, MinNat
  <2>3. PICK least \in os : Min(prices) = offers[least].price
    BY <2>2 DEF PricesOf
  <2>4. \A o \in os : offers[o].price \in Nat /\ Min(prices) =< offers[o].price
    BY <1>1, <2>2 DEF PricesOf
  <2>5. Min(prices) \in Nat
    BY <1>1, <2>2
  <2> HIDE DEF os, lowest, prices
  <2>6. (\E price \in lowest : price >= kobo) <=> \A o \in os : offers[o].price >= kobo
    BY <2>1, <2>3, <2>4, <2>5
  <2>7. (\E price \in lowest : price =< kobo) <=> \E o \in os : offers[o].price =< kobo
    BY <2>1, <2>3, <2>4, <2>5
  <2> QED
    BY <1>3, <1>5, <2>6, <2>7 DEF os, lowest
<1> QED
  BY <1>4, <1>5

\* What Wanted asks of the offers of a row.
Wants(q, os) ==
  /\ q.offered # "all" => (q.offered = "yes") = (os # {})
  /\ q.min > 0 \/ q.max > 0 => os # {}
  /\ \A o \in os : q.min > 0 => offers[o].price >= q.min * 100
  /\ q.max > 0 => \E o \in os : offers[o].price =< q.max * 100

\* WHERE and HAVING, over aggregates, choose the rows that were asked for.
LEMMA FilteredIsWanted ==
  ASSUME CatalogueOK, NEW q \in Searches, Exact(q.min), Exact(q.max)
  PROVE  Filtered(q) = Wanted(q)
<1>1. Wanted(q) = {x \in Listed(q) : Wants(q, OffersOf(q, x))}
  <2> DEFINE For(x) ==
        IF q.list = "discover" THEN AvailableOffers(x)
        ELSE {o \in DOMAIN offers : PropertyOf[UnitOf[o]] = x /\ o \in AvailableOffers(UnitOf[o])}
  <2>1. ASSUME NEW x PROVE For(x) = OffersOf(q, x)
    <3>1. CASE q.list = "discover"
      BY <3>1 DEF OffersOf
    <3>2. CASE q.list # "discover"
      <4>1. ASSUME NEW o \in For(x) PROVE o \in OffersOf(q, x)
        <5>1. UnitOf[o] \in UnitsOf(x) /\ o \in AvailableOffers(UnitOf[o])
          BY <3>2, <4>1 DEF UnitsOf, CatalogueOK
        <5> QED
          BY <3>2, <5>1 DEF OffersOf
      <4>2. ASSUME NEW o \in OffersOf(q, x) PROVE o \in For(x)
        <5>1. PICK u \in UnitsOf(x) : o \in AvailableOffers(u)
          BY <3>2, <4>2 DEF OffersOf
        <5>2. UnitOf[o] = u /\ o \in DOMAIN offers /\ PropertyOf[u] = x
          BY <5>1 DEF AvailableOffers, UnitsOf
        <5> QED
          BY <3>2, <5>1, <5>2
      <4> HIDE DEF For
      <4> QED
        BY <4>1, <4>2
    <3> QED
      BY <3>1, <3>2
  <2>2. Wanted(q) = {x \in Listed(q) : Wants(q, For(x))}
    BY DEF Wanted, Wants, Listed
  <2> HIDE DEF For
  <2> QED
    BY <2>1, <2>2
<1>2. q.min \in Nat /\ q.max \in Nat /\ q.offered \in {"all", "yes", "no"}
  BY QueryType
<1>3. /\ Kobo(q.min) \in Int /\ Kobo(q.min) = q.min * 100
      /\ Kobo(q.max) \in Int /\ Kobo(q.max) = q.max * 100
  BY <1>2, KoboType
<1>4. ASSUME NEW x \in Listed(q)
      PROVE  x \in Filtered(q) <=> Wants(q, OffersOf(q, x))
  <2> DEFINE os == OffersOf(q, x)
             card == Card(q, x)
  <2>1. x \in Filtered(q) <=>
          /\ q.offered = "yes" => card.count > 0
          /\ q.offered = "no" => card.count = 0
          /\ q.min > 0 => \E price \in card.lowest : price >= Kobo(q.min)
          /\ q.max > 0 => \E price \in card.lowest : price =< Kobo(q.max)
    BY DEF Filtered, Listed
  <2>2. (\E price \in card.lowest : price >= Kobo(q.min))
          <=> os # {} /\ \A o \in os : offers[o].price >= Kobo(q.min)
    BY <1>3, LowestTells
  <2>3. (\E price \in card.lowest : price =< Kobo(q.max))
          <=> \E o \in os : offers[o].price =< Kobo(q.max)
    BY <1>3, LowestTells
  <2>4. (card.count > 0 <=> os # {}) /\ (card.count = 0 <=> os = {})
    BY <1>3, LowestTells
  <2> HIDE DEF os, card
  <2>5. x \in Filtered(q) <=>
          /\ q.offered = "yes" => os # {}
          /\ q.offered = "no" => os = {}
          /\ q.min > 0 => os # {} /\ \A o \in os : offers[o].price >= Kobo(q.min)
          /\ q.max > 0 => \E o \in os : offers[o].price =< Kobo(q.max)
    BY <2>1, <2>2, <2>3, <2>4
  <2> QED
    BY <1>2, <1>3, <2>5 DEF Wants, os
<1>5. Filtered(q) \subseteq Listed(q)
  BY DEF Filtered, Listed
<1> QED
  BY <1>1, <1>4, <1>5

\* ORDER BY ..., id leaves nothing to the database.
LEMMA OrderIs ==
  ASSUME CatalogueOK, NEW q \in Searches
  PROVE  LET rows == Filtered(q)
             key == [x \in rows |-> SortKey(q, x)]
         IN /\ IsFiniteSet(rows)
            /\ \A x, y \in rows : x # y => Before(key, x, y) \/ Before(key, y, x)
            /\ \A s : s \in Orders(q) <=> Ordered(rows, Cardinality(rows), key, s)
<1> DEFINE rows == Filtered(q)
           key == [x \in rows |-> SortKey(q, x)]
<1>1. rows \subseteq Listed(q)
  BY DEF Filtered, Listed
<1>2. Listed(q) \subseteq UnitTypes \/ Listed(q) \subseteq Properties
  BY DEF Listed, CatalogueOK, IsTable
<1>3. IsFiniteSet(rows)
  <2>1. IsFiniteSet(UnitTypes) /\ IsFiniteSet(Properties)
    OBVIOUS
  <2> HIDE DEF rows
  <2> QED
    BY <1>1, <1>2, <2>1, FS_Subset
<1>4. PICK m \in Nat : \A x \in Listed(q) : SortKey(q, x) \in [1..m -> Int]
  BY KeyType
<1>5. ASSUME NEW x \in rows, NEW y \in rows, x # y PROVE Before(key, x, y) \/ Before(key, y, x)
  <2>1. x \in Nat /\ y \in Nat
    <3> HIDE DEF rows
    <3> QED
      BY <1>1, <1>2, <1>5
  <2>2. key[x] \in [1..m -> Int] /\ key[y] \in [1..m -> Int]
    BY <1>1, <1>4
  <2> HIDE DEF key
  <2>3. CASE key[x] = key[y]
    BY <1>5, <2>1, <2>3 DEF Before
  <2>4. CASE key[x] # key[y]
    BY <2>2, <2>4, KeysCompare DEF Before
  <2> QED
    BY <2>3, <2>4
<1>6. ASSUME NEW s PROVE s \in Orders(q) <=> Ordered(rows, Cardinality(rows), key, s)
  <2>1. DOMAIN key = rows
    OBVIOUS
  <2>2. s \in Orders(q) <=>
          /\ s \in [1..Cardinality(DOMAIN key) -> DOMAIN key]
          /\ \A i, j \in 1..Cardinality(DOMAIN key) :
               i < j => s[i] # s[j] /\ ~Before(key, s[j], s[i])
    BY DEF Orders
  <2> HIDE DEF key, rows
  <2> QED
    BY <2>1, <2>2 DEF Ordered
<1> QED
  BY <1>3, <1>5, <1>6

LEMMA Monotone ==
  ASSUME NEW a \in Nat, NEW b \in Nat, NEW c \in Nat, a =< b
  PROVE  a * c =< b * c
<1>1. (b - a) * c >= 0
  <2>1. PICK d \in Nat : d = b - a
    OBVIOUS
  <2>2. d * c >= 0
    OBVIOUS
  <2> QED
    BY <2>1, <2>2
<1>2. b * c = a * c + (b - a) * c
  OBVIOUS
<1>3. a * c \in Nat /\ (b - a) * c \in Int
  OBVIOUS
<1> QED
  BY <1>1, <1>2, <1>3

LEMMA OffsetType ==
  ASSUME NEW page \in Nat \ {0}, NEW size \in Nat \ {0}
  PROVE  Offset(page, size) \in Nat /\ Offset(page, size) + size = page * size
<1>1. PICK before \in Nat : page = before + 1
  <2>1. page - 1 \in Nat /\ page = (page - 1) + 1
    OBVIOUS
  <2> QED
    BY <2>1
<1>2. before * size \in Nat /\ (before + 1) * size = before * size + size
  OBVIOUS
<1>3. (page - 1) * size = before * size
  BY <1>1
<1> QED
  BY <1>1, <1>2, <1>3 DEF Offset

\* The places of a list that a page shows.
PlacesOn(n, page, size) == {i \in 1..n : Offset(page, size) < i /\ i =< page * size}

\* What is shown, and the total that is told.
LEMMA AnswerShows ==
  ASSUME NEW q, q.size \in Nat \ {0}, NEW page \in Nat \ {0}, NEW n \in Nat,
         NEW S, NEW key, NEW order, Ordered(S, n, key, order)
  PROVE  /\ Answer(q, page, order).status = 200
         /\ \A x : x \in Range(Answer(q, page, order).items) <=>
                    \E i \in PlacesOn(n, page, q.size) : x = order[i]
         /\ n =< Offset(page, q.size) =>
              Answer(q, page, order).metadata = Metadata(0, page, q.size)
         /\ ~(n =< Offset(page, q.size)) =>
              Answer(q, page, order).metadata = Metadata(n, page, q.size)
<1> DEFINE a == Offset(page, q.size)
           b == page * q.size
           end == Min({a + q.size, Len(order)})
           items == SubSeq(order, a + 1, end)
<1>1. a \in Nat /\ a + q.size = b /\ b \in Nat
  <2>1. PICK size \in Nat \ {0} : size = q.size
    OBVIOUS
  <2>2. Offset(page, size) \in Nat /\ Offset(page, size) + size = page * size
    BY OffsetType
  <2>3. Offset(page, size) + size \in Nat
    BY <2>2
  <2> QED
    BY ONLY <2>1, <2>2, <2>3
<1>2. order \in [1..n -> S] /\ Len(order) = n
  BY DEF Ordered
<1>3. end \in {b, n} /\ end =< b /\ end =< n /\ end \in Nat
  <2>1. {a + q.size, Len(order)} = {b, n}
    BY <1>1, <1>2
  <2> HIDE DEF a, b
  <2>2. {b, n} \subseteq Nat /\ {b, n} # {}
    BY <1>1
  <2>3. Min({b, n}) \in {b, n} /\ Min({b, n}) =< b /\ Min({b, n}) =< n
    BY <2>2, MinNat
  <2> QED
    BY <1>1, <2>1, <2>3
<1>4. Answer(q, page, order) =
        [status |-> 200, items |-> items,
         metadata |-> Metadata(IF items = <<>> THEN 0 ELSE Len(order), page, q.size)]
  BY DEF Answer
<1> HIDE DEF a, b, end
<1>5. items = <<>> <=> n =< a
  <2>1. CASE n =< a
    <3>1. end < a + 1
      BY <1>1, <1>3, <2>1
    <3> QED
      BY <1>1, <1>3, <2>1, <3>1, SubSeqEmpty
  <2>2. CASE a < n
    <3>1. a + 1 =< end
      BY <1>1, <1>3, <2>2
    <3>2. \A i \in (a + 1)..end : order[i] \in S
      BY <1>1, <1>2, <1>3
    <3>3. Len(items) = end - (a + 1) + 1 /\ items \in Seq(S)
      BY <1>1, <1>3, <3>1, <3>2, SubSeqProperties
    <3> HIDE DEF items
    <3>4. Len(items) # 0
      BY <1>1, <1>3, <3>1, <3>3
    <3>5. items # <<>>
      BY ONLY <3>4
    <3> QED
      BY <1>1, <2>2, <3>5
  <2> QED
    BY <1>1, <2>1, <2>2
<1>6. \A x : x \in Range(items) <=> \E i \in 1..n : a < i /\ i =< b /\ x = order[i]
  <2>1. \A i \in (a + 1)..end : order[i] \in S
    BY <1>1, <1>2, <1>3
  <2>2. /\ items \in Seq(S)
        /\ Len(items) = IF a + 1 =< end THEN end - (a + 1) + 1 ELSE 0
        /\ \A k \in 1..(end - (a + 1) + 1) : items[k] = order[(a + 1) + k - 1]
    <3>1. a + 1 \in Int /\ end \in Int
      BY <1>1, <1>3
    <3> HIDE DEF items
    <3> QED
      BY <2>1, <3>1, SubSeqProperties DEF items
  <2>3. DOMAIN items = 1..(end - a)
    <3>1. DOMAIN items = 1..Len(items)
      BY <2>2
    <3> HIDE DEF items
    <3> QED
      BY <1>1, <1>3, <2>2, <3>1
  <2> HIDE DEF items
  <2>4. ASSUME NEW x \in Range(items) PROVE \E i \in 1..n : a < i /\ i =< b /\ x = order[i]
    <3>1. PICK k \in 1..(end - a) : x = items[k]
      BY <2>3, <2>4 DEF Range
    <3>2. x = order[a + k] /\ a + k \in 1..n /\ a < a + k /\ a + k =< b
      BY <1>1, <1>3, <2>2, <3>1
    <3> QED
      BY <3>2
  <2>5. ASSUME NEW i \in 1..n, a < i, i =< b PROVE order[i] \in Range(items)
    <3>1. i - a \in 1..(end - a) /\ (a + 1) + (i - a) - 1 = i
      BY <1>1, <1>3, <2>5
    <3>2. items[i - a] = order[i]
      BY <1>1, <1>3, <2>2, <3>1
    <3> QED
      BY <2>3, <3>1, <3>2 DEF Range
  <2> QED
    BY <2>4, <2>5
<1> HIDE DEF items
<1> QED
  BY ONLY <1>2, <1>4, <1>5, <1>6 DEF a, b, PlacesOn

\* The number of the last page.
LEMMA LastPage ==
  ASSUME NEW n \in Nat, NEW size \in Nat \ {0}
  PROVE  LET last == (n + size - 1) \div size IN
         /\ last \in Nat
         /\ n = 0 => last = 0
         /\ \A page \in Nat \ {0} : page > last <=> n =< Offset(page, size)
         /\ \A i \in 1..n : \E page \in 1..last : i \in PlacesOn(n, page, size)
<1> DEFINE last == (n + size - 1) \div size
<1>1. last \in Nat /\ last * size =< n + size - 1 /\ n + size - 1 < last * size + size
  <2>1. n + size - 1 \in Nat
    OBVIOUS
  <2> QED
    BY <2>1, Division
<1> HIDE DEF last
<1>2. last * size \in Nat
  BY <1>1
<1>3. ASSUME NEW page \in Nat \ {0} PROVE page > last <=> n =< Offset(page, size)
  <2>1. PICK before \in Nat : page = before + 1
    <3>1. page - 1 \in Nat /\ page = (page - 1) + 1
      OBVIOUS
    <3> QED
      BY <3>1
  <2>2. Offset(page, size) \in Nat /\ Offset(page, size) + size = page * size
    BY OffsetType
  <2>3. ASSUME page > last PROVE n =< Offset(page, size)
    <3>1. last =< before
      BY <1>1, <2>1, <2>3
    <3>2. last * size =< before * size /\ before * size \in Nat
      BY <1>1, <3>1, Monotone
    <3>3. Offset(page, size) = before * size
      <4>1. page - 1 = before
        BY <2>1
      <4> QED
        BY <4>1 DEF Offset
    <3> QED
      BY <1>1, <1>2, <3>2, <3>3
  <2>4. ASSUME page =< last PROVE Offset(page, size) < n
    <3>1. page * size =< last * size
      BY <1>1, <2>4, Monotone
    <3> QED
      BY <1>1, <1>2, <2>2, <3>1
  <2> QED
    BY <1>1, <2>2, <2>3, <2>4
<1>4. ASSUME NEW i \in 1..n PROVE \E page \in 1..last : i \in PlacesOn(n, page, size)
  <2> DEFINE before == (i - 1) \div size
  <2>1. before \in Nat /\ before * size =< i - 1 /\ i - 1 < before * size + size
    <3>1. i - 1 \in Nat
      OBVIOUS
    <3> QED
      BY <3>1, Division
  <2> HIDE DEF before
  <2>2. before + 1 \in Nat \ {0} /\ Offset(before + 1, size) = before * size
    <3>1. (before + 1) - 1 = before
      BY <2>1
    <3> QED
      BY <2>1, <3>1 DEF Offset
  <2>3. Offset(before + 1, size) + size = (before + 1) * size
    BY <2>2, OffsetType
  <2>4. ~(n =< Offset(before + 1, size))
    BY <2>1, <2>2
  <2>5. before + 1 \in 1..last
    BY <1>1, <1>3, <2>1, <2>2, <2>4
  <2>6. before * size \in Nat
    BY <2>1
  <2>7. Offset(before + 1, size) < i /\ i =< (before + 1) * size
    BY <2>1, <2>2, <2>3, <2>6
  <2> QED
    BY <2>5, <2>7 DEF PlacesOn
<1>5. n = 0 => last = 0
  <2>1. ASSUME n = 0, last # 0 PROVE FALSE
    <3>1. 1 * size =< last * size
      BY <1>1, <2>1, Monotone
    <3> QED
      BY <1>1, <1>2, <2>1, <3>1
  <2> QED
    BY <2>1
<1> QED
  BY <1>1, <1>3, <1>4, <1>5 DEF last

\* What PagesPartition says of the pages of a walk.
Pieces(q, pages) ==
  LET last == (Cardinality(Wanted(q)) + q.size - 1) \div q.size
      ItemsOn(page) == Range(pages[page].items)
  IN /\ \A i, j \in DOMAIN pages : i < j =>
          \A x \in ItemsOn(i), y \in ItemsOn(j) :
            x # y /\ ~Smaller(SortKey(q, y), SortKey(q, x))
     /\ 1..last \subseteq DOMAIN pages =>
          UNION {ItemsOn(page) : page \in DOMAIN pages} = Wanted(q)
     /\ \A page \in DOMAIN pages :
          pages[page].metadata =
            IF page > last THEN NoMetadata
            ELSE [page |-> page, size |-> q.size, last |-> last,
                  total |-> Cardinality(Wanted(q))]

LEMMA PagesArePieces ==
  ASSUME CatalogueOK, NEW q \in Searches, NEW pages, Exact(q.min), Exact(q.max),
         \A page \in DOMAIN pages :
           /\ page \in Nat \ {0}
           /\ pages[page] \in Answers(q, page)
           /\ pages[page].status = 200
  PROVE  Pieces(q, pages)
<1> DEFINE rows == Wanted(q)
           key == [x \in rows |-> SortKey(q, x)]
           ItemsOn(page) == Range(pages[page].items)
<1>0. Filtered(q) = Wanted(q)
  BY FilteredIsWanted
<1>1. PICK size \in Nat \ {0} : size = q.size
  BY QueryType
<1>2. /\ IsFiniteSet(rows)
      /\ \A x, y \in rows : x # y => Before(key, x, y) \/ Before(key, y, x)
      /\ \A s : s \in Orders(q) <=> Ordered(rows, Cardinality(rows), key, s)
  BY <1>0, OrderIs
<1>3. PICK n \in Nat : n = Cardinality(rows) /\ (n = 0 => rows = {})
  <2> HIDE DEF rows, key
  <2>1. IsFiniteSet(rows)
    BY <1>2
  <2> QED
    BY ONLY <2>1, FS_CardinalityType, FS_EmptySet
<1>4. \A x \in rows : key[x] = SortKey(q, x)
  OBVIOUS
<1>5. PICK last \in Nat :
        /\ last = (n + size - 1) \div size
        /\ n = 0 => last = 0
        /\ \A page \in Nat \ {0} : page > last <=> n =< Offset(page, size)
        /\ \A i \in 1..n : \E page \in 1..last : i \in PlacesOn(n, page, size)
  BY LastPage
<1>6. SUFFICES
        /\ \A i, j \in DOMAIN pages : i < j =>
             \A x \in ItemsOn(i), y \in ItemsOn(j) :
               x # y /\ ~Smaller(SortKey(q, y), SortKey(q, x))
        /\ 1..last \subseteq DOMAIN pages => UNION {ItemsOn(page) : page \in DOMAIN pages} = rows
        /\ \A page \in DOMAIN pages :
             pages[page].metadata =
               IF page > last THEN NoMetadata
               ELSE [page |-> page, size |-> size, last |-> last, total |-> n]
  BY <1>1, <1>3, <1>5 DEF Pieces
<1>7. ASSUME NEW page \in DOMAIN pages
      PROVE  \E order \in Orders(q) : pages[page] = Answer(q, page, order)
  BY <1>7 DEF Answers, Failed
<1> HIDE DEF rows, key, ItemsOn
<1>8. CASE DOMAIN pages = {}
  <2>1. ASSUME 1..last \subseteq DOMAIN pages PROVE rows = {}
    <3>1. 1..n = {}
      BY <1>5, <1>8, <2>1
    <3> QED
      BY <1>3, <3>1
  <2> QED
    BY <1>8, <2>1
<1>9. CASE DOMAIN pages # {}
  <2>1. PICK order \in Orders(q) : TRUE
    BY <1>7, <1>9
  <2>2. Ordered(rows, Cardinality(rows), key, order)
    BY <1>2, <2>1
  <2>3. /\ order \in [1..n -> rows]
        /\ \A i, j \in 1..n : i < j => order[i] # order[j] /\ ~Before(key, order[j], order[i])
    BY <1>3, <2>2 DEF Ordered
  <2>4. \A s \in Orders(q) : s = order
    BY <1>2, <2>2, OneOrder
  <2>5. ASSUME NEW page \in DOMAIN pages
        PROVE  /\ page \in Nat \ {0}
               /\ \A x : x \in ItemsOn(page) <=> \E i \in PlacesOn(n, page, size) : x = order[i]
               /\ pages[page].metadata =
                    Metadata(IF n =< Offset(page, size) THEN 0 ELSE n, page, size)
    <3>1. page \in Nat \ {0} /\ pages[page] = Answer(q, page, order)
      BY <1>7, <2>4, <2>5
    <3>2. /\ \A x : x \in Range(Answer(q, page, order).items) <=>
                     \E i \in PlacesOn(n, page, q.size) : x = order[i]
          /\ n =< Offset(page, q.size) =>
               Answer(q, page, order).metadata = Metadata(0, page, q.size)
          /\ ~(n =< Offset(page, q.size)) =>
               Answer(q, page, order).metadata = Metadata(n, page, q.size)
      <4>1. q.size \in Nat \ {0} /\ page \in Nat \ {0} /\ n \in Nat
            /\ Ordered(rows, n, key, order)
        BY <1>1, <1>3, <2>2, <3>1
      <4> QED
        BY ONLY <4>1, AnswerShows
    <3>3. ItemsOn(page) = Range(Answer(q, page, order).items)
      BY <3>1 DEF ItemsOn
    <3> QED
      BY <1>1, <3>1, <3>2, <3>3
  <2>6. ASSUME NEW i \in DOMAIN pages, NEW j \in DOMAIN pages, i < j,
               NEW x \in ItemsOn(i), NEW y \in ItemsOn(j)
        PROVE  x # y /\ ~Smaller(SortKey(q, y), SortKey(q, x))
    <3>1. PICK k \in PlacesOn(n, i, size) : x = order[k]
      BY <2>5
    <3>2. PICK l \in PlacesOn(n, j, size) : y = order[l]
      BY <2>5
    <3>3. k \in 1..n /\ l \in 1..n /\ k =< i * size /\ Offset(j, size) < l
      BY <3>1, <3>2 DEF PlacesOn
    <3>4. i * size =< Offset(j, size) /\ i * size \in Nat /\ Offset(j, size) \in Nat
      <4>1. i \in Nat /\ j - 1 \in Nat /\ i =< j - 1 /\ j \in Nat \ {0}
        BY <2>5, <2>6
      <4>2. i * size =< (j - 1) * size /\ i * size \in Nat
        BY <4>1, Monotone
      <4>3. Offset(j, size) = (j - 1) * size /\ Offset(j, size) \in Nat
        BY <4>1, OffsetType DEF Offset
      <4> QED
        BY ONLY <4>2, <4>3
    <3>5. k < l
      BY <3>3, <3>4
    <3>6. order[k] # order[l] /\ ~Before(key, order[l], order[k])
      BY <2>3, <3>3, <3>5
    <3>7. x \in rows /\ y \in rows
      BY <2>3, <3>1, <3>2, <3>3
    <3> QED
      BY <1>4, <3>1, <3>2, <3>6, <3>7 DEF Before
  <2>7. ASSUME 1..last \subseteq DOMAIN pages
        PROVE  UNION {ItemsOn(page) : page \in DOMAIN pages} = rows
    <3>1. ASSUME NEW page \in DOMAIN pages, NEW x \in ItemsOn(page) PROVE x \in rows
      <4>1. PICK i \in PlacesOn(n, page, size) : x = order[i]
        BY <2>5, <3>1
      <4> QED
        BY <2>3, <4>1 DEF PlacesOn
    <3>2. ASSUME NEW x \in rows PROVE \E page \in DOMAIN pages : x \in ItemsOn(page)
      <4>1. PICK i \in 1..n : order[i] = x
        BY <1>2, <1>3, <2>2, <3>2, Onto
      <4>2. PICK page \in 1..last : i \in PlacesOn(n, page, size)
        BY <1>5
      <4>3. page \in DOMAIN pages
        BY <2>7
      <4>4. x \in ItemsOn(page)
        BY <2>5, <4>1, <4>2, <4>3
      <4> QED
        BY <4>3, <4>4
    <3> QED
      BY <3>1, <3>2
  <2>8. ASSUME NEW page \in DOMAIN pages
        PROVE  pages[page].metadata =
                 IF page > last THEN NoMetadata
                 ELSE [page |-> page, size |-> size, last |-> last, total |-> n]
    <3>1. /\ page \in Nat \ {0}
          /\ pages[page].metadata =
               Metadata(IF n =< Offset(page, size) THEN 0 ELSE n, page, size)
          /\ page > last <=> n =< Offset(page, size)
      BY <1>5, <2>5, <2>8
    <3>2. CASE page > last
      BY <3>1, <3>2 DEF Metadata
    <3>3. CASE ~(page > last)
      <4>1. pages[page].metadata = Metadata(n, page, size) /\ n # 0
        BY <1>5, <3>1, <3>3
      <4> QED
        BY <1>5, <3>3, <4>1 DEF Metadata
    <3> QED
      BY <3>2, <3>3
  <2> QED
    BY <2>6, <2>7, <2>8
<1> QED
  BY <1>8, <1>9

LEMMA WalkIsPieces == CatalogueOK /\ WalkOfItsTime => PagesPartition
<1> SUFFICES ASSUME CatalogueOK, WalkOfItsTime, view.kind = "walk",
                    Exact(view.query.min), Exact(view.query.max),
                    \A page \in DOMAIN view.pages : view.pages[page].status = 200
             PROVE  Pieces(view.query, view.pages)
  BY DEF PagesPartition, Pieces
<1>1. PICK q, pages : q = view.query /\ pages = view.pages
  OBVIOUS
<1>2. /\ q \in Searches
      /\ \A page \in DOMAIN pages :
           page \in Nat \ {0} /\ pages[page] \in Answers(q, page) /\ pages[page].status = 200
  BY <1>1 DEF WalkOfItsTime
<1> QED
  BY <1>1, <1>2, PagesArePieces

\* Nothing changes for a list if nothing is written.
LEMMA AnswersSame ==
  ASSUME UNCHANGED catalogue, NEW q \in Searches, NEW page
  PROVE  Answers(q, page)' = Answers(q, page)
<1>1. ASSUME NEW x PROVE UnitCard(x)' = UnitCard(x)
  BY DEF catalogue, UnitCard, AvailableOffers, PricesOf, MediaAt, Earliest
<1>2. ASSUME NEW x PROVE PropertyCard(x)' = PropertyCard(x)
  BY DEF catalogue, PropertyCard, UnitsOf, AvailableOffers, PricesOf, MediaAt, Earliest
<1>3. ASSUME NEW x PROVE Card(q, x)' = Card(q, x)
  BY <1>1, <1>2 DEF Card
<1>4. ASSUME NEW x PROVE SortKey(q, x)' = SortKey(q, x)
  <2>1. q.sort \in {"recommended"} \cup TimeSorts \cup PriceSorts \cup CountSorts
    BY QueryType
  <2>2. PICK card : card = Card(q, x) /\ card = Card(q, x)'
    BY <1>3
  <2> QED
    BY ONLY <2>1, <2>2 DEF SortKey, TimeSorts, PriceSorts, CountSorts
<1>5. Filtered(q)' = Filtered(q)
  BY <1>3 DEF catalogue, Filtered
<1>6. Orders(q)' = Orders(q)
  BY <1>4, <1>5 DEF Orders
<1> QED
  BY <1>6 DEF Answers

\* The pages of a walk were all answered by the catalogue as it is.
LEMMA WalkNext ==
  DetailInv /\ WalkOfItsTime /\ [BrowsingNext]_browsingVars => WalkOfItsTime'
<1> SUFFICES ASSUME DetailInv, WalkOfItsTime, [BrowsingNext]_browsingVars PROVE WalkOfItsTime'
  OBVIOUS
<1>1. /\ CatalogueOK
      /\ view.kind = "detail" =>
           ShownInTurn /\ \E p \in Properties : Remembered(p) /\ view.property = p
  BY DEF DetailInv, Remembered, RowsRemembered
<1>2. ASSUME view'.kind # "walk" PROVE WalkOfItsTime'
  BY <1>2 DEF WalkOfItsTime
<1>3. ASSUME NEW p, Remembered(p)' PROVE WalkOfItsTime'
  <2>1. view'.kind = "detail"
    BY <1>3 DEF Remembered, RowsRemembered
  <2> QED
    BY <1>2, <2>1
<1>4. ASSUME view' = Blank PROVE WalkOfItsTime'
  <2>1. view'.kind = "blank"
    BY <1>4 DEF Blank
  <2> QED
    BY <1>2, <2>1
<1>5. ASSUME UNCHANGED catalogue, NEW q \in Searches, NEW pages,
             view' = [kind |-> "walk", query |-> q, pages |-> pages],
             \A page \in DOMAIN pages : page \in 1..MaxPage /\ pages[page] \in Answers(q, page)
      PROVE  WalkOfItsTime'
  <2>1. view'.query = q /\ view'.pages = pages
    BY <1>5
  <2>2. \A page : Answers(q, page)' = Answers(q, page)
    BY <1>5, AnswersSame
  <2>3. (\A page \in DOMAIN view.pages :
           page \in 1..MaxPage /\ view.pages[page] \in Answers(view.query, page))'
    BY <1>5, <2>1, <2>2
  <2> QED
    BY <1>5, <2>1, <2>3 DEF WalkOfItsTime
<1>6. ASSUME NEW q \in Searches, NEW page \in 1..MaxPage, Search(q, page) PROVE WalkOfItsTime'
  <2>1. PICK answer \in Answers(q, page) :
          view' = [kind |-> "walk", query |-> q, pages |-> Put(NoPages, page, answer)]
    BY <1>6 DEF Search
  <2>2. \A other \in DOMAIN Put(NoPages, page, answer) :
          other = page /\ Put(NoPages, page, answer)[other] = answer
    BY DEF Put, NoPages
  <2>3. UNCHANGED catalogue
    BY <1>6 DEF Search
  <2> QED
    BY <1>5, <2>1, <2>2, <2>3
<1>7. ASSUME view.kind = "walk"
      PROVE  \E q, pages :
               /\ q \in Searches
               /\ view = [kind |-> "walk", query |-> q, pages |-> pages]
               /\ \A page \in DOMAIN pages :
                    page \in 1..MaxPage /\ pages[page] \in Answers(q, page)
  BY <1>7 DEF WalkOfItsTime
<1>8. ASSUME NEW page \in 1..MaxPage, Turn(page) PROVE WalkOfItsTime'
  <2>1. view.kind = "walk" /\ UNCHANGED catalogue
    BY <1>8 DEF Turn
  <2>2. PICK q, pages :
          /\ q \in Searches
          /\ view = [kind |-> "walk", query |-> q, pages |-> pages]
          /\ \A other \in DOMAIN pages :
               other \in 1..MaxPage /\ pages[other] \in Answers(q, other)
    BY <1>7, <2>1
  <2>3. PICK answer \in Answers(q, page) :
          view' = [kind |-> "walk", query |-> q, pages |-> Put(pages, page, answer)]
    <3>1. view.query = q /\ view.pages = pages
      BY <2>2
    <3>2. PICK answer \in Answers(q, page) :
            view' = [view EXCEPT !.pages = Put(@, page, answer)]
      BY <1>8, <3>1 DEF Turn
    <3> QED
      BY <2>2, <3>2
  <2>4. \A other \in DOMAIN Put(pages, page, answer) :
          \/ other = page /\ Put(pages, page, answer)[other] = answer
          \/ other \in DOMAIN pages /\ Put(pages, page, answer)[other] = pages[other]
    BY DEF Put
  <2>5. \A other \in DOMAIN Put(pages, page, answer) :
          other \in 1..MaxPage /\ Put(pages, page, answer)[other] \in Answers(q, other)
    BY <2>2, <2>4
  <2>6. q \in Searches
    BY <2>2
  <2> QED
    BY <1>5, <2>1, <2>3, <2>5, <2>6
<1>9. ASSUME NEW p \in Properties, OpenProperty(p) PROVE WalkOfItsTime'
  BY <1>1, <1>3, <1>4, <1>9, OpenRemembers
<1>10. CASE ReadUnitTypes \/ ReadPropertyMedia \/ ReadUnitMedia \/ ReadOffers \/ ReadOfferMedia
  <2>1. view.kind = "detail"
    BY <1>10 DEF ReadUnitTypes, ReadPropertyMedia, ReadUnitMedia, ReadOffers, ReadOfferMedia, Read
  <2> QED
    BY <1>1, <1>3, <1>10, <2>1, ReadsInTurn
<1>11. ASSUME Leave PROVE WalkOfItsTime'
  BY <1>4, <1>11 DEF Leave
<1>12. ASSUME NEW p \in Properties, WriteUnderDetail(p) PROVE WalkOfItsTime'
  <2>1. view.kind = "detail" /\ view.property = p
    BY <1>12 DEF WriteUnderDetail
  <2> QED
    BY <1>1, <1>3, <1>12, <2>1, WriteRemembers
<1>13. ASSUME WriteUnseen PROVE WalkOfItsTime'
  BY <1>4, <1>13 DEF WriteUnseen
<1>14. ASSUME UNCHANGED browsingVars PROVE WalkOfItsTime'
  <2>1. view' = view /\ UNCHANGED catalogue
    BY <1>14 DEF browsingVars
  <2> QED
    BY <1>2, <1>5, <1>7, <2>1
<1> QED
  BY <1>6, <1>8, <1>9, <1>10, <1>11, <1>12, <1>13, <1>14 DEF BrowsingNext

\* As long as nobody writes, the pages of a list, whatever its filters and its
\* order, are pieces of one list: no row is on two of them or missing between
\* them, and each tells the same number of rows and of pages.
THEOREM PagesInductive == BrowsingSpec => []BrowsingInv
<1>1. BrowsingInit => DetailInv /\ WalkOfItsTime
  <2>1. BrowsingInit => CatalogueOK /\ view.kind = "blank"
    BY InitType DEF Blank
  <2> QED
    BY <2>1 DEF DetailInv, WalkOfItsTime
<1>2. DetailInv /\ WalkOfItsTime => BrowsingInv
  BY WalkIsPieces DEF DetailInv, BrowsingInv
<1> QED
  BY <1>1, <1>2, DetailNext, WalkNext, PTL DEF BrowsingSpec

=============================================================================
