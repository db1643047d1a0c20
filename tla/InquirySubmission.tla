-------------------------- MODULE InquirySubmission --------------------------
(***************************************************************************)
(* A student asks a question about an offer.  The sheet of the web client  *)
(* sends it under a submission ID that it keeps for retries, so that the   *)
(* server records it once although responses are lost, requests outlive    *)
(* their client and retries overtake them.  The server executes Submit one *)
(* autocommitted SQL statement at a time, while the offer is paused,       *)
(* resumed or archived.                                                    *)
(*                                                                         *)
(* Source: web/src/features/workflow/inquiry-sheet.tsx,                    *)
(* api/internal/server/inquiry.go, api/internal/repo/inquiry.go.           *)
(***************************************************************************)
EXTENDS Naturals, FiniteSets

CONSTANTS
  Students,
  OfferIds,
  AgentUser,     \* [OfferIds -> user of the offer's agent]
  Messages,      \* questions
  Submissions,   \* submission IDs
  Requests,      \* HTTP requests the server handles at a time
  None

ASSUME NoneAssumption == None \notin Students \cup OfferIds \cup Messages \cup
                                     Submissions \cup Requests

VARIABLES
  offer,       \* [OfferIds -> OfferStates]
  inquiries,   \* rows of inquiries
  sheet,       \* [Students -> Sheet], the component's state
  request,     \* [Requests -> Request]
  used,        \* history: [Students -> SUBSET Submissions], the IDs that the
               \* sheet has sent since it was opened
  seen         \* history: [Requests -> SUBSET Facts], what could be seen of the
               \* offer and the submission ID of a request

vars == <<offer, inquiries, sheet, request, used, seen>>

\* "unavailable": not 'available', or the agent is suspended.
OfferStates == {"available", "unavailable", "archived"}

Inquiry == [student : Students, submission : Submissions,
            offer : OfferIds, message : Messages]

Sheet == [shown : {"closed", "form", "pending", "recorded", "failed"},
          offer : OfferIds \cup {None}, submission : Submissions \cup {None},
          request : Requests \cup {None}, asked : Messages \cup {None},
          handoff : Messages \cup {None}]
Closed == [shown |-> "closed", offer |-> None, submission |-> None,
           request |-> None, asked |-> None, handoff |-> None]

Steps    == {"find", "insert", "refind", "handoff", "classify"}
Recorded == {"created", "replayed"}
Refusals == {"ErrNotFound", "ErrOwnOffer", "ErrOfferUnavailable"}
Errors   == Refusals \cup {"ErrInternal"}

\* "recorded": the question of this submission ID was there when the request
\* began; "shut": the offer was not available at some moment since then.
Facts == {"recorded", "shut"}

\* created, found: the local variables of Submit.
Request == [pc : {"idle"} \cup Steps \cup Recorded \cup Errors,
            student : Students \cup {None}, offer : OfferIds \cup {None},
            submission : Submissions \cup {None}, message : Messages \cup {None},
            created : BOOLEAN, found : Messages \cup {None}]
NoRequest == [pc |-> "idle", student |-> None, offer |-> None,
              submission |-> None, message |-> None, created |-> FALSE,
              found |-> None]

Init ==
  /\ offer \in [OfferIds -> OfferStates]
  /\ inquiries = {}
  /\ sheet = [u \in Students |-> Closed]
  /\ request = [r \in Requests |-> NoRequest]
  /\ used = [u \in Students |-> {}]
  /\ seen = [r \in Requests |-> {}]

-----------------------------------------------------------------------------
\* The sheet.

\* IDs are random: no sheet draws one that was drawn before.
Fresh(s) ==
  /\ \A u \in Students : sheet[u].submission # s /\ s \notin used[u]
  /\ \A r \in Requests : request[r].submission # s
  /\ \A i \in inquiries : i.submission # s

Open(u, o, s) ==
  /\ sheet[u].shown = "closed"
  /\ Fresh(s)
  /\ sheet' = [sheet EXCEPT ![u] = [Closed EXCEPT !.shown = "form", !.offer = o,
                                                  !.submission = s]]
  /\ UNCHANGED <<offer, inquiries, request, used, seen>>

\* handleOpenChange: the request in flight goes on without the sheet.
Close(u) ==
  /\ sheet[u].shown # "closed"
  /\ sheet' = [sheet EXCEPT ![u] = Closed]
  /\ used' = [used EXCEPT ![u] = {}]
  /\ UNCHANGED <<offer, inquiries, request, seen>>

\* The rows under a student's submission ID.
Recordings(u, s) == {i \in inquiries : i.student = u /\ i.submission = s}

\* handleSubmit, first try or retry: any question the student has typed.
Submit(u, r, question) ==
  /\ sheet[u].shown \in {"form", "failed"}
  /\ request[r] = NoRequest
  /\ request' = [request EXCEPT ![r] =
       [NoRequest EXCEPT !.pc = "find", !.student = u, !.offer = sheet[u].offer,
                         !.submission = sheet[u].submission, !.message = question]]
  /\ sheet' = [sheet EXCEPT ![u].shown = "pending", ![u].request = r,
                            ![u].asked = question]
  /\ used' = [used EXCEPT ![u] = @ \cup {sheet[u].submission}]
  /\ seen' = [seen EXCEPT ![r] =
       {f \in Facts : \/ f = "recorded" /\ Recordings(u, sheet[u].submission) # {}
                      \/ f = "shut" /\ offer[sheet[u].offer] # "available"}]
  /\ UNCHANGED <<offer, inquiries>>

\* fetch fails: the request or the response is lost.
ConnectionLost(u) ==
  /\ sheet[u].shown = "pending" /\ sheet[u].request # None
  /\ sheet' = [sheet EXCEPT ![u].shown = "failed", ![u].request = None]
  /\ UNCHANGED <<offer, inquiries, request, used, seen>>

\* The response reaches the sheet that waits for it, or nobody.
Respond(r) ==
  LET u == request[r].student IN
  /\ request[r].pc \in Recorded \cup Errors
  /\ sheet' = [sheet EXCEPT ![u] =
       CASE @.request # r -> @
         [] @.request = r /\ request[r].pc \in Recorded ->
              [@ EXCEPT !.shown = "recorded", !.request = None,
                        !.handoff = request[r].found]
         [] OTHER -> [@ EXCEPT !.shown = "failed", !.request = None]]
  /\ request' = [request EXCEPT ![r] = NoRequest]
  /\ seen' = [seen EXCEPT ![r] = {}]
  /\ UNCHANGED <<offer, inquiries, used>>

-----------------------------------------------------------------------------
\* Submit, on the server.

Same(r) == Recordings(request[r].student, request[r].submission)
Goto(r, pc) == request' = [request EXCEPT ![r].pc = pc]

\* FindInquiryByStudentSubmission
Find(r) ==
  /\ request[r].pc = "find"
  /\ \/ Same(r) = {} /\ Goto(r, "insert")
     \/ \E i \in Same(r) :
          request' = [request EXCEPT ![r].pc = "handoff", ![r].found = i.message]
  /\ UNCHANGED <<offer, inquiries, sheet, used, seen>>

Eligible(r) ==
  /\ offer[request[r].offer] = "available"
  /\ AgentUser[request[r].offer] # request[r].student

\* (fault) inquiries_student_submission_unique is missing.
InsertWithoutIndex(r) ==
  /\ request[r].pc = "insert"
  /\ \/ ~Eligible(r) /\ Goto(r, "classify") /\ UNCHANGED inquiries
     \/ /\ Eligible(r)
        /\ inquiries' = inquiries \cup
             {[student |-> request[r].student, submission |-> request[r].submission,
               offer |-> request[r].offer, message |-> request[r].message]}
        /\ request' = [request EXCEPT ![r].pc = "handoff", ![r].created = TRUE,
                                      ![r].found = request[r].message]
  /\ UNCHANGED <<offer, sheet, used, seen>>

\* (fault) ON CONFLICT DO NOTHING: a retry that is overtaken by another gets no
\* row, as if the offer were not available.
InsertIgnoringConflict(r) ==
  /\ request[r].pc = "insert"
  /\ \/ (~Eligible(r) \/ Same(r) # {}) /\ Goto(r, "classify") /\ UNCHANGED inquiries
     \/ /\ Eligible(r) /\ Same(r) = {}
        /\ inquiries' = inquiries \cup
             {[student |-> request[r].student, submission |-> request[r].submission,
               offer |-> request[r].offer, message |-> request[r].message]}
        /\ request' = [request EXCEPT ![r].pc = "handoff", ![r].created = TRUE,
                                      ![r].found = request[r].message]
  /\ UNCHANGED <<offer, sheet, used, seen>>

\* CreateInquiryForAvailableOffer: one statement checks the offer and inserts.
\* The connection can be lost once the row is there.
Insert(r) ==
  /\ request[r].pc = "insert"
  /\ \/ ~Eligible(r) /\ Goto(r, "classify") /\ UNCHANGED inquiries
     \/ Eligible(r) /\ Same(r) # {} /\ Goto(r, "refind") /\ UNCHANGED inquiries
     \/ /\ Eligible(r) /\ Same(r) = {}
        /\ inquiries' = inquiries \cup
             {[student |-> request[r].student, submission |-> request[r].submission,
               offer |-> request[r].offer, message |-> request[r].message]}
        /\ \E pc \in {"handoff", "ErrInternal"} :
             request' = [request EXCEPT ![r].pc = pc, ![r].created = TRUE,
                                        ![r].found = request[r].message]
  /\ UNCHANGED <<offer, sheet, used, seen>>

\* (fault) After a unique violation the answer shows the new message.
RefindOwnMessage(r) ==
  /\ request[r].pc = "refind"
  /\ request' = [request EXCEPT ![r].pc = "handoff", ![r].found = request[r].message]
  /\ UNCHANGED <<offer, inquiries, sheet, used, seen>>

\* The unique violation: another request has recorded the submission.
Refind(r) ==
  /\ request[r].pc = "refind"
  /\ \E i \in Same(r) :
       request' = [request EXCEPT ![r].pc = "handoff", ![r].found = i.message]
  /\ UNCHANGED <<offer, inquiries, sheet, used, seen>>

\* GetInquiryHandoff
Handoff(r) ==
  /\ request[r].pc = "handoff"
  /\ Goto(r, IF request[r].created THEN "created" ELSE "replayed")
  /\ UNCHANGED <<offer, inquiries, sheet, used, seen>>

\* classifyOffer reads the offer again, which may have changed since.
Classify(r) ==
  LET o == request[r].offer IN
  /\ request[r].pc = "classify"
  /\ Goto(r, CASE offer[o] = "archived" -> "ErrNotFound"
               [] offer[o] # "archived" /\ AgentUser[o] = request[r].student -> "ErrOwnOffer"
               [] OTHER -> "ErrOfferUnavailable")
  /\ UNCHANGED <<offer, inquiries, sheet, used, seen>>

\* queryTimeout, a closed connection (which cancels the context) or a crash.
Fail(r) ==
  /\ request[r].pc \in Steps
  /\ Goto(r, "ErrInternal")
  /\ UNCHANGED <<offer, inquiries, sheet, used, seen>>

\* The agent pauses, resumes or archives the offer, or is suspended or
\* reinstated.
ChangeOffer(o, s) ==
  /\ offer[o] # "archived" /\ s # offer[o]
  /\ offer' = [offer EXCEPT ![o] = s]
  /\ seen' = [r \in Requests |-> seen[r] \cup
       {f \in {"shut"} : /\ request[r].pc \in Steps /\ request[r].offer = o
                        /\ s # "available"}]
  /\ UNCHANGED <<inquiries, sheet, request, used>>

-----------------------------------------------------------------------------
Statement(r) ==
  Find(r) \/ Insert(r) \/ Refind(r) \/ Handoff(r) \/ Classify(r)

Next ==
  \/ \E u \in Students :
       \/ \E o \in OfferIds, s \in Submissions : Open(u, o, s)
       \/ \E r \in Requests, question \in Messages : Submit(u, r, question)
       \/ Close(u) \/ ConnectionLost(u)
  \/ \E r \in Requests : Statement(r) \/ Fail(r) \/ Respond(r)
  \/ \E o \in OfferIds, s \in OfferStates : ChangeOffer(o, s)

Spec == Init /\ [][Next]_vars

-----------------------------------------------------------------------------
TypeOK ==
  /\ offer \in [OfferIds -> OfferStates]
  /\ inquiries \subseteq Inquiry
  /\ sheet \in [Students -> Sheet]
  /\ request \in [Requests -> Request]
  /\ used \in [Students -> SUBSET Submissions]

\* However often a question is sent from an open sheet, and whatever became of
\* the earlier requests, it is recorded at most once.
RecordedOnce ==
  \A u \in Students :
    Cardinality({i \in inquiries : i.student = u /\ i.submission \in used[u]}) <= 1

\* A sheet that says the question is recorded has an inquiry behind it, on its
\* offer, whose text is the one that the WhatsApp link carries.
HandoffMatches ==
  \A u \in Students : sheet[u].shown = "recorded" =>
    [student |-> u, submission |-> sheet[u].submission, offer |-> sheet[u].offer,
     message |-> sheet[u].handoff] \in inquiries

\* The unique index: a student's submission ID has one inquiry.
OneInquiry ==
  \A i, j \in inquiries : i.student = j.student /\ i.submission = j.submission => i = j

\* Who says that a submission ID is about an offer: the inquiries, the requests
\* and the sheets.  They all agree, for a sheet keeps its offer and its ID.
Claim(x, u) == [student |-> u, submission |-> x.submission, offer |-> x.offer]
Claims == {Claim(i, i.student) : i \in inquiries}
          \cup {Claim(request[r], request[r].student) :
                  r \in {r \in Requests : request[r].pc # "idle"}}
          \cup {Claim(sheet[u], u) : u \in {u \in Students : sheet[u].shown # "closed"}}
OneOffer ==
  \A c, d \in Claims : c.student = d.student /\ c.submission = d.submission => c = d

\* A request that has found an inquiry shows the text of the one that is there.
RequestOK(r) ==
  request[r].pc # "idle" =>
    /\ request[r].student \in Students /\ request[r].submission \in Submissions
    /\ request[r].offer \in OfferIds /\ request[r].message \in Messages
    /\ request[r].pc \in {"handoff"} \cup Recorded =>
         [student |-> request[r].student, submission |-> request[r].submission,
          offer |-> request[r].offer, message |-> request[r].found] \in inquiries

\* An open sheet has sent one ID at most, and the request it waits for is its own.
SheetOK(u) ==
  /\ used[u] \subseteq {sheet[u].submission}
  /\ sheet[u].shown = "closed" => used[u] = {} /\ sheet[u].request = None
  /\ sheet[u].shown # "closed" =>
       sheet[u].submission \in Submissions /\ sheet[u].offer \in OfferIds
  /\ sheet[u].request # None =>
       LET r == request[sheet[u].request] IN
       r.pc # "idle" /\ r.student = u /\ r.submission = sheet[u].submission

\* However often and in whatever order its requests arrive, a question is
\* recorded once; with what keeps it so, enough to be preserved by every step.
InquiryInv ==
  /\ TypeOK /\ RecordedOnce /\ HandoffMatches
  /\ OneInquiry /\ OneOffer
  /\ \A r \in Requests : RequestOK(r)
  /\ \A u \in Students : SheetOK(u)

\* A refusal of the server is true, though it reads the offer twice while others
\* change it, and a retry is not refused for having been overtaken: "unavailable"
\* means that the offer was not available at some moment of the request, whoever
\* recorded the question meanwhile; and what was recorded before the request
\* began is never refused, whatever became of the offer.
RefusalTrue(r) ==
  LET o == request[r].offer IN
  /\ request[r].pc \in Refusals => "recorded" \notin seen[r]
  /\ request[r].pc = "ErrOfferUnavailable" =>
       "shut" \in seen[r] /\ AgentUser[o] # request[r].student
  /\ request[r].pc = "ErrOwnOffer" => AgentUser[o] = request[r].student
  /\ request[r].pc = "ErrNotFound" => offer[o] = "archived"

\* What a request has learnt on the way there.  A question that was there when it
\* began is there still, so that it is found; an offer that is not available leaves
\* a trace.
SeenOK(r) ==
  /\ "recorded" \in seen[r] => Same(r) # {}
  /\ request[r].pc \in {"insert", "refind", "classify"} => "recorded" \notin seen[r]
  /\ request[r].pc \in Steps /\ offer[request[r].offer] # "available" =>
       "shut" \in seen[r]
  /\ request[r].pc = "classify" =>
       "shut" \in seen[r] \/ AgentUser[request[r].offer] = request[r].student

\* Refusals are true, in whatever order retries arrive and offers change; with what
\* keeps them so.
RefusalsInv ==
  /\ seen \in [Requests -> SUBSET Facts]
  /\ \A r \in Requests : SeenOK(r) /\ RefusalTrue(r)
=============================================================================
