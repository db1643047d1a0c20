----------------------- MODULE AgentApplicationsInv -----------------------
(***************************************************************************)
(* The inductive invariant of AgentApplications: what each transaction has *)
(* established by the statements it has executed, and that it is still so. *)
(***************************************************************************)
EXTENDS AgentApplications

Path(op) ==
  CASE op = "create" -> {"lockApplicant", "checkLinked", "insertApplication", "commit"}
    [] op = "decline" -> {"loadApplication", "checkScope", "updateApplication",
                          "referenceReviewer", "writeAudit", "commit"}
    [] OTHER -> {"loadApplication", "checkScope", "lockApplicant", "checkLinked",
                 "insertAgent", "associateCampus", "updateApplication",
                 "referenceReviewer", "writeAudit", "commit"}

ScopeKnown ==   \* steps after CheckScope
  {"lockApplicant", "checkLinked", "insertAgent", "associateCampus",
   "updateApplication", "referenceReviewer", "writeAudit", "commit"}
LinkKnown ==    \* steps after CheckLinked
  {"insertApplication", "insertAgent", "associateCampus", "updateApplication",
   "referenceReviewer", "writeAudit", "commit"}
AgentWritten == \* steps after InsertAgent
  {"associateCampus", "updateApplication", "referenceReviewer", "writeAudit", "commit"}
RowWritten == {"referenceReviewer", "writeAudit", "commit"}

\* A transaction t, one of the values of tx.
Open(t)     == t.pc \in Waiting \cup Running
Deciding(t) == t.op \in {"activate", "decline"} /\ Open(t)
Linking(t)  == t.op \in {"activate", "create"} /\ Open(t)

RequestOK(t) ==
  \/ t = Idle
  \/ /\ t.op \in Ops /\ t.app \in Apps /\ t.actor \in Users
     /\ t.pc \in Path(t.op) \cup Answers

\* The locks h that t holds at least, and none once it has ended.
HeldOK(t, h) ==
  /\ ~Open(t) => h = {}
  /\ Deciding(t) /\ t.pc \in ScopeKnown \cup {"checkScope"} =>
       ForUpdate(ApplicationKey(t.app)) \in h
  /\ Linking(t) /\ t.pc \in LinkKnown \cup {"checkLinked"} =>
       ForUpdate(UserKey(ApplicantOf[t.app])) \in h

\* What t has written, by the statement it has come to.
WorkOK(t, w) ==
  /\ IF t.op = "activate" /\ t.pc \in AgentWritten
     THEN \E g \in Agents :
            /\ w.agents = {[id |-> g, user |-> ApplicantOf[t.app], phone |-> PhoneOf[t.app]]}
            /\ w.campuses = IF t.pc = "associateCampus" THEN {}
                                                ELSE {<<g, CampusOf[t.app]>>}
            /\ t.pc \in RowWritten => w.application =
                 [status |-> "active", agent |-> g, reviewer |-> t.actor]
     ELSE w.agents = {} /\ w.campuses = {}
  /\ t.op = "create" /\ t.pc = "commit" =>
       w.application = [NoRow EXCEPT !.status = "pending"]
  /\ t.op = "decline" /\ t.pc \in RowWritten => w.application =
       [status |-> "declined", agent |-> None, reviewer |-> t.actor]
  /\ t.pc \notin RowWritten => w.application = NoRow
  /\ t.pc = "commit" /\ t.op = "activate" =>
       w.events = <<[action |-> "activated", actor |-> t.actor]>>
  /\ t.pc = "commit" /\ t.op = "decline" =>
       w.events = <<[action |-> "declined", actor |-> t.actor]>>
  /\ t.pc # "commit" \/ t.op = "create" => w.events = <<>>

\* What the transaction has read in the tables.
SeenOK(p) ==
  LET t == tx[p] IN
  /\ t.op = "create" /\ Open(t) => application[t.app] = NoRow
  /\ t.op = "create" /\ t.pc = "commit" => PendingDuplicates(t.app) = {}
  /\ Deciding(t) /\ t.pc = "checkScope" => application[t.app].status # "none"
  /\ Deciding(t) /\ t.pc \in ScopeKnown => application[t.app].status = "pending"
  /\ Linking(t) /\ t.pc \in LinkKnown => ~HasLinkedAgent(ApplicantOf[t.app])
  /\ \A g \in work[p].agents, h \in agents : g.id # h.id /\ g.phone # h.phone

\* Two transactions hold no conflicting locks, and their writes do not clash.
ApartOK(p, q) ==
  /\ \A l \in held[p], m \in held[q] : ~Conflicting(l, m)
  /\ tx[p].op = "create" /\ tx[q].op = "create" => tx[p].app # tx[q].app
  /\ \A g \in work[p].agents, h \in work[q].agents : g.id # h.id /\ g.phone # h.phone

ScopeOK(p) ==
  /\ tx[p] # Idle =>
       \A c \in Campuses : CanReviewCampus(tx[p].actor, c) => c \in scope[p]
  /\ Deciding(tx[p]) /\ tx[p].pc \in ScopeKnown => CampusOf[tx[p].app] \in scope[p]

RowsOK == \A a \in Apps : application[a].status = "none" => application[a] = NoRow

Own(p) == /\ RequestOK(tx[p]) /\ HeldOK(tx[p], held[p]) /\ WorkOK(tx[p], work[p])
          /\ SeenOK(p) /\ ScopeOK(p) /\ Truthful(p)

\* The strengthening of the safety properties that every step preserves.
IInv ==
  /\ TypeOK
  /\ \A p \in Procs : Own(p)
  /\ \A p \in Procs, q \in Procs : p # q => ApartOK(p, q)
  /\ RowsOK /\ AuditMatches /\ AgentsMatch
=============================================================================
