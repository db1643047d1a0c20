---------------------------- MODULE AgentStages ----------------------------
(***************************************************************************)
(* What agent onboarding promises, with every request taken in one step    *)
(* and no transactions, locks or tables: an application is submitted by a  *)
(* user who is not an agent yet, and is then approved or rejected once.    *)
(* A user has at most one approved application, which makes the user an    *)
(* agent, and no two agents share a phone number.                          *)
(***************************************************************************)
CONSTANTS
  Apps,         \* the submissions
  ApplicantOf,  \* [Apps -> users]
  CampusOf,     \* [Apps -> campuses]
  PhoneOf       \* [Apps -> phone numbers]

VARIABLE stage  \* [Apps -> Stages]

Stages == {"none", "pending", "active", "declined"}

Approved(a) == stage[a] = "active"
IsAgent(u)  == \E b \in Apps : Approved(b) /\ ApplicantOf[b] = u

Init == stage = [a \in Apps |-> "none"]

Submit(a) ==
  /\ stage[a] = "none"
  /\ ~IsAgent(ApplicantOf[a])
  /\ \A b \in Apps : /\ ApplicantOf[b] = ApplicantOf[a]
                     /\ CampusOf[b] = CampusOf[a]
                     => stage[b] # "pending"
  /\ stage' = [stage EXCEPT ![a] = "pending"]

Approve(a) ==
  /\ stage[a] = "pending"
  /\ ~IsAgent(ApplicantOf[a])
  /\ \A b \in Apps : Approved(b) => PhoneOf[b] # PhoneOf[a]
  /\ stage' = [stage EXCEPT ![a] = "active"]

Reject(a) ==
  /\ stage[a] = "pending"
  /\ stage' = [stage EXCEPT ![a] = "declined"]

Next == \E a \in Apps : Submit(a) \/ Approve(a) \/ Reject(a)

Spec == Init /\ [][Next]_stage
=============================================================================
