---------------------------- MODULE MCAdminRoles ----------------------------
(* Two users that have signed in, one of them from two devices, and one that *)
(* has not.                                                                  *)
EXTENDS AdminRoles, TLC

CONSTANTS u1, u2, u3, s1, s2

TwoSessions == (s1 :> u2 @@ s2 :> u2)
Symmetry    == Permutations(Procs) \cup Permutations(Sessions)
=============================================================================
