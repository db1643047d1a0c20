------------------------ MODULE MCPropertyCorrections ------------------------
EXTENDS PropertyCorrections, TLC

CONSTANTS name, area, v1, v2

\* One field or the other.
SomePatches == {name :> v2, area :> v2}

Symmetry == Permutations(Users) \cup Permutations(Procs)
=============================================================================
