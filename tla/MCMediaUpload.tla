---------------------------- MODULE MCMediaUpload ----------------------------
(* A batch of two files for the offer of u2.                                 *)
EXTENDS MediaUpload, TLC

CONSTANTS b1, k1, k2, u1, u2

OneBatch == (b1 :> <<k1, k2>>)
OneOwner == (b1 :> u2)
Symmetry == Permutations(Removers)
=============================================================================
