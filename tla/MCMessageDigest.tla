-------------------------- MODULE MCMessageDigest ---------------------------
(***************************************************************************)
(* MessageDigest for TLC.                                                  *)
(***************************************************************************)
EXTENDS MessageDigest, TLC

Symmetry ==
    Permutations(Object) \cup Permutations(Context) \cup Permutations(Block)
==============================================================================
