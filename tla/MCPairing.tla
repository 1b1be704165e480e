----------------------------- MODULE MCPairing -----------------------------
(***************************************************************************)
(* Pairing for TLC, with a page and an agent; the codes that rotations     *)
(* install are interchangeable.                                            *)
(***************************************************************************)
EXTENDS Pairing, TLC

Symmetry == Permutations(Code \ {First})
=============================================================================
