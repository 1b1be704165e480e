------------------------------ MODULE MCRoster ------------------------------
(***************************************************************************)
(* Roster for TLC: the devices other than the owner are interchangeable.   *)
(***************************************************************************)
EXTENDS Roster, TLC

Symmetry == Permutations(Peer \ {Owner})
=============================================================================
