------------------------------ MODULE MCRelay ------------------------------
(***************************************************************************)
(* Relay for TLC.  Sockets are alike until one is opened, so their         *)
(* permutations are symmetries; the owner is a device like the others but  *)
(* for revocation, so devices are not permuted.                            *)
(***************************************************************************)
EXTENDS Relay, TLC

SocketSymmetry == Permutations(Socket)
=============================================================================
