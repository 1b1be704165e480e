----------------------------- MODULE MCTextEdit -----------------------------
(* An instance of TextEdit for TLC: devices may be exchanged.              *)
EXTENDS TextEdit, TLC

Symmetry == Permutations(Device)
=============================================================================
