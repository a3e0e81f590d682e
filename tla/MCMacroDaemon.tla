---------------------------- MODULE MCMacroDaemon ----------------------------
(* Small instances of MacroDaemon for TLC. *)
EXTENDS MacroDaemon, TLC

ConnSymmetry == Permutations(Conns)
=============================================================================
