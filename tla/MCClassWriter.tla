---------------------------- MODULE MCClassWriter ----------------------------
(* A run of four units, one of them without classes.                       *)
EXTENDS ClassWriter

MCSize == <<2, 1, 0, 1>>
=============================================================================
