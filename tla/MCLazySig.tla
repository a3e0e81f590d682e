---- MODULE MCLazySig ----
(* LazySig on programs of two definitions. *)
EXTENDS LazySig
====
