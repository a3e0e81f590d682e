-------------------------- MODULE MCDaemonEndpoint ---------------------------
(* Two compilers and three daemons that follow one another.                *)
EXTENDS DaemonEndpoint
=============================================================================
