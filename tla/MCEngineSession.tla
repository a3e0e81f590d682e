--------------------------- MODULE MCEngineSession ---------------------------
(* A compiler process with one or two source files and a few macro calls.  *)
EXTENDS EngineSession
=============================================================================
