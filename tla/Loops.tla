-------------------------------- MODULE Loops --------------------------------
(***************************************************************************)
(* A loop over a sequence, as a function of where it is.                   *)
(***************************************************************************)
EXTENDS Naturals, Sequences

\* What is known after the loop, if start was known before it: step[s][x] is
\* what is known after x when s was known before x.
Fold(step, start, src) ==
  LET f[i \in 0..Len(src)] == IF i = 0 THEN start ELSE step[f[i - 1]][src[i]] IN f[Len(src)]
=============================================================================
