------------------------------ MODULE ClassTree ------------------------------
(***************************************************************************)
(* What a compile promises about its output directory: while it runs, class *)
(* files appear in any order; it reports success only over a complete tree, *)
(* and a compile the backend rejects leaves none of its files behind, except *)
(* those that could not be removed.                                         *)
(***************************************************************************)
CONSTANT Class       \* the class files the run generates

VARIABLES
  tree,      \* what each class's file holds
  stuck,     \* the files whose removal failed
  outcome    \* "running", "ok", "error" (an I/O error) or "withdrawn"

Earlier == {"none", "old"}           \* no file, or an earlier build's
OfRun   == {"cut", "new", "wide"}    \* a truncated, a first and a final version

Init == tree \in [Class -> Earlier] /\ stuck = {} /\ outcome = "running"

Write == /\ outcome = "running" /\ UNCHANGED <<stuck, outcome>>
         /\ \E S \in SUBSET Class :
              \E f \in [S -> OfRun] : tree' = [c \in Class |-> IF c \in S THEN f[c] ELSE tree[c]]

Succeed == /\ outcome = "running" /\ outcome' = "ok" /\ UNCHANGED stuck
           /\ tree' \in [Class -> {"new", "wide"}]

Fail == /\ outcome = "running" /\ outcome' = "error" /\ UNCHANGED stuck
        /\ tree' \in [Class -> Earlier \cup OfRun]

Withdraw == /\ outcome = "running" /\ outcome' = "withdrawn"
            /\ stuck' \in SUBSET Class
            /\ tree' \in [Class -> Earlier \cup OfRun]
            /\ \A c \in Class :
                 IF c \in stuck' THEN tree'[c] = tree[c]
                 ELSE tree'[c] \in Earlier /\ tree'[c] \in {"none", tree[c]}

Next == Write \/ Succeed \/ Fail \/ Withdraw
Spec == Init /\ [][Next]_<<tree, stuck, outcome>>
=============================================================================
