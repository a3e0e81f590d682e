-------------------------- MODULE InheritanceCycles --------------------------
(***************************************************************************)
(* Cyclic inheritance (typer/src/lin.rs, first_cycle_from and              *)
(* inheritance_cycle; typer/src/check_template.rs,                         *)
(* check_inheritance_cycle).  Every template asks for the cycle it reaches *)
(* and reports it if it is the class that closes it; the closing edge is   *)
(* then cut, so that later templates see another graph.  Classes are       *)
(* numbered in the order the namer meets them.                             *)
(***************************************************************************)
EXTENDS Naturals, Sequences, FiniteSets, SequencesExt

CONSTANTS
  Templates,   \* the classes of a program, a finite set of numbers
  MaxSupers    \* bound: parents of a class

ErrorType == 0

ASSUME InheritanceCyclesConstants ==
  /\ Templates \subseteq Nat \ {ErrorType} /\ IsFiniteSet(Templates)
  /\ MaxSupers \in Nat

VARIABLES
  written,   \* the parents of each class as the program has them
  supers,    \* and as they are now
  checked,   \* the templates that have been checked
  reported   \* the classes an error was reported at

cycleVars == <<written, supers, checked, reported>>

CycleInit ==
  /\ written = [t \in Templates |-> <<>>] /\ supers = written
  /\ checked = {} /\ reported = {}

SupersOf(g, t) == SelectSeq(g[t], LAMBDA p : p # ErrorType)

\* go: the search below class t, depth first and in the order of the parents.
\* It gives the first cycle met, or <<>> and the classes that lead to none.
RECURSIVE Go(_, _, _, _), GoParents(_, _, _, _)
Go(g, t, path, done) ==
  LET below == GoParents(g, SupersOf(g, t), Append(path, t), done) IN
  IF below.cycle # <<>> THEN below ELSE [below EXCEPT !.done = @ \cup {t}]

GoParents(g, ps, path, done) ==
  IF ps = <<>> THEN [cycle |-> <<>>, done |-> done]
  ELSE LET p == Head(ps)
           first == IF Contains(path, p)
                    THEN [cycle |-> SubSeq(path, SelectInSeq(path, LAMBDA x : x = p),
                                           Len(path)), done |-> done]
                    ELSE IF p \in done THEN [cycle |-> <<>>, done |-> done]
                    ELSE Go(g, p, path, done)
       IN  IF first.cycle # <<>> THEN first
           ELSE GoParents(g, Tail(ps), path, first.done)

FirstCycleFrom(g, t) == Go(g, t, <<>>, {}).cycle

\* Mutant: the cycle is named as the class that asked met it.
CycleAsMet(g, t) == FirstCycleFrom(g, t)

\* inheritance_cycle: the search is run again from the least class on the
\* cycle; the cycle's head is the class involved, its last class closes it.
InheritanceCycle(g, t) ==
  LET found == FirstCycleFrom(g, t)
      entry == CHOOSE x \in ToSet(found) : \A y \in ToSet(found) : x <= y
  IN  IF found = <<>> THEN <<>> ELSE FirstCycleFrom(g, entry)

\* A program is read.
ReadProgram(g) ==
  /\ written # g
  /\ written' = g /\ supers' = g
  /\ UNCHANGED <<checked, reported>>

\* Mutant: every class on the way to a cycle is cut, and none reports.
CutSilently(t) ==
  LET cycle == InheritanceCycle(supers, t) IN
  /\ t \notin checked /\ checked' = checked \cup {t}
  /\ IF cycle = <<>> THEN UNCHANGED supers
     ELSE supers' = [supers EXCEPT ![t] = [i \in DOMAIN @ |->
                       IF @[i] = Head(cycle) THEN ErrorType ELSE @[i]]]
  /\ UNCHANGED <<written, reported>>

\* check_inheritance_cycle, for the templates in any order.
CheckTemplate(t) ==
  LET cycle == InheritanceCycle(supers, t) IN
  /\ t \notin checked /\ checked' = checked \cup {t}
  /\ IF cycle # <<>> /\ Last(cycle) = t
     THEN /\ reported' = reported \cup {t}
          /\ supers' = [supers EXCEPT ![t] = [i \in DOMAIN @ |->
                          IF @[i] = Head(cycle) THEN ErrorType ELSE @[i]]]
     ELSE UNCHANGED <<supers, reported>>
  /\ UNCHANGED written

SuperLists ==
  {ps \in UNION {[1..n -> Templates] : n \in 0..MaxSupers} :
     \A i, j \in DOMAIN ps : ps[i] = ps[j] => i = j}

CycleNext ==
  \/ /\ checked = {} /\ \A t \in Templates : written[t] = <<>>
     /\ \E g \in [Templates -> SuperLists] : ReadProgram(g)
  \/ \E t \in Templates : CheckTemplate(t)

CycleSpec == CycleInit /\ [][CycleNext]_cycleVars

-----------------------------------------------------------------------------
(* Properties *)

OnCycle(g, t) ==
  LET Up(s) == s \cup UNION {ToSet(SupersOf(g, d)) : d \in s}
      reach[n \in 0..Cardinality(Templates)] ==
        IF n = 0 THEN ToSet(SupersOf(g, t)) ELSE Up(reach[n - 1])
  IN  t \in reach[Cardinality(Templates)]

\* The classes on a cycle that the search finds agree on which class closes it
\* and which is involved, so that one of them reports and the others do not.
CycleAgreed ==
  \A t \in Templates : supers[t] # <<>> =>
    LET found == FirstCycleFrom(supers, t) IN
    \A d \in ToSet(found) : InheritanceCycle(supers, d) = InheritanceCycle(supers, t)

\* The cycle named is one: each class has the next among its parents.
CycleReal ==
  \A t \in Templates : supers[t] # <<>> =>
    LET cycle == InheritanceCycle(supers, t) IN
    \A i \in DOMAIN cycle :
      Contains(supers[cycle[i]], IF i = Len(cycle) THEN cycle[1] ELSE cycle[i + 1])

\* Whatever has been cut so far, inheritance_cycle names a cycle, and the same
\* one to every class on it.
CycleNamed == CycleAgreed /\ CycleReal

\* However its templates are ordered and whatever was cut on the way, a
\* program with a cycle is rejected, and one without is not.
CyclicRejected ==
  checked = Templates =>
    (reported # {} <=> \E t \in Templates : OnCycle(written, t))
=============================================================================
