---------------------------- MODULE Linearization ----------------------------
(***************************************************************************)
(* Class linearization (typer/src/lin.rs) and the cache of its answers on  *)
(* the symbol table (typer/src/symbol.rs, LinCache).  Parent lists change  *)
(* while namers and pickle completions run, which moves graph_gen; a       *)
(* parent that is still a name is looked up in the scopes, which change    *)
(* without moving it.  A walk over the parents remembers, in the call and  *)
(* beyond it, only what neither a cycle nor such a name has touched.       *)
(*                                                                         *)
(* The recursion of Lin::lin is a stack of visits here, and one step is    *)
(* one parent of the innermost visit.  Nothing else happens during a walk. *)
(*                                                                         *)
(* Classes are numbered.  A parent clause is the class it means and        *)
(* whether it names that class outright (parent_names_its_class); Any,     *)
(* AnyRef, AnyVal and Object, which the walk skips, are not among them.    *)
(***************************************************************************)
EXTENDS Loops, FiniteSets, SequencesExt

CONSTANTS
  Classes,       \* the classes that may get parents, a finite set of numbers
  Loose,         \* the classes that a clause may mean without naming them
  FirstParents,  \* the parent clauses when a class is first asked about
  MaxParents,    \* bound: parents of a class
  MaxMutations   \* bound: how often a class is handed out for mutation

Clauses == [class : Classes, outright : {TRUE}] \cup [class : Loose, outright : {FALSE}]

ASSUME LinearizationConstants ==
  /\ Classes \subseteq Nat \ {0} /\ IsFiniteSet(Classes) /\ Loose \subseteq Classes
  /\ MaxParents \in Nat /\ MaxMutations \in Nat
  /\ FirstParents \in [Classes -> Seq(Clauses)]

VARIABLES
  parents,   \* each class's parent clauses
  scope,     \* the names the scopes can resolve
  graphGen,  \* SymbolTable::graph_gen
  cacheGen,  \* LinCache::gen
  linCache,  \* LinCache::map, <<>> where there is no entry
  walk,      \* the visits of a walk, the innermost first, <<>> when there is none
  memo,      \* Lin::memo
  answer     \* the last answer, while the graph is the one it was asked about

linVars == <<parents, scope, graphGen, cacheGen, linCache, walk, memo, answer>>
tableVars == <<parents, scope, graphGen>>

NoMemo == [c \in Classes |-> <<>>]
Unasked == [class |-> 0, lin |-> <<>>]
Answer(c, lin) == [class |-> c, lin |-> lin]

LinInit ==
  /\ parents = FirstParents /\ scope = {}
  /\ graphGen = 0 /\ cacheGen = 0 /\ linCache = NoMemo
  /\ walk = <<>> /\ memo = NoMemo /\ answer = Unasked

\* parents_of: a clause that does not resolve is dropped.
Resolve1(names) ==
  [out \in Seq(Classes) |-> [p \in Clauses |->
     IF p.outright \/ p.class \in names THEN Append(out, p.class) ELSE out]]
ParentsOf(c) == Fold(Resolve1(scope), <<>>, parents[c])

\* The elements of a that are not in S, in their order.
Keep1(S) == [out \in Seq(Classes) |-> [x \in Classes |-> IF x \in S THEN out ELSE Append(out, x)]]
Without(a, S) == Fold(Keep1(S), <<>>, a)

\* Mutant: the left operand wins.
PrependKeeping(a, b) == a \o Without(b, ToSet(a))

\* prepend_replacing: the elements of the right operand replace those of the
\* left (+: of SLS 5.1.2).
PrependReplacing(a, b) == Without(a, ToSet(b)) \o b

\* A class before those above it, of which it may be one.
Headed(c, above) == <<c>> \o Without(above, {c})

\* Mutant: the generation is not compared.
CachedAlways(c) == linCache[c]

\* cached_linearization
CachedLinearization(c) == IF cacheGen = graphGen THEN linCache[c] ELSE <<>>

\* What the walk has in its memo, or finds published.
KnownLin(c) == IF memo[c] # <<>> THEN memo[c] ELSE CachedLinearization(c)

\* No clause of the class is resolved through the scopes.
NamesItsParents(c) == \A i \in DOMAIN parents[c] : parents[c][i].outright

\* A visit is a call of Lin::lin: its class, the parents that it has not asked
\* about yet, what the others were folded to, and whether the two counters,
\* truncations and unresolved, have stood still since it began.
Visit(c) ==
  [class |-> c, rest |-> ParentsOf(c), acc |-> <<>>, settled |-> NamesItsParents(c)]

\* The visit has asked about its next parent and was answered.
Took(v, lin, settled) ==
  [class |-> v.class, rest |-> Tail(v.rest), acc |-> PrependReplacing(lin, v.acc),
   settled |-> v.settled /\ settled]

Innermost == Head(walk)
OnPath(c) == \E i \in DOMAIN walk : walk[i].class = c

\* What a visit that has asked about all its parents answers, and what the memo
\* is then: it gets the answer unless a cycle or a loose name has touched it.
Answered(v) == Headed(v.class, v.acc)
Remembered(v) == IF v.settled THEN [memo EXCEPT ![v.class] = Answered(v)] ELSE memo

\* publish_linearizations
Publish(entries) ==
  LET kept == IF cacheGen = graphGen THEN linCache ELSE NoMemo IN
  IF entries = NoMemo THEN UNCHANGED <<cacheGen, linCache>>
  ELSE /\ cacheGen' = graphGen
       /\ linCache' = [c \in Classes |-> IF kept[c] # <<>> THEN kept[c] ELSE entries[c]]

\* linearize_settled: a published answer is given as it is,
AnswerCached(c) ==
  /\ walk = <<>> /\ CachedLinearization(c) # <<>>
  /\ answer' = Answer(c, CachedLinearization(c))
  /\ UNCHANGED <<tableVars, cacheGen, linCache, walk, memo>>

\* any other class is walked from.
BeginWalk(c) ==
  /\ walk = <<>> /\ CachedLinearization(c) = <<>>
  /\ walk' = <<Visit(c)>> /\ answer' = Unasked
  /\ UNCHANGED <<tableVars, cacheGen, linCache, memo>>

\* The walk asks about parent p of its innermost visit.
AsksAbout(p) ==
  /\ walk # <<>> /\ Innermost.rest # <<>> /\ p = Head(Innermost.rest)
  /\ UNCHANGED <<tableVars, cacheGen, linCache, answer>>

TakeKnown(p) ==
  /\ AsksAbout(p) /\ KnownLin(p) # <<>>
  /\ walk' = <<Took(Innermost, KnownLin(p), TRUE)>> \o Tail(walk)
  /\ memo' = [memo EXCEPT ![p] = KnownLin(p)]

\* A class that is being linearized further up is taken to have no parents;
\* whatever is built on that depends on where the walk came from.
TakeOnPath(p) ==
  /\ AsksAbout(p) /\ KnownLin(p) = <<>> /\ OnPath(p)
  /\ walk' = <<Took(Innermost, <<p>>, FALSE)>> \o Tail(walk)
  /\ UNCHANGED memo

Descend(p) ==
  /\ AsksAbout(p) /\ KnownLin(p) = <<>> /\ ~OnPath(p)
  /\ walk' = <<Visit(p)>> \o walk
  /\ UNCHANGED memo

\* The innermost visit has asked about all its parents: it answers the visit
\* that asked about it,
Return ==
  /\ Len(walk) > 1 /\ Innermost.rest = <<>>
  /\ walk' = <<Took(walk[2], Answered(Innermost), Innermost.settled)>> \o Tail(Tail(walk))
  /\ memo' = Remembered(Innermost)
  /\ UNCHANGED <<tableVars, cacheGen, linCache, answer>>

\* or the caller, when it was the first; the memo is then published.
EndWalk ==
  /\ Len(walk) = 1 /\ Innermost.rest = <<>>
  /\ answer' = Answer(Innermost.class, Answered(Innermost))
  /\ Publish(Remembered(Innermost))
  /\ walk' = <<>> /\ memo' = NoMemo
  /\ UNCHANGED tableVars

ParentLists ==
  {ps \in UNION {[1..n -> Clauses] : n \in 0..MaxParents} :
     \A i, j \in DOMAIN ps : ps[i].class = ps[j].class => i = j}

\* get_mut hands out a class, whose parent list is rewritten.
SetParents(c, ps) ==
  /\ walk = <<>> /\ graphGen < MaxMutations /\ ps # parents[c]
  /\ parents' = [parents EXCEPT ![c] = ps]
  /\ graphGen' = graphGen + 1 /\ answer' = Unasked
  /\ UNCHANGED <<scope, cacheGen, linCache, walk, memo>>

\* A scope is entered or left; no symbol changes.
ChangeScope(s) ==
  /\ walk = <<>> /\ s # scope /\ scope' = s /\ answer' = Unasked
  /\ UNCHANGED <<parents, graphGen, cacheGen, linCache, walk, memo>>

LinNext ==
  \/ \E c \in Classes : AnswerCached(c) \/ BeginWalk(c)
  \/ \E p \in Classes : TakeKnown(p) \/ TakeOnPath(p) \/ Descend(p)
  \/ Return \/ EndWalk
  \/ \E c \in Classes, ps \in ParentLists : SetParents(c, ps)
  \/ \E s \in SUBSET Loose : ChangeScope(s)

LinSpec == LinInit /\ [][LinNext]_linVars

-----------------------------------------------------------------------------
(* Properties *)

\* The parents of today.
Graph == [c \in Classes |-> ParentsOf(c)]

\* The classes above a class, itself included: they are in every set that has
\* the class and, of each class in it, the parents.
UpClosed(g, S) == \A c \in S : ToSet(g[c]) \subseteq S
Above(g, c) == {d \in Classes : \A S \in SUBSET Classes : c \in S /\ UpClosed(g, S) => d \in S}
Strictly(g, c) == UNION {Above(g, p) : p \in ToSet(g[c])}

\* No class above c is above itself.
Acyclic(g, c) == \A d \in Above(g, c) : d \notin Strictly(g, d)

\* SLS 5.1.2, L(C) = C, L(Cn) +: ... +: L(C1), where a +: b has what is in b
\* after what is in a alone, to a depth that is enough for every graph without
\* cycles.
Merge1(lin) ==
  [acc \in Seq(Classes) |-> [p \in Classes |-> Without(lin[p], ToSet(acc)) \o acc]]
Deeper(g) ==
  [lin \in [Classes -> Seq(Classes)] |-> [n \in Nat |->
     [c \in Classes |-> Headed(c, Fold(Merge1(lin), <<>>, g[c]))]]]
Linearizations(g) ==
  Fold(Deeper(g), [c \in Classes |-> <<c>>], [n \in 1..Cardinality(Classes) |-> n])

\* Every answer, computed or remembered, is about the graph of today: the class
\* and all that is above it, each once.  This holds of cyclic graphs too.
\* Without a cycle it is the linearization that SLS 5.1.2 defines: the order
\* super calls run in, which separately compiled classes agree on.
AnswersRight ==
  answer # Unasked =>
    LET c == answer.class  lin == answer.lin IN
    /\ lin[1] = c /\ ToSet(lin) = Above(Graph, c)
    /\ \A i, j \in DOMAIN lin : lin[i] = lin[j] => i = j
    /\ Acyclic(Graph, c) => lin = Linearizations(Graph)[c]

\* What is remembered past the call depends on the symbol graph alone: the
\* entry of a class is there only when nothing above it was cut short by a
\* cycle or resolved through the scopes, and is its linearization now.
RememberedSettled ==
  \A c \in Classes : CachedLinearization(c) # <<>> =>
    /\ Acyclic(Graph, c)
    /\ \A d \in Above(Graph, c) : NamesItsParents(d)
    /\ CachedLinearization(c) = Linearizations(Graph)[c]
=============================================================================
