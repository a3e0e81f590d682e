-------------------------- MODULE AlgorithmProofs ---------------------------
(***************************************************************************)
(* What three algorithms of the compiler compute, for every input.         *)
(*                                                                         *)
(* Linearization: an answer is the class and all that is above it, and is  *)
(* what SLS 5.1.2 defines when no class is above itself.  By induction on  *)
(* the number of classes above a class only one table satisfies its        *)
(* equations (OnlyOne), so that a remembered entry stays right when the    *)
(* scopes change.  Of each visit of a walk is kept that it has folded the  *)
(* answers about the parents behind it (Folded), and that what it has is   *)
(* closed but for the classes on the path to it (Covered): cutting a cycle *)
(* short loses the order, never a class.                                   *)
(*                                                                         *)
(* ModelSearch: what the search finds are models, no two of them share a   *)
(* valuation, and when it says there is no other, there is none.  Of a     *)
(* frame of the stack two things are kept.  Its assignment can always      *)
(* be extended to a valuation, for it has no literal with its negation and *)
(* the clauses left do not mention its variables; and any such valuation   *)
(* that satisfies the clauses left satisfies all of them (FrameOK).  Of    *)
(* the stack: while the clauses can be satisfied, those left in some frame *)
(* can (Alive).  A pure literal may lose valuations, so that it is not     *)
(* true that every one survives in a frame.                                *)
(*                                                                         *)
(* LiftCaptures: when the loop of close_over_callees ends, every call is   *)
(* served, and no method was given a local that is not in scope there.     *)
(* CallsServed rests on what a round knows so far: as long as nothing has  *)
(* grown in it, the methods it has passed are served.  CapturesInScope     *)
(* rests on how calls and nesting go together: what encloses a callee      *)
(* encloses its caller, or is the caller.                                  *)
(***************************************************************************)
EXTENDS Linearization, ModelSearch, LiftCaptures, LoopTheorems,
        FiniteSetTheorems, SequenceTheorems, TLAPS

Lists == Seq(Classes)
Graphs == [Classes -> Lists]
Distinct(s) == \A i, j \in DOMAIN s : s[i] = s[j] => i = j

-----------------------------------------------------------------------------
(* Lists of classes.                                                       *)

\* The elements of a list, and of one that is one longer.
LEMMA ElementsAppend ==
  ASSUME NEW T, NEW s \in Seq(T), NEW x \in T
  PROVE  /\ ToSet(<<>>) = {} /\ ToSet(s) \in SUBSET T
         /\ ToSet(Append(s, x)) = ToSet(s) \cup {x}
         /\ Distinct(s) /\ x \notin ToSet(s) => Distinct(Append(s, x))
<1> DEFINE t == Append(s, x)
<1>1. /\ t \in Seq(T) /\ Len(t) = Len(s) + 1 /\ t[Len(s) + 1] = x /\ Len(s) \in Nat
      /\ \A i \in 1..Len(s) : t[i] = s[i] /\ s[i] \in T
  OBVIOUS
<1>2. DOMAIN s = 1..Len(s) /\ DOMAIN t = 1..(Len(s) + 1)
  BY <1>1
<1> HIDE DEF t
<1>3. ToSet(t) = ToSet(s) \cup {x}
  BY <1>1, <1>2 DEF ToSet
<1>4. ASSUME Distinct(s), x \notin ToSet(s) PROVE Distinct(t)
  BY <1>1, <1>2, <1>4 DEF Distinct, ToSet
<1>5. ToSet(<<>>) = {} /\ ToSet(s) \in SUBSET T
  BY <1>1, <1>2 DEF ToSet
<1> QED BY <1>3, <1>4, <1>5 DEF t

\* A list without repetitions has none in front.
LEMMA DistinctAppend ==
  ASSUME NEW T, NEW s \in Seq(T), NEW x \in T, Distinct(Append(s, x))
  PROVE  Distinct(s) /\ x \notin ToSet(s)
<1> DEFINE t == Append(s, x)
<1>1. /\ Len(t) = Len(s) + 1 /\ t[Len(s) + 1] = x /\ Len(s) \in Nat
      /\ \A i \in 1..Len(s) : t[i] = s[i]
      /\ DOMAIN s = 1..Len(s) /\ DOMAIN t = 1..(Len(s) + 1)
  OBVIOUS
<1>2. Distinct(t)
  OBVIOUS
<1> HIDE DEF t
<1>3. \A i, j \in 1..(Len(s) + 1) : t[i] = t[j] => i = j
  BY <1>1, <1>2 DEF Distinct
<1>4. Distinct(s)
  BY <1>1, <1>3 DEF Distinct
<1>5. \A i \in 1..Len(s) : s[i] # x
  BY <1>1, <1>3
<1> QED BY <1>1, <1>4, <1>5 DEF ToSet

\* The elements of two lists, one after the other.
LEMMA ElementsConcat ==
  ASSUME NEW T, NEW a \in Seq(T), NEW b \in Seq(T)
  PROVE  /\ a \o b \in Seq(T) /\ ToSet(a \o b) = ToSet(a) \cup ToSet(b)
         /\ Distinct(a) /\ Distinct(b) /\ ToSet(a) \cap ToSet(b) = {} => Distinct(a \o b)
<1> DEFINE t == a \o b  m == Len(a)  n == Len(b)
<1>1. /\ t \in Seq(T) /\ Len(t) = m + n /\ m \in Nat /\ n \in Nat
      /\ \A i \in 1..m : t[i] = a[i]
      /\ \A i \in (m + 1)..(m + n) : t[i] = b[i - m]
  OBVIOUS
<1>2. DOMAIN a = 1..m /\ DOMAIN b = 1..n /\ DOMAIN t = 1..(m + n)
  BY <1>1
<1> HIDE DEF t, m, n
<1>3. ToSet(t) = ToSet(a) \cup ToSet(b)
  <2>1. \A y \in ToSet(t) : y \in ToSet(a) \cup ToSet(b)
    <3> SUFFICES ASSUME NEW i \in 1..(m + n) PROVE t[i] \in ToSet(a) \cup ToSet(b)
      BY <1>2 DEF ToSet
    <3>1. CASE i \in 1..m
      BY <1>1, <1>2, <3>1 DEF ToSet
    <3>2. CASE i \in (m + 1)..(m + n)
      <4>1. i - m \in 1..n
        BY <1>1, <3>2
      <4> QED BY <1>1, <1>2, <3>2, <4>1 DEF ToSet
    <3> QED BY <1>1, <3>1, <3>2
  <2>2. \A i \in 1..m : a[i] \in ToSet(t)
    <3> SUFFICES ASSUME NEW i \in 1..m PROVE a[i] \in ToSet(t)
      OBVIOUS
    <3>1. i \in 1..(m + n) /\ t[i] = a[i]
      BY <1>1
    <3> QED BY <1>2, <3>1 DEF ToSet
  <2>3. \A i \in 1..n : b[i] \in ToSet(t)
    <3> SUFFICES ASSUME NEW i \in 1..n PROVE b[i] \in ToSet(t)
      OBVIOUS
    <3>1. i + m \in 1..(m + n) /\ i + m \in (m + 1)..(m + n) /\ (i + m) - m = i
      BY <1>1
    <3>2. t[i + m] = b[i]
      BY <1>1, <3>1
    <3> QED BY <1>2, <3>1, <3>2 DEF ToSet
  <2> QED BY <1>2, <2>1, <2>2, <2>3 DEF ToSet
<1>4. ASSUME Distinct(a), Distinct(b), ToSet(a) \cap ToSet(b) = {} PROVE Distinct(t)
  <2> SUFFICES ASSUME NEW i \in 1..(m + n), NEW j \in 1..(m + n), t[i] = t[j] PROVE i = j
    BY <1>2 DEF Distinct
  <2>1. CASE i \in 1..m /\ j \in 1..m
    BY <1>1, <1>2, <1>4, <2>1 DEF Distinct
  <2>2. CASE i \in (m + 1)..(m + n) /\ j \in (m + 1)..(m + n)
    <3>1. i - m \in 1..n /\ j - m \in 1..n /\ b[i - m] = b[j - m]
      BY <1>1, <2>2
    <3>2. i - m = j - m
      BY <1>2, <1>4, <3>1 DEF Distinct
    <3> QED BY <1>1, <3>2
  <2>3. ASSUME NEW k \in 1..m, NEW l \in (m + 1)..(m + n), t[k] = t[l] PROVE FALSE
    <3>1. l - m \in 1..n /\ t[k] = a[k] /\ t[l] = b[l - m]
      BY <1>1
    <3> QED BY <1>2, <1>4, <2>3, <3>1 DEF ToSet
  <2> QED BY <1>1, <2>1, <2>2, <2>3
<1> QED BY <1>1, <1>3, <1>4 DEF t

\* What Without leaves.
LEMMA WithoutIs ==
  ASSUME NEW S
  PROVE  \A a \in Lists : /\ Without(a, S) \in Lists /\ ToSet(Without(a, S)) = ToSet(a) \ S
                          /\ Distinct(a) => Distinct(Without(a, S))
<1> DEFINE P == {a \in Lists : /\ Without(a, S) \in Lists /\ ToSet(Without(a, S)) = ToSet(a) \ S
                               /\ Distinct(a) => Distinct(Without(a, S))}
<1>1. Keep1(S) \in Steps(Lists, Classes) /\ <<>> \in Lists
  BY DEF Keep1, Steps, Lists
<1>2. /\ Without(<<>>, S) = <<>>
      /\ \A a \in Lists : /\ Without(a, S) \in Lists
                          /\ \A x \in Classes : Without(Append(a, x), S) = Keep1(S)[Without(a, S)][x]
  <2> DEFINE step == Keep1(S)
  <2>1. step \in Steps(Seq(Classes), Classes) /\ <<>> \in Seq(Classes)
    BY <1>1 DEF Lists
  <2>2. \A a : Without(a, S) = Fold(step, <<>>, a)
    BY DEF Without
  <2> HIDE DEF step
  <2>3. /\ Fold(step, <<>>, <<>>) = <<>>
        /\ \A a \in Seq(Classes) : Fold(step, <<>>, a) \in Seq(Classes)
        /\ \A a \in Seq(Classes), x \in Classes :
             Fold(step, <<>>, Append(a, x)) = step[Fold(step, <<>>, a)][x]
    BY <2>1, Unfolding
  <2>4. /\ Without(<<>>, S) = <<>>
        /\ \A a \in Lists : /\ Without(a, S) \in Lists
                            /\ \A x \in Classes : Without(Append(a, x), S) = step[Without(a, S)][x]
    BY <2>2, <2>3 DEF Lists
  <2> QED BY <2>4 DEF step
<1>3. <<>> \in P
  BY <1>1, <1>2 DEF Distinct, ToSet
<1>4. ASSUME NEW a \in Lists, NEW x \in Classes, a \in P PROVE Append(a, x) \in P
  <2> DEFINE w == Without(a, S)
  <2>1. w \in Lists /\ ToSet(w) = ToSet(a) \ S /\ (Distinct(a) => Distinct(w))
    BY <1>4
  <2>2. Without(Append(a, x), S) = IF x \in S THEN w ELSE Append(w, x)
    <3>1. Keep1(S)[w][x] = IF x \in S THEN w ELSE Append(w, x)
      BY <2>1 DEF Keep1, Lists
    <3> QED BY <1>2, <3>1
  <2>3. /\ ToSet(Append(a, x)) = ToSet(a) \cup {x}
        /\ ToSet(Append(w, x)) = ToSet(w) \cup {x}
        /\ Distinct(w) /\ x \notin ToSet(w) => Distinct(Append(w, x))
    BY <2>1, ElementsAppend DEF Lists
  <2>4. Append(w, x) \in Lists /\ Append(a, x) \in Lists
    BY <2>1 DEF Lists
  <2>5. Distinct(Append(a, x)) => Distinct(a) /\ x \notin ToSet(a)
    BY DistinctAppend DEF Lists
  <2> HIDE DEF w
  <2>6. Without(Append(a, x), S) \in Lists
    BY <2>1, <2>2, <2>4
  <2>7. ToSet(Without(Append(a, x), S)) = ToSet(Append(a, x)) \ S
    <3>1. CASE x \in S
      BY <2>1, <2>2, <2>3, <3>1
    <3>2. CASE x \notin S
      BY <2>1, <2>2, <2>3, <3>2
    <3> QED BY <3>1, <3>2
  <2>8. Distinct(Append(a, x)) => Distinct(Without(Append(a, x), S))
    BY <2>1, <2>2, <2>3, <2>5
  <2> QED BY <2>4, <2>6, <2>7, <2>8
<1>5. Lists \subseteq P
  <2> HIDE DEF P
  <2> QED BY <1>3, <1>4, SeqInduction DEF Lists
<1> QED BY <1>5

\* What +: and the class at the head make of lists.
LEMMA PrependIs ==
  ASSUME NEW a \in Lists, NEW b \in Lists
  PROVE  /\ PrependReplacing(a, b) \in Lists
         /\ ToSet(PrependReplacing(a, b)) = ToSet(a) \cup ToSet(b)
         /\ Distinct(a) /\ Distinct(b) => Distinct(PrependReplacing(a, b))
<1> DEFINE w == Without(a, ToSet(b))
<1>1. /\ w \in Lists /\ ToSet(w) = ToSet(a) \ ToSet(b)
      /\ Distinct(a) => Distinct(w)
  BY WithoutIs
<1>2. PrependReplacing(a, b) = w \o b
  BY DEF PrependReplacing
<1> HIDE DEF w
<1>3. /\ w \o b \in Lists /\ ToSet(w \o b) = ToSet(w) \cup ToSet(b)
      /\ Distinct(w) /\ Distinct(b) /\ ToSet(w) \cap ToSet(b) = {} => Distinct(w \o b)
  BY <1>1, ElementsConcat DEF Lists
<1> QED BY <1>1, <1>2, <1>3

\* A class with none above it.
LEMMA HeadedAlone == \A c : Headed(c, <<>>) = <<c>>
<1> TAKE c
<1>1. Keep1({c}) \in Steps(Seq(Classes), Classes) /\ <<>> \in Seq(Classes)
  BY DEF Keep1, Steps
<1> DEFINE step == Keep1({c})
<1>2. Without(<<>>, {c}) = Fold(step, <<>>, <<>>)
  BY DEF Without
<1>3. step \in Steps(Seq(Classes), Classes)
  BY <1>1
<1> HIDE DEF step
<1>4. Fold(step, <<>>, <<>>) = <<>>
  BY <1>1, <1>3, Unfolding
<1>5. Headed(c, <<>>) = <<c>> \o <<>>
  BY <1>2, <1>4 DEF Headed
<1> QED BY <1>5

\* A class and those above it, of which it may be one.
LEMMA HeadedIs ==
  ASSUME NEW c \in Classes, NEW a \in Lists
  PROVE  /\ Headed(c, a) \in Lists /\ Headed(c, a) # <<>> /\ Headed(c, a)[1] = c
         /\ ToSet(Headed(c, a)) = ToSet(a) \cup {c}
         /\ Distinct(a) => Distinct(Headed(c, a))
<1> DEFINE w == Without(a, {c})
<1>1. /\ w \in Lists /\ ToSet(w) = ToSet(a) \ {c}
      /\ Distinct(a) => Distinct(w)
  BY WithoutIs
<1>2. Headed(c, a) = <<c>> \o w
  BY DEF Headed
<1> HIDE DEF w
<1>3. <<c>> \in Lists /\ ToSet(<<c>>) = {c} /\ Distinct(<<c>>)
  BY DEF Lists, ToSet, Distinct
<1>4. /\ <<c>> \o w \in Lists /\ ToSet(<<c>> \o w) = ToSet(<<c>>) \cup ToSet(w)
      /\ Distinct(<<c>>) /\ Distinct(w) /\ ToSet(<<c>>) \cap ToSet(w) = {} => Distinct(<<c>> \o w)
  BY <1>1, <1>3, ElementsConcat DEF Lists
<1>5. Len(<<c>> \o w) = 1 + Len(w) /\ (<<c>> \o w)[1] = c /\ Len(w) \in Nat
  BY <1>1 DEF Lists
<1>6. <<c>> \o w # <<>>
  BY <1>5
<1> QED BY <1>1, <1>2, <1>3, <1>4, <1>5, <1>6

-----------------------------------------------------------------------------
(* The parents of a class.                                                 *)

\* The classes that the clauses ps mean where the scopes have these names.
Resolved(names, ps) == Fold(Resolve1(names), <<>>, ps)

\* One clause more.
LEMMA ResolvedMore ==
  ASSUME NEW names
  PROVE  /\ Resolved(names, <<>>) = <<>>
         /\ \A ps \in Seq(Clauses) : Resolved(names, ps) \in Lists
         /\ \A ps \in Seq(Clauses), p \in Clauses :
              Resolved(names, Append(ps, p)) =
                IF p.outright \/ p.class \in names
                THEN Append(Resolved(names, ps), p.class) ELSE Resolved(names, ps)
<1> DEFINE step == Resolve1(names)
<1>0. \A p \in Clauses : p.class \in Classes
  BY LinearizationConstants DEF Clauses
<1>1. step \in Steps(Seq(Classes), Clauses) /\ <<>> \in Seq(Classes)
  BY <1>0 DEF Resolve1, Steps
<1>2. \A ps : Resolved(names, ps) = Fold(step, <<>>, ps)
  BY DEF Resolved
<1>3. \A out \in Seq(Classes), p \in Clauses :
        step[out][p] = IF p.outright \/ p.class \in names THEN Append(out, p.class) ELSE out
  BY DEF Resolve1
<1> HIDE DEF step
<1>4. /\ Fold(step, <<>>, <<>>) = <<>>
      /\ \A ps \in Seq(Clauses) : Fold(step, <<>>, ps) \in Seq(Classes)
      /\ \A ps \in Seq(Clauses), p \in Clauses :
           Fold(step, <<>>, Append(ps, p)) = step[Fold(step, <<>>, ps)][p]
  BY <1>1, Unfolding
<1>5. Resolved(names, <<>>) = <<>> /\ \A ps \in Seq(Clauses) : Resolved(names, ps) \in Lists
  BY <1>2, <1>4 DEF Lists
<1>6. ASSUME NEW ps \in Seq(Clauses), NEW p \in Clauses
      PROVE  Resolved(names, Append(ps, p)) =
               IF p.outright \/ p.class \in names
               THEN Append(Resolved(names, ps), p.class) ELSE Resolved(names, ps)
  <2> DEFINE out == Resolved(names, ps)
  <2>1. out \in Seq(Classes)
    BY <1>5 DEF Lists
  <2>2. Resolved(names, Append(ps, p)) = step[out][p]
    BY <1>2, <1>4, Zenon
  <2> HIDE DEF out
  <2>3. Resolved(names, Append(ps, p)) =
          IF p.outright \/ p.class \in names THEN Append(out, p.class) ELSE out
    BY <1>3, <2>1, <2>2
  <2> QED BY <2>3 DEF out
<1> QED BY <1>5, <1>6

\* Clauses that name their classes outright mean the same in every scope.
LEMMA OutrightSame ==
  ASSUME NEW m, NEW n
  PROVE  \A ps \in Seq(Clauses) :
           (\A i \in DOMAIN ps : ps[i].outright) => Resolved(m, ps) = Resolved(n, ps)
<1> DEFINE Outright(ps) == \A i \in DOMAIN ps : ps[i].outright
           P == {ps \in Seq(Clauses) : Outright(ps) => Resolved(m, ps) = Resolved(n, ps)}
<1>1. <<>> \in P
  BY ResolvedMore
<1>2. ASSUME NEW ps \in Seq(Clauses), NEW p \in Clauses, ps \in P PROVE Append(ps, p) \in P
  <2>1. Append(ps, p) \in Seq(Clauses)
    OBVIOUS
  <2>2. Outright(Append(ps, p)) => Outright(ps) /\ p.outright
    <3> DEFINE t == Append(ps, p)
    <3>1. /\ DOMAIN t = 1..(Len(ps) + 1) /\ DOMAIN ps = 1..Len(ps) /\ Len(ps) \in Nat
          /\ t[Len(ps) + 1] = p /\ \A i \in 1..Len(ps) : t[i] = ps[i]
      OBVIOUS
    <3> HIDE DEF t
    <3>2. Len(ps) + 1 \in DOMAIN t /\ DOMAIN ps \subseteq DOMAIN t
      BY <3>1
    <3>3. Outright(t) => Outright(ps) /\ p.outright
      BY <3>1, <3>2
    <3> QED BY <3>3 DEF t
  <2> HIDE DEF Outright
  <2>3. ASSUME Outright(Append(ps, p)) PROVE Resolved(m, Append(ps, p)) = Resolved(n, Append(ps, p))
    <3>1. Resolved(m, ps) = Resolved(n, ps) /\ p.outright
      BY <1>2, <2>2, <2>3
    <3>2. /\ Resolved(m, Append(ps, p)) = Append(Resolved(m, ps), p.class)
          /\ Resolved(n, Append(ps, p)) = Append(Resolved(n, ps), p.class)
      BY <3>1, ResolvedMore
    <3> QED BY <3>1, <3>2
  <2> QED BY <2>1, <2>3
<1>3. Seq(Clauses) \subseteq P
  <2> HIDE DEF P
  <2> QED BY <1>1, <1>2, SeqInduction
<1> QED BY <1>3

-----------------------------------------------------------------------------
(* The classes above a class.                                              *)

\* They are the least set that has the class and the parents of its classes.
LEMMA AboveIs ==
  ASSUME NEW g \in Graphs, NEW c \in Classes
  PROVE  /\ c \in Above(g, c) /\ Above(g, c) \in SUBSET Classes
         /\ UpClosed(g, Above(g, c))
         /\ ToSet(g[c]) \subseteq Above(g, c)
         /\ \A S \in SUBSET Classes : c \in S /\ UpClosed(g, S) => Above(g, c) \subseteq S
         /\ \A d \in Above(g, c) : Above(g, d) \subseteq Above(g, c)
<1>0. \A d \in Classes : g[d] \in Lists /\ ToSet(g[d]) \in SUBSET Classes
  <2> TAKE d \in Classes
  <2>1. g[d] \in Lists
    BY DEF Graphs
  <2> QED BY <2>1 DEF ToSet, Lists
<1>1. c \in Above(g, c) /\ Above(g, c) \in SUBSET Classes
  BY DEF Above
<1>2. UpClosed(g, Above(g, c))
  <2> SUFFICES ASSUME NEW d \in Above(g, c), NEW p \in ToSet(g[d]) PROVE p \in Above(g, c)
    BY DEF UpClosed
  <2>1. p \in Classes /\ d \in Classes
    BY <1>0, <1>1
  <2>2. \A S \in SUBSET Classes : c \in S /\ UpClosed(g, S) => p \in S
    BY DEF Above, UpClosed
  <2> QED BY <2>1, <2>2 DEF Above
<1>3. \A S \in SUBSET Classes : c \in S /\ UpClosed(g, S) => Above(g, c) \subseteq S
  BY DEF Above
<1>4. ToSet(g[c]) \subseteq Above(g, c)
  BY <1>1, <1>2 DEF UpClosed
<1>5. \A d \in Above(g, c) : Above(g, d) \subseteq Above(g, c)
  BY <1>1, <1>2 DEF Above
<1> QED BY <1>1, <1>2, <1>3, <1>4, <1>5

\* A class is above its subclasses, and what is above it is above them.
LEMMA AboveParents ==
  ASSUME NEW g \in Graphs, NEW c \in Classes
  PROVE  /\ ToSet(g[c]) \in SUBSET Classes /\ Strictly(g, c) \subseteq Above(g, c)
         /\ Above(g, c) = {c} \cup Strictly(g, c)
<1>0. \A d \in Classes : ToSet(g[d]) \in SUBSET Classes
  <2> TAKE d \in Classes
  <2>1. g[d] \in Lists
    BY DEF Graphs
  <2> QED BY <2>1 DEF ToSet, Lists
<1>1. Strictly(g, c) \subseteq Above(g, c)
  BY AboveIs DEF Strictly
<1> DEFINE S == {c} \cup Strictly(g, c)
<1>2. S \in SUBSET Classes /\ c \in S
  BY <1>1, AboveIs
<1>3. UpClosed(g, S)
  <2> SUFFICES ASSUME NEW d \in S, NEW p \in ToSet(g[d]) PROVE p \in S
    BY DEF UpClosed
  <2>1. CASE d = c
    <3>1. p \in Classes /\ p \in Above(g, p)
      BY <1>0, <2>1, AboveIs
    <3> QED BY <2>1, <3>1 DEF Strictly
  <2>2. CASE d \in Strictly(g, c)
    <3>1. PICK q \in ToSet(g[c]) : d \in Above(g, q)
      BY <2>2 DEF Strictly
    <3>2. q \in Classes /\ UpClosed(g, Above(g, q))
      BY <1>0, AboveIs
    <3>3. p \in Above(g, q)
      BY <3>1, <3>2 DEF UpClosed
    <3> QED BY <3>3 DEF Strictly
  <2> QED BY <2>1, <2>2
<1>4. Above(g, c) \subseteq S
  <2> HIDE DEF S
  <2> QED BY <1>2, <1>3, AboveIs
<1>5. c \in Above(g, c)
  BY AboveIs
<1> QED BY <1>0, <1>1, <1>4, <1>5

\* Going up in a graph without a cycle leaves fewer classes above.
LEMMA FewerAbove ==
  ASSUME NEW g \in Graphs, NEW c \in Classes, Acyclic(g, c), NEW p \in ToSet(g[c])
  PROVE  /\ p \in Classes /\ Acyclic(g, p) /\ c \notin Above(g, p)
         /\ Cardinality(Above(g, p)) \in Nat /\ Cardinality(Above(g, c)) \in Nat
         /\ Cardinality(Above(g, p)) < Cardinality(Above(g, c))
<1>1. p \in Classes /\ p \in Above(g, c) /\ c \in Above(g, c)
  BY AboveIs, AboveParents
<1>2. Above(g, p) \subseteq Above(g, c)
  BY <1>1, AboveIs
<1>3. Acyclic(g, p)
  BY <1>2 DEF Acyclic
<1>4. c \notin Above(g, p)
  BY <1>1 DEF Acyclic, Strictly
<1>5. IsFiniteSet(Above(g, c)) /\ IsFiniteSet(Above(g, p))
  <2>1. Above(g, c) \subseteq Classes /\ IsFiniteSet(Classes)
    BY AboveIs, LinearizationConstants
  <2>2. IsFiniteSet(Above(g, c))
    BY <2>1, FS_Subset
  <2> QED BY <1>2, <2>2, FS_Subset
<1>6. /\ Cardinality(Above(g, p)) <= Cardinality(Above(g, c))
      /\ Cardinality(Above(g, p)) # Cardinality(Above(g, c))
  BY <1>1, <1>2, <1>4, <1>5, FS_Subset
<1>7. Cardinality(Above(g, p)) \in Nat /\ Cardinality(Above(g, c)) \in Nat
  BY <1>5, FS_CardinalityType
<1> QED BY <1>1, <1>3, <1>4, <1>6, <1>7

-----------------------------------------------------------------------------
(* SLS 5.1.2.                                                              *)

Lins == [Classes -> Lists]
Merge(ps, lin) == Fold(Merge1(lin), <<>>, ps)

\* One parent more.
LEMMA MergeMore ==
  ASSUME NEW lin \in Lins
  PROVE  /\ Merge(<<>>, lin) = <<>>
         /\ \A ps \in Lists : Merge(ps, lin) \in Lists
         /\ \A ps \in Lists, p \in Classes :
              Merge(Append(ps, p), lin) = PrependReplacing(lin[p], Merge(ps, lin))
<1> DEFINE step == [acc \in Seq(Classes) |-> [p \in Classes |-> PrependReplacing(lin[p], acc)]]
<1>0. \A a \in Lists, b \in Lists : PrependReplacing(a, b) \in Lists
  BY PrependIs
<1>1. step \in Steps(Seq(Classes), Classes) /\ <<>> \in Seq(Classes)
  <2>1. \A p \in Classes : lin[p] \in Lists
    BY DEF Lins
  <2> QED BY <1>0, <2>1 DEF Steps, Lists
<1>2. \A ps : Merge(ps, lin) = Fold(step, <<>>, ps)
  BY DEF Merge, Merge1, PrependReplacing
<1>3. \A acc \in Seq(Classes), p \in Classes : step[acc][p] = PrependReplacing(lin[p], acc)
  OBVIOUS
<1> HIDE DEF step
<1>4. /\ Fold(step, <<>>, <<>>) = <<>>
      /\ \A ps \in Seq(Classes) : Fold(step, <<>>, ps) \in Seq(Classes)
      /\ \A ps \in Seq(Classes), p \in Classes :
           Fold(step, <<>>, Append(ps, p)) = step[Fold(step, <<>>, ps)][p]
  BY <1>1, Unfolding
<1>5. Merge(<<>>, lin) = <<>> /\ \A ps \in Lists : Merge(ps, lin) \in Lists
  BY <1>2, <1>4 DEF Lists
<1>6. ASSUME NEW ps \in Seq(Classes), NEW p \in Classes
      PROVE  Merge(Append(ps, p), lin) = PrependReplacing(lin[p], Merge(ps, lin))
  <2> DEFINE acc == Merge(ps, lin)
  <2>1. acc \in Seq(Classes)
    BY <1>5 DEF Lists
  <2>2. Merge(Append(ps, p), lin) = step[acc][p]
    BY <1>2, <1>4, Zenon
  <2> HIDE DEF acc
  <2>3. Merge(Append(ps, p), lin) = PrependReplacing(lin[p], acc)
    BY <1>3, <2>1, <2>2
  <2> QED BY <2>3 DEF acc
<1> QED BY <1>5, <1>6 DEF Lists

\* It depends on the linearizations of the parents alone.
LEMMA MergeSame ==
  ASSUME NEW f \in Lins, NEW h \in Lins
  PROVE  \A ps \in Lists : (\A p \in ToSet(ps) : f[p] = h[p]) => Merge(ps, f) = Merge(ps, h)
<1> DEFINE P == {ps \in Lists : (\A p \in ToSet(ps) : f[p] = h[p]) => Merge(ps, f) = Merge(ps, h)}
<1>1. <<>> \in P
  BY MergeMore DEF Lists
<1>2. ASSUME NEW ps \in Lists, NEW p \in Classes, ps \in P PROVE Append(ps, p) \in P
  <2>1. Append(ps, p) \in Lists /\ ToSet(Append(ps, p)) = ToSet(ps) \cup {p}
    BY ElementsAppend DEF Lists
  <2>2. /\ Merge(Append(ps, p), f) = PrependReplacing(f[p], Merge(ps, f))
        /\ Merge(Append(ps, p), h) = PrependReplacing(h[p], Merge(ps, h))
    BY MergeMore
  <2>3. ASSUME \A q \in ToSet(Append(ps, p)) : f[q] = h[q]
        PROVE  Merge(Append(ps, p), f) = Merge(Append(ps, p), h)
    <3>1. f[p] = h[p] /\ \A q \in ToSet(ps) : f[q] = h[q]
      BY <2>1, <2>3
    <3>2. Merge(ps, f) = Merge(ps, h)
      BY <1>2, <3>1
    <3> QED BY <2>2, <3>1, <3>2
  <2> QED BY <2>1, <2>3
<1>3. Lists \subseteq P
  <2> HIDE DEF P
  <2> QED BY <1>1, <1>2, SeqInduction DEF Lists
<1> QED BY <1>3

\* It has the classes of all of them.
LEMMA MergeElements ==
  ASSUME NEW f \in Lins
  PROVE  \A ps \in Lists : ToSet(Merge(ps, f)) = UNION {ToSet(f[p]) : p \in ToSet(ps)}
<1> DEFINE P == {ps \in Lists : ToSet(Merge(ps, f)) = UNION {ToSet(f[p]) : p \in ToSet(ps)}}
<1>1. <<>> \in P
  <2>1. Merge(<<>>, f) = <<>> /\ ToSet(<<>>) = {}
    BY MergeMore DEF ToSet
  <2> QED BY <2>1 DEF Lists
<1>2. ASSUME NEW ps \in Lists, NEW p \in Classes, ps \in P PROVE Append(ps, p) \in P
  <2>1. Append(ps, p) \in Lists /\ ToSet(Append(ps, p)) = ToSet(ps) \cup {p}
    BY ElementsAppend DEF Lists
  <2>2. Merge(Append(ps, p), f) = PrependReplacing(f[p], Merge(ps, f)) /\ Merge(ps, f) \in Lists
    BY MergeMore
  <2>3. f[p] \in Lists
    BY DEF Lins
  <2>4. ToSet(Merge(Append(ps, p), f)) = ToSet(f[p]) \cup ToSet(Merge(ps, f))
    BY <2>2, <2>3, PrependIs
  <2>5. ToSet(Merge(ps, f)) = UNION {ToSet(f[q]) : q \in ToSet(ps)}
    BY <1>2
  <2>6. ToSet(Merge(Append(ps, p), f)) = UNION {ToSet(f[q]) : q \in ToSet(Append(ps, p))}
    BY <2>1, <2>4, <2>5
  <2> QED BY <2>1, <2>6
<1>3. Lists \subseteq P
  <2> HIDE DEF P
  <2> QED BY <1>1, <1>2, SeqInduction DEF Lists
<1> QED BY <1>3

\* What Linearizations has after n rounds.
Deep(g, n) == Fold(Deeper(g), [c \in Classes |-> <<c>>], [i \in 1..n |-> i])

\* One round more.
LEMMA DeepMore ==
  ASSUME NEW g \in Graphs
  PROVE  /\ \A c \in Classes : Deep(g, 0)[c] = <<c>>
         /\ \A n \in Nat : Deep(g, n) \in Lins
         /\ \A n \in Nat : \A c \in Classes :
              Deep(g, n + 1)[c] = Headed(c, Merge(g[c], Deep(g, n)))
<1> DEFINE step == Deeper(g)
           start == [c \in Classes |-> <<c>>]
           Rounds(n) == [i \in 1..n |-> i]
<1>0. ASSUME NEW lin \in Lins, NEW c \in Classes PROVE Headed(c, Merge(g[c], lin)) \in Lists
  <2>1. g[c] \in Lists
    BY DEF Graphs
  <2>2. Merge(g[c], lin) \in Lists
    BY <2>1, MergeMore
  <2> QED BY <2>2, HeadedIs
<1>1. start \in Lins
  BY DEF Lins, Lists
<1>2. \A lin \in Lins, n \in Nat : step[lin][n] = [c \in Classes |-> Headed(c, Merge(g[c], lin))]
  BY DEF Deeper, Merge, Lins, Lists
<1>3. step \in Steps(Lins, Nat)
  <2> DEFINE Next(lin) == [c \in Classes |-> Headed(c, Merge(g[c], lin))]
  <2>1. \A lin \in Lins : Next(lin) \in Lins
    BY <1>0 DEF Lins
  <2>2. step = [lin \in Lins |-> [n \in Nat |-> Next(lin)]]
    BY DEF Deeper, Merge, Lins, Lists
  <2> HIDE DEF step, Next
  <2> QED BY <2>1, <2>2 DEF Steps
<1>4. \A n \in Nat : /\ Rounds(n) \in Seq(Nat) /\ Rounds(n + 1) = Append(Rounds(n), n + 1)
  <2> TAKE n \in Nat
  <2>1. /\ Rounds(n) \in Seq(Nat) /\ Rounds(n + 1) \in Seq(Nat)
        /\ Len(Rounds(n)) = n /\ Len(Rounds(n + 1)) = n + 1
    OBVIOUS
  <2>2. \A i \in 1..(n + 1) : Rounds(n + 1)[i] = Append(Rounds(n), n + 1)[i]
    OBVIOUS
  <2>3. Append(Rounds(n), n + 1) \in Seq(Nat) /\ Len(Append(Rounds(n), n + 1)) = n + 1
    BY <2>1
  <2> HIDE DEF Rounds
  <2> QED BY <2>1, <2>2, <2>3, SeqEqual
<1>5. Rounds(0) = <<>>
  OBVIOUS
<1>6. \A n : Deep(g, n) = Fold(step, start, Rounds(n))
  BY DEF Deep
<1>7. \A c \in Classes : start[c] = <<c>>
  OBVIOUS
<1> HIDE DEF step, start, Rounds
<1>8. /\ Fold(step, start, <<>>) = start
      /\ \A src \in Seq(Nat) : Fold(step, start, src) \in Lins
      /\ \A src \in Seq(Nat), x \in Nat :
           Fold(step, start, Append(src, x)) = step[Fold(step, start, src)][x]
  BY <1>1, <1>3, Unfolding
<1>9. \A n \in Nat : Deep(g, n) \in Lins
  BY <1>4, <1>6, <1>8
<1>10. ASSUME NEW n \in Nat PROVE Deep(g, n + 1) = step[Deep(g, n)][n + 1]
  <2>0. n + 1 \in Nat
    OBVIOUS
  <2>1. Rounds(n) \in Seq(Nat) /\ Rounds(n + 1) = Append(Rounds(n), n + 1)
    BY <1>4, Zenon
  <2>2. Deep(g, n + 1) = Fold(step, start, Append(Rounds(n), n + 1))
    BY <1>6, <2>1
  <2>3. Deep(g, n) = Fold(step, start, Rounds(n))
    BY <1>6
  <2> QED BY <1>8, <2>0, <2>1, <2>2, <2>3, Zenon
<1>11. ASSUME NEW n \in Nat, NEW c \in Classes
       PROVE  Deep(g, n + 1)[c] = Headed(c, Merge(g[c], Deep(g, n)))
  <2>1. n + 1 \in Nat
    OBVIOUS
  <2>2. Deep(g, n + 1) = [d \in Classes |-> Headed(d, Merge(g[d], Deep(g, n)))]
    BY <1>2, <1>9, <1>10, <2>1
  <2> QED BY <2>2
<1> QED BY <1>5, <1>6, <1>7, <1>8, <1>9, <1>11

\* A class with nothing but itself above has no parents.
LEMMA Alone ==
  ASSUME NEW g \in Graphs, NEW c \in Classes, Acyclic(g, c), Cardinality(Above(g, c)) <= 1
  PROVE  g[c] = <<>>
<1>1. g[c] \in Lists
  BY DEF Graphs
<1>2. ASSUME NEW p \in ToSet(g[c]) PROVE FALSE
  <2>1. /\ p \in Classes /\ Cardinality(Above(g, p)) \in Nat
        /\ Cardinality(Above(g, p)) < Cardinality(Above(g, c))
        /\ Cardinality(Above(g, c)) \in Nat
    BY FewerAbove
  <2>2. Cardinality(Above(g, p)) = 0
    BY <2>1
  <2>3. p \in Above(g, p) /\ Above(g, p) \subseteq Classes /\ IsFiniteSet(Classes)
    BY <2>1, AboveIs, LinearizationConstants
  <2>4. IsFiniteSet(Above(g, p))
    BY <2>3, FS_Subset
  <2> QED BY <2>2, <2>3, <2>4, FS_EmptySet
<1>3. ASSUME g[c] # <<>> PROVE FALSE
  <2>1. Len(g[c]) \in Nat /\ Len(g[c]) # 0 /\ DOMAIN g[c] = 1..Len(g[c])
    BY <1>1, <1>3 DEF Lists
  <2>2. g[c][1] \in ToSet(g[c])
    BY <2>1 DEF ToSet
  <2> QED BY <1>2, <2>2
<1> QED BY <1>3

\* A class with at most n + 1 classes above is done after n rounds.
LEMMA DeepEnough ==
  ASSUME NEW g \in Graphs, NEW n \in Nat
  PROVE  \A c \in Classes : Acyclic(g, c) /\ Cardinality(Above(g, c)) <= n + 1 =>
           Deep(g, n + 1)[c] = Deep(g, n)[c]
<1> DEFINE Done(k) == \A c \in Classes : Acyclic(g, c) /\ Cardinality(Above(g, c)) <= k + 1 =>
                        Deep(g, k + 1)[c] = Deep(g, k)[c]
           P == {k \in 0..n : Done(k)}
<1>1. Done(0)
  <2> SUFFICES ASSUME NEW c \in Classes, Acyclic(g, c), Cardinality(Above(g, c)) <= 1
               PROVE  Deep(g, 0 + 1)[c] = Deep(g, 0)[c]
    OBVIOUS
  <2>1. g[c] = <<>>
    BY Alone
  <2>2. Deep(g, 0)[c] = <<c>> /\ Deep(g, 0) \in Lins
    BY DeepMore
  <2>3. Deep(g, 0 + 1)[c] = Headed(c, Merge(<<>>, Deep(g, 0)))
    BY <2>1, DeepMore
  <2>4. Merge(<<>>, Deep(g, 0)) = <<>>
    BY <2>2, MergeMore
  <2>5. Headed(c, <<>>) = <<c>>
    BY HeadedAlone
  <2> QED BY <2>2, <2>3, <2>4, <2>5
<1>2. ASSUME NEW k \in Nat, Done(k) PROVE Done(k + 1)
  <2> SUFFICES ASSUME NEW c \in Classes, Acyclic(g, c), Cardinality(Above(g, c)) <= (k + 1) + 1
               PROVE  Deep(g, (k + 1) + 1)[c] = Deep(g, k + 1)[c]
    OBVIOUS
  <2>1. /\ Deep(g, (k + 1) + 1)[c] = Headed(c, Merge(g[c], Deep(g, k + 1)))
        /\ Deep(g, k + 1)[c] = Headed(c, Merge(g[c], Deep(g, k)))
    BY DeepMore
  <2>2. Deep(g, k + 1) \in Lins /\ Deep(g, k) \in Lins /\ g[c] \in Lists
    BY DeepMore DEF Graphs
  <2>3. \A p \in ToSet(g[c]) : Deep(g, k + 1)[p] = Deep(g, k)[p]
    <3> TAKE p \in ToSet(g[c])
    <3>1. /\ p \in Classes /\ Acyclic(g, p) /\ Cardinality(Above(g, p)) \in Nat
          /\ Cardinality(Above(g, c)) \in Nat /\ Cardinality(Above(g, p)) < Cardinality(Above(g, c))
      BY FewerAbove
    <3>2. Cardinality(Above(g, p)) <= k + 1
      BY <3>1
    <3> QED BY <1>2, <3>1, <3>2
  <2>4. Merge(g[c], Deep(g, k + 1)) = Merge(g[c], Deep(g, k))
    BY <2>2, <2>3, MergeSame
  <2> QED BY <2>1, <2>4
<1>3. 0 \in P /\ \A k \in 0..n : k < n /\ k \in P => k + 1 \in P
  <2> HIDE DEF Done
  <2>1. 0 \in P
    BY <1>1
  <2>2. ASSUME NEW k \in 0..n, k < n, k \in P PROVE k + 1 \in P
    <3>1. k \in Nat /\ Done(k) /\ k + 1 \in 0..n
      BY <2>2
    <3>2. Done(k + 1)
      BY <1>2, <3>1
    <3> QED BY <3>1, <3>2
  <2> QED BY <2>1, <2>2
<1>4. n \in P
  <2> HIDE DEF P
  <2>1. 0..n \subseteq P
    BY <1>3, UpTo
  <2> QED BY <2>1
<1> QED BY <1>4

\* Where there is no cycle, Linearizations is what SLS 5.1.2 says it is.
LEMMA Specified ==
  ASSUME NEW g \in Graphs
  PROVE  /\ Linearizations(g) \in Lins
         /\ \A c \in Classes : Acyclic(g, c) =>
              Linearizations(g)[c] = Headed(c, Merge(g[c], Linearizations(g)))
<1> DEFINE n == Cardinality(Classes)
<1>1. n \in Nat
  BY LinearizationConstants, FS_CardinalityType
<1>2. Linearizations(g) = Deep(g, n)
  BY DEF Linearizations, Deep
<1>3. Deep(g, n) \in Lins
  BY <1>1, DeepMore
<1>4. ASSUME NEW c \in Classes, Acyclic(g, c) PROVE Deep(g, n)[c] = Headed(c, Merge(g[c], Deep(g, n)))
  <2>1. Above(g, c) \subseteq Classes /\ IsFiniteSet(Classes)
    BY AboveIs, LinearizationConstants
  <2>2. Cardinality(Above(g, c)) <= n /\ Cardinality(Above(g, c)) \in Nat
    BY <2>1, FS_Subset, FS_CardinalityType
  <2> HIDE DEF n
  <2>3. Cardinality(Above(g, c)) <= n + 1
    BY <1>1, <2>2
  <2>4. Deep(g, n + 1)[c] = Deep(g, n)[c]
    BY <1>1, <1>4, <2>3, DeepEnough
  <2>5. Deep(g, n + 1)[c] = Headed(c, Merge(g[c], Deep(g, n)))
    BY <1>1, DeepMore
  <2> QED BY <2>4, <2>5
<1> QED BY <1>2, <1>3, <1>4

\* Nothing else is: what satisfies its equation on a set of classes with all
\* that is above them, none above itself, is Linearizations there.
LEMMA OnlyOne ==
  ASSUME NEW g \in Graphs, NEW U \in SUBSET Classes, UpClosed(g, U),
         \A c \in U : Acyclic(g, c), NEW f \in Lins,
         \A c \in U : f[c] = Headed(c, Merge(g[c], f))
  PROVE  \A c \in U : f[c] = Linearizations(g)[c]
<1> DEFINE l == Linearizations(g)
           bad == {c \in U : f[c] # l[c]}
           sizes == {Cardinality(Above(g, c)) : c \in bad}
<1>1. l \in Lins /\ \A c \in Classes : Acyclic(g, c) => l[c] = Headed(c, Merge(g[c], l))
  BY Specified
<1> HIDE DEF l
<1> SUFFICES ASSUME bad # {} PROVE FALSE
  BY DEF l
<1>2. \A c \in Classes : Cardinality(Above(g, c)) \in Nat
  <2> TAKE c \in Classes
  <2>1. Above(g, c) \subseteq Classes /\ IsFiniteSet(Classes)
    BY AboveIs, LinearizationConstants
  <2> QED BY <2>1, FS_Subset, FS_CardinalityType
<1>3. PICK k \in sizes : \A j \in sizes : k <= j
  <2>1. sizes \in SUBSET Nat /\ sizes # {}
    BY <1>2
  <2> HIDE DEF sizes
  <2> QED BY <2>1, LeastExists
<1>4. PICK c \in bad : k = Cardinality(Above(g, c))
  OBVIOUS
<1>5. c \in Classes /\ Acyclic(g, c) /\ g[c] \in Lists
  BY DEF Graphs
<1>6. \A p \in ToSet(g[c]) : f[p] = l[p]
  <2> TAKE p \in ToSet(g[c])
  <2>1. p \in Classes /\ p \in U /\ Cardinality(Above(g, p)) < Cardinality(Above(g, c))
    BY <1>5, FewerAbove DEF UpClosed
  <2>2. Cardinality(Above(g, p)) \in Nat /\ Cardinality(Above(g, c)) \in Nat
    BY <1>2, <1>5, <2>1
  <2>3. p \notin bad
    <3> SUFFICES ASSUME p \in bad PROVE FALSE
      OBVIOUS
    <3>1. Cardinality(Above(g, p)) \in sizes
      OBVIOUS
    <3>2. k <= Cardinality(Above(g, p))
      BY <1>3, <3>1
    <3> QED BY <1>4, <2>1, <2>2, <3>2
  <2> QED BY <2>1, <2>3
<1>7. Merge(g[c], f) = Merge(g[c], l)
  BY <1>1, <1>5, <1>6, MergeSame
<1>8. f[c] = l[c]
  BY <1>1, <1>5, <1>7
<1> QED BY <1>8

-----------------------------------------------------------------------------
(* The visits of a walk over the graph g.  Of its classes, named are those *)
(* whose clauses name their parents outright; k is what is known so far.   *)

Visits == [class : Classes, rest : Lists, acc : Lists, settled : BOOLEAN]

\* What is known is right and settled, and so is all above it.
EntriesOK(g, named, k) ==
  \A c \in Classes : k[c] # <<>> =>
    /\ c \in named /\ Acyclic(g, c) /\ \A p \in ToSet(g[c]) : k[p] # <<>>
    /\ k[c] = Linearizations(g)[c] /\ ToSet(k[c]) = Above(g, c) /\ Distinct(k[c])

\* The visit has asked about the parents in done and folded their answers; a
\* class in there has its parents there as well, unless it is on the path to
\* the visit, whose classes are still being walked from.
Folded(g, named, k, path, v, done) ==
  /\ g[v.class] = done \o v.rest /\ ToSet(done) \subseteq ToSet(v.acc)
  /\ v.settled => v.class \in named /\ \A p \in ToSet(done) : k[p] # <<>>
  /\ v.settled \/ Acyclic(g, v.class) => v.acc = Merge(done, Linearizations(g))

Covered(g, path, s) == \A x \in s : x \in path \/ ToSet(g[x]) \subseteq s \cup path

VisitOK(g, named, k, path, v) ==
  /\ v.class \in path /\ \E done \in Lists : Folded(g, named, k, path, v, done)
  /\ ToSet(v.acc) \subseteq Above(g, v.class) /\ Distinct(v.acc)
  /\ Covered(g, path, ToSet(v.acc))

\* An answer about p that a visit may be given.
AnswerOK(g, k, path, p, lin, settled, acyclic) ==
  /\ lin \in Lists /\ p \in ToSet(lin) /\ ToSet(lin) \subseteq Above(g, p) /\ Distinct(lin)
  /\ Covered(g, path, ToSet(lin))
  /\ settled => k[p] # <<>>
  /\ settled \/ acyclic => lin = Linearizations(g)[p]

\* All that is above a known class is known.
LEMMA KnownAbove ==
  ASSUME NEW g \in Graphs, NEW named, NEW k \in Lins, EntriesOK(g, named, k),
         NEW c \in Classes, k[c] # <<>>
  PROVE  \A d \in Above(g, c) : k[d] # <<>>
<1> DEFINE K == {d \in Classes : k[d] # <<>>}
<1>1. K \in SUBSET Classes /\ c \in K
  OBVIOUS
<1>2. UpClosed(g, K)
  <2> SUFFICES ASSUME NEW d \in K, NEW p \in ToSet(g[d]) PROVE p \in K
    BY DEF UpClosed
  <2>1. p \in Classes
    BY AboveParents
  <2> QED BY <2>1 DEF EntriesOK
<1>3. Above(g, c) \subseteq K
  <2> HIDE DEF K
  <2> QED BY <1>1, <1>2, AboveIs
<1> QED BY <1>3

\* A visit that has taken an answer is one.
LEMMA TookType ==
  ASSUME NEW v \in Visits, v.rest # <<>>, NEW lin \in Lists, NEW settled \in BOOLEAN
  PROVE  Took(v, lin, settled) \in Visits
<1>1. /\ v.class \in Classes /\ v.rest \in Lists /\ v.acc \in Lists /\ v.settled \in BOOLEAN
  BY DEF Visits
<1>2. Tail(v.rest) \in Lists
  BY <1>1 DEF Lists
<1>3. PrependReplacing(lin, v.acc) \in Lists
  BY <1>1, PrependIs
<1>4. (v.settled /\ settled) \in BOOLEAN
  BY <1>1
<1> QED BY <1>1, <1>2, <1>3, <1>4 DEF Visits, Took

\* The visit takes an answer.
LEMMA TookOK ==
  ASSUME NEW g \in Graphs, NEW named, NEW k \in Lins, NEW path, NEW v \in Visits,
         VisitOK(g, named, k, path, v), v.rest # <<>>, NEW p, p = Head(v.rest),
         NEW lin, NEW settled \in BOOLEAN,
         AnswerOK(g, k, path, p, lin, settled, Acyclic(g, v.class))
  PROVE  /\ Took(v, lin, settled) \in Visits /\ Took(v, lin, settled).class = v.class
         /\ VisitOK(g, named, k, path, Took(v, lin, settled))
<1> DEFINE w == Took(v, lin, settled)
<1>1. /\ v.class \in Classes /\ v.rest \in Lists /\ v.acc \in Lists /\ v.settled \in BOOLEAN
      /\ lin \in Lists
  BY DEF Visits, AnswerOK
<1>2. Tail(v.rest) \in Lists /\ p \in Classes
  BY <1>1 DEF Lists
<1>3. /\ PrependReplacing(lin, v.acc) \in Lists
      /\ ToSet(PrependReplacing(lin, v.acc)) = ToSet(lin) \cup ToSet(v.acc)
      /\ Distinct(lin) /\ Distinct(v.acc) => Distinct(PrependReplacing(lin, v.acc))
  BY <1>1, PrependIs
<1>4. (v.settled /\ settled) \in BOOLEAN
  BY <1>1
<1>5. w \in Visits /\ w.class = v.class
  BY <1>1, <1>2, <1>3, <1>4 DEF Visits, Took
<1>6. /\ w.rest = Tail(v.rest) /\ w.acc = PrependReplacing(lin, v.acc)
      /\ w.settled <=> v.settled /\ settled
  BY Zenon DEF Took
<1> HIDE DEF w
<1>7. ToSet(w.acc) = ToSet(lin) \cup ToSet(v.acc) /\ Distinct(w.acc)
  BY <1>3, <1>6 DEF AnswerOK, VisitOK
<1>8. PICK done \in Lists : Folded(g, named, k, path, v, done)
  BY DEF VisitOK
<1>9. g[v.class] = Append(done, p) \o Tail(v.rest) /\ Append(done, p) \in Lists
  <2>1. v.rest = <<p>> \o Tail(v.rest)
    BY <1>1, <1>2 DEF Lists
  <2>2. done \o v.rest = Append(done, p) \o Tail(v.rest)
    <3> DEFINE t == Tail(v.rest)
    <3>1. done \in Seq(Classes) /\ <<p>> \in Seq(Classes) /\ t \in Seq(Classes) /\ p \in Classes
      BY <1>2 DEF Lists
    <3> HIDE DEF t
    <3>2. (done \o <<p>>) \o t = done \o (<<p>> \o t)
      BY <3>1, ConcatAssociative
    <3>3. Append(done, p) = done \o <<p>>
      BY <3>1, AppendIsConcat
    <3> QED BY <2>1, <3>2, <3>3 DEF t
  <2>3. Append(done, p) \in Lists
    BY <1>2 DEF Lists
  <2> QED BY <1>8, <2>2, <2>3 DEF Folded
<1>10. ToSet(Append(done, p)) = ToSet(done) \cup {p}
  BY <1>2, ElementsAppend DEF Lists
<1>11. p \in ToSet(g[v.class])
  <2>1. p \in ToSet(v.rest)
    BY <1>1 DEF Lists, ToSet
  <2>2. ToSet(g[v.class]) = ToSet(done) \cup ToSet(v.rest)
    BY <1>1, <1>8, ElementsConcat DEF Folded, Lists
  <2> QED BY <2>1, <2>2
<1>12. Folded(g, named, k, path, w, Append(done, p))
  <2>1. g[w.class] = Append(done, p) \o w.rest /\ ToSet(Append(done, p)) \subseteq ToSet(w.acc)
    BY <1>5, <1>6, <1>7, <1>8, <1>9, <1>10 DEF Folded, AnswerOK
  <2>2. w.settled => w.class \in named /\ \A q \in ToSet(Append(done, p)) : k[q] # <<>>
    BY <1>5, <1>6, <1>8, <1>10 DEF Folded, AnswerOK
  <2>3. ASSUME w.settled \/ Acyclic(g, w.class)
        PROVE  w.acc = Merge(Append(done, p), Linearizations(g))
    <3>1. lin = Linearizations(g)[p] /\ v.acc = Merge(done, Linearizations(g))
      BY <1>5, <1>6, <1>8, <2>3 DEF Folded, AnswerOK
    <3>2. Linearizations(g) \in Lins
      BY Specified
    <3>3. Merge(Append(done, p), Linearizations(g)) =
            PrependReplacing(Linearizations(g)[p], Merge(done, Linearizations(g)))
      BY <1>2, <3>2, MergeMore
    <3> QED BY <1>6, <3>1, <3>3
  <2> QED BY <2>1, <2>2, <2>3 DEF Folded
<1>13. ToSet(w.acc) \subseteq Above(g, w.class)
  <2>1. p \in Above(g, v.class)
    BY <1>1, <1>11, AboveIs
  <2>2. Above(g, p) \subseteq Above(g, v.class)
    BY <1>1, <2>1, AboveIs
  <2> QED BY <1>5, <1>7, <2>2 DEF AnswerOK, VisitOK
<1>14. Covered(g, path, ToSet(w.acc))
  BY <1>7 DEF AnswerOK, VisitOK, Covered
<1>15. VisitOK(g, named, k, path, w)
  BY <1>5, <1>7, <1>9, <1>12, <1>13, <1>14 DEF VisitOK
<1> QED BY <1>5, <1>15 DEF w

\* What it takes for an answer to be remembered.
Settles(g, named, k, c, lin) ==
  /\ c \in named /\ Acyclic(g, c) /\ \A p \in ToSet(g[c]) : k[p] # <<>>
  /\ ToSet(lin) = Above(g, c)

\* The visit has asked about all parents of its class.
LEMMA Finished ==
  ASSUME NEW g \in Graphs, NEW named, NEW k \in Lins, EntriesOK(g, named, k),
         NEW path, NEW v \in Visits, VisitOK(g, named, k, path, v), v.rest = <<>>
  PROVE  /\ Answered(v) \in Lists /\ Answered(v) # <<>> /\ Answered(v)[1] = v.class
         /\ v.class \in ToSet(Answered(v)) /\ ToSet(Answered(v)) \subseteq Above(g, v.class)
         /\ Distinct(Answered(v)) /\ Covered(g, path \ {v.class}, ToSet(Answered(v)))
         /\ Acyclic(g, v.class) => Answered(v) = Linearizations(g)[v.class]
         /\ v.settled /\ k[v.class] = <<>> => Settles(g, named, k, v.class, Answered(v))
<1> DEFINE c == v.class  out == Answered(v)  l == Linearizations(g)
<1>1. c \in Classes /\ v.acc \in Lists
  BY DEF Visits
<1>2. out = Headed(c, v.acc)
  BY DEF Answered
<1>3. /\ out \in Lists /\ out # <<>> /\ out[1] = c /\ ToSet(out) = ToSet(v.acc) \cup {c}
      /\ Distinct(out)
  BY <1>1, <1>2, HeadedIs DEF VisitOK
<1>4. g[c] \in Lists /\ ToSet(g[c]) \in SUBSET Classes /\ c \in Above(g, c)
  BY <1>1, AboveParents, AboveIs DEF Graphs
<1>5. PICK done \in Lists : Folded(g, named, k, path, v, done)
  BY DEF VisitOK
<1>6. g[c] = done
  BY <1>5 DEF Folded, Lists
<1>7. ToSet(g[c]) \subseteq ToSet(out)
  BY <1>3, <1>5, <1>6 DEF Folded
<1> HIDE DEF c, out, l
<1>8. ToSet(out) \subseteq Above(g, c)
  BY <1>3, <1>4 DEF VisitOK, c
<1>9. Covered(g, path \ {c}, ToSet(out))
  <2> SUFFICES ASSUME NEW x \in ToSet(out), x \notin path \ {c}
               PROVE  ToSet(g[x]) \subseteq ToSet(out) \cup (path \ {c})
    BY DEF Covered
  <2>1. CASE x = c
    BY <1>7, <2>1
  <2>2. CASE x # c
    <3>1. x \in ToSet(v.acc) /\ x \notin path
      BY <1>3, <2>2
    <3>2. ToSet(g[x]) \subseteq ToSet(v.acc) \cup path
      BY <3>1 DEF VisitOK, Covered
    <3> QED BY <1>3, <3>2
  <2> QED BY <2>1, <2>2
<1>10. l \in Lins /\ (Acyclic(g, c) => l[c] = Headed(c, Merge(g[c], l)))
  BY <1>1, Specified DEF l
<1>11. Acyclic(g, c) => out = l[c]
  BY <1>2, <1>5, <1>6, <1>10 DEF Folded, c, l
<1>12. ASSUME v.settled, k[c] = <<>>
       PROVE  Settles(g, named, k, c, out)
  <2>1. c \in named /\ \A p \in ToSet(g[c]) : k[p] # <<>>
    BY <1>5, <1>6, <1>12 DEF Folded, c
  <2>2. \A p \in ToSet(g[c]) : \A d \in Above(g, p) : k[d] # <<>> /\ d \in Classes
    <3> TAKE p \in ToSet(g[c])
    <3>1. p \in Classes /\ k[p] # <<>>
      BY <1>4, <2>1
    <3>2. Above(g, p) \subseteq Classes
      BY <3>1, AboveIs
    <3> QED BY <3>1, <3>2, KnownAbove
  <2>3. Above(g, c) = {c} \cup Strictly(g, c)
    BY <1>1, AboveParents
  <2>4. \A d \in Strictly(g, c) : k[d] # <<>> /\ d \in Classes
    BY <2>2 DEF Strictly
  <2>5. Acyclic(g, c)
    <3>1. c \notin Strictly(g, c)
      BY <1>12, <2>4
    <3>2. \A d \in Strictly(g, c) : d \notin Strictly(g, d)
      <4> TAKE d \in Strictly(g, c)
      <4>1. Acyclic(g, d) /\ d \in Above(g, d)
        BY <2>4, AboveIs DEF EntriesOK
      <4> QED BY <4>1 DEF Acyclic
    <3> QED BY <2>3, <3>1, <3>2 DEF Acyclic
  <2>6. \A p \in ToSet(g[c]) : ToSet(l[p]) = Above(g, p)
    BY <1>4, <2>1 DEF EntriesOK, l
  <2>7. v.acc = Merge(g[c], l)
    BY <1>5, <1>6, <1>12 DEF Folded, l
  <2>8. ToSet(v.acc) = Strictly(g, c)
    <3>1. ToSet(v.acc) = UNION {ToSet(l[p]) : p \in ToSet(g[c])}
      BY <1>4, <1>10, <2>7, MergeElements
    <3> QED BY <2>6, <3>1 DEF Strictly
  <2> QED BY <1>3, <2>1, <2>3, <2>5, <2>8 DEF Settles
<1> QED BY <1>3, <1>8, <1>9, <1>11, <1>12 DEF c, out, l

\* Its answer may be given to the visit that asked about it,
LEMMA FinishedAnswers ==
  ASSUME NEW g \in Graphs, NEW named, NEW k \in Lins, EntriesOK(g, named, k),
         NEW path, NEW v \in Visits, VisitOK(g, named, k, path, v), v.rest = <<>>,
         k[v.class] = <<>>, NEW more \in Lins, NEW rest,
         path \ {v.class} \subseteq rest, rest \subseteq path,
         v.settled => more[v.class] # <<>>,
         NEW acyclic \in BOOLEAN, acyclic => Acyclic(g, v.class)
  PROVE  AnswerOK(g, more, rest, v.class, Answered(v), v.settled, acyclic)
<1>1. /\ Answered(v) \in Lists /\ v.class \in ToSet(Answered(v))
      /\ ToSet(Answered(v)) \subseteq Above(g, v.class) /\ Distinct(Answered(v))
      /\ Covered(g, path \ {v.class}, ToSet(Answered(v)))
      /\ Acyclic(g, v.class) => Answered(v) = Linearizations(g)[v.class]
      /\ v.settled => Settles(g, named, k, v.class, Answered(v))
  BY Finished
<1>2. Covered(g, rest, ToSet(Answered(v)))
  BY <1>1 DEF Covered
<1>3. v.settled => Acyclic(g, v.class)
  BY <1>1 DEF Settles
<1> QED BY <1>1, <1>2, <1>3 DEF AnswerOK

\* and what is known then is right.
LEMMA FinishedKnown ==
  ASSUME NEW g \in Graphs, NEW named, NEW k \in Lins, EntriesOK(g, named, k),
         NEW path, NEW v \in Visits, VisitOK(g, named, k, path, v), v.rest = <<>>,
         k[v.class] = <<>>
  PROVE  LET more == [k EXCEPT ![v.class] = Answered(v)] IN
         v.settled => more \in Lins /\ EntriesOK(g, named, more)
<1>1. v.class \in Classes
  BY DEF Visits
<1>2. /\ Answered(v) \in Lists /\ Answered(v) # <<>> /\ Distinct(Answered(v))
      /\ Acyclic(g, v.class) => Answered(v) = Linearizations(g)[v.class]
  BY Finished
<1>3. v.settled => Settles(g, named, k, v.class, Answered(v))
  BY Finished
<1> SUFFICES ASSUME Settles(g, named, k, v.class, Answered(v))
             PROVE  LET more == [k EXCEPT ![v.class] = Answered(v)] IN
                    more \in Lins /\ EntriesOK(g, named, more)
  BY <1>3, Zenon
<1>4. /\ v.class \in named /\ Acyclic(g, v.class) /\ ToSet(Answered(v)) = Above(g, v.class)
      /\ \A p \in ToSet(g[v.class]) : k[p] # <<>>
  BY Zenon DEF Settles
<1>5. Answered(v) = Linearizations(g)[v.class]
  BY <1>2, <1>4
<1> DEFINE c == v.class  more == [k EXCEPT ![c] = Answered(v)]
<1>6. more \in Lins
  BY <1>1, <1>2 DEF Lins
<1>7. \A d \in Classes : more[d] = IF d = c THEN Answered(v) ELSE k[d]
  BY <1>1 DEF Lins
<1>8. \A d \in Classes : k[d] # <<>> => more[d] # <<>>
  BY <1>2, <1>7
<1>9. \A d \in Classes : ToSet(g[d]) \in SUBSET Classes
  BY AboveParents
<1> HIDE DEF more
<1>10. EntriesOK(g, named, more)
  <2> SUFFICES ASSUME NEW d \in Classes, more[d] # <<>>
               PROVE  /\ d \in named /\ Acyclic(g, d) /\ \A p \in ToSet(g[d]) : more[p] # <<>>
                      /\ more[d] = Linearizations(g)[d] /\ ToSet(more[d]) = Above(g, d)
                      /\ Distinct(more[d])
    BY DEF EntriesOK
  <2>1. CASE d = c
    <3>1. more[d] = Answered(v)
      BY <1>7, <2>1
    <3>2. \A p \in ToSet(g[d]) : more[p] # <<>>
      BY <1>4, <1>8, <1>9, <2>1
    <3> QED BY <1>2, <1>4, <1>5, <2>1, <3>1, <3>2
  <2>2. CASE d # c
    <3>1. more[d] = k[d]
      BY <1>7, <2>2
    <3>2. \A p \in ToSet(g[d]) : more[p] # <<>>
      BY <1>8, <1>9, <3>1 DEF EntriesOK
    <3> QED BY <3>1, <3>2 DEF EntriesOK
  <2> QED BY <2>1, <2>2
<1> QED BY <1>6, <1>10 DEF more

-----------------------------------------------------------------------------
(* What is known.                                                          *)

\* Nothing is right.
LEMMA NothingKnown ==
  ASSUME NEW g \in Graphs, NEW named
  PROVE  NoMemo \in Lins /\ EntriesOK(g, named, NoMemo)
<1>1. NoMemo \in Lins
  BY DEF NoMemo, Lins, Lists
<1>2. \A c \in Classes : NoMemo[c] = <<>>
  BY DEF NoMemo
<1> QED BY <1>1, <1>2 DEF EntriesOK

\* What is in the one or the other of two right tables is right.
LEMMA KnownJoined ==
  ASSUME NEW g \in Graphs, NEW named, NEW k \in Lins, EntriesOK(g, named, k),
         NEW m \in Lins, EntriesOK(g, named, m)
  PROVE  LET both == [c \in Classes |-> IF k[c] # <<>> THEN k[c] ELSE m[c]] IN
         both \in Lins /\ EntriesOK(g, named, both)
<1> DEFINE both == [c \in Classes |-> IF k[c] # <<>> THEN k[c] ELSE m[c]]
<1>1. both \in Lins
  BY DEF Lins
<1>2. \A c \in Classes : both[c] = IF k[c] # <<>> THEN k[c] ELSE m[c]
  OBVIOUS
<1> HIDE DEF both
<1>3. \A c \in Classes : ToSet(g[c]) \in SUBSET Classes
  BY AboveParents
<1>4. EntriesOK(g, named, both)
  <2> SUFFICES ASSUME NEW d \in Classes, both[d] # <<>>
               PROVE  /\ d \in named /\ Acyclic(g, d) /\ \A p \in ToSet(g[d]) : both[p] # <<>>
                      /\ both[d] = Linearizations(g)[d] /\ ToSet(both[d]) = Above(g, d)
                      /\ Distinct(both[d])
    BY DEF EntriesOK
  <2>1. CASE k[d] # <<>>
    <3>1. both[d] = k[d]
      BY <1>2, <2>1
    <3>2. \A p \in ToSet(g[d]) : both[p] # <<>>
      BY <1>2, <1>3, <2>1 DEF EntriesOK
    <3> QED BY <2>1, <3>1, <3>2 DEF EntriesOK
  <2>2. CASE k[d] = <<>>
    <3>1. both[d] = m[d] /\ m[d] # <<>>
      BY <1>2, <2>2
    <3>2. \A p \in ToSet(g[d]) : both[p] # <<>>
      BY <1>2, <1>3, <3>1 DEF EntriesOK
    <3> QED BY <3>1, <3>2 DEF EntriesOK
  <2> QED BY <2>1, <2>2
<1> QED BY <1>1, <1>4 DEF both

\* Classes that keep their parents keep what is above them.
LEMMA AboveSame ==
  ASSUME NEW g \in Graphs, NEW h \in Graphs, NEW U \in SUBSET Classes, UpClosed(g, U),
         \A c \in U : h[c] = g[c]
  PROVE  \A c \in U : Above(g, c) \subseteq U /\ Above(h, c) = Above(g, c)
<1> TAKE c \in U
<1>1. c \in Classes /\ UpClosed(h, U)
  BY DEF UpClosed
<1>2. Above(g, c) \subseteq U /\ Above(h, c) \subseteq U
  BY <1>1, AboveIs
<1>3. UpClosed(h, Above(g, c)) /\ UpClosed(g, Above(h, c))
  <2>1. UpClosed(g, Above(g, c)) /\ UpClosed(h, Above(h, c))
    BY <1>1, AboveIs
  <2> QED BY <1>2, <2>1 DEF UpClosed
<1>4. /\ c \in Above(g, c) /\ Above(g, c) \in SUBSET Classes
      /\ c \in Above(h, c) /\ Above(h, c) \in SUBSET Classes
  BY <1>1, AboveIs
<1>5. Above(h, c) \subseteq Above(g, c)
  BY <1>1, <1>3, <1>4, AboveIs
<1>6. Above(g, c) \subseteq Above(h, c)
  BY <1>1, <1>3, <1>4, AboveIs
<1> QED BY <1>2, <1>5, <1>6

\* A table is right of every graph that agrees on the classes that name their
\* parents.
LEMMA KnownStays ==
  ASSUME NEW g \in Graphs, NEW h \in Graphs, NEW named,
         \A c \in Classes : c \in named => h[c] = g[c],
         NEW k \in Lins, EntriesOK(g, named, k)
  PROVE  EntriesOK(h, named, k)
<1> DEFINE U == {c \in Classes : k[c] # <<>>}  l == Linearizations(g)
<1>1. U \in SUBSET Classes /\ \A c \in U : h[c] = g[c]
  BY DEF EntriesOK
<1>2. UpClosed(g, U) /\ UpClosed(h, U)
  <2>1. UpClosed(g, U)
    <3> SUFFICES ASSUME NEW d \in U, NEW p \in ToSet(g[d]) PROVE p \in U
      BY DEF UpClosed
    <3>1. p \in Classes
      BY AboveParents
    <3> QED BY <3>1 DEF EntriesOK
  <2> QED BY <1>1, <2>1 DEF UpClosed
<1>3. \A c \in U : c \in Classes /\ Acyclic(g, c) /\ k[c] = l[c]
  BY DEF EntriesOK
<1> HIDE DEF U
<1>4. \A c \in U : Above(g, c) \subseteq U /\ Above(h, c) = Above(g, c)
  BY <1>1, <1>2, AboveSame
<1>5. \A c \in U : Strictly(h, c) = Strictly(g, c)
  <2> TAKE c \in U
  <2>1. ToSet(g[c]) \subseteq U /\ h[c] = g[c]
    BY <1>1, <1>2 DEF UpClosed
  <2> QED BY <1>4, <2>1 DEF Strictly
<1>6. \A c \in U : Acyclic(h, c)
  BY <1>3, <1>4, <1>5 DEF Acyclic
<1>7. \A c \in U : k[c] = Headed(c, Merge(h[c], k))
  <2> TAKE c \in U
  <2>1. l \in Lins /\ l[c] = Headed(c, Merge(g[c], l))
    BY <1>3, Specified
  <2> HIDE DEF l
  <2>2. g[c] \in Lists /\ \A p \in ToSet(g[c]) : k[p] = l[p]
    BY <1>2, <1>3 DEF UpClosed, Graphs
  <2>3. Merge(g[c], k) = Merge(g[c], l)
    BY <2>1, <2>2, MergeSame
  <2> QED BY <1>1, <1>3, <2>1, <2>3
<1>8. \A c \in U : k[c] = Linearizations(h)[c]
  BY <1>1, <1>2, <1>6, <1>7, OnlyOne
<1> SUFFICES ASSUME NEW c \in Classes, k[c] # <<>>
             PROVE  /\ c \in named /\ Acyclic(h, c) /\ \A p \in ToSet(h[c]) : k[p] # <<>>
                    /\ k[c] = Linearizations(h)[c] /\ ToSet(k[c]) = Above(h, c) /\ Distinct(k[c])
  BY DEF EntriesOK
<1>9. c \in U
  BY DEF U
<1> QED BY <1>1, <1>4, <1>6, <1>8, <1>9 DEF EntriesOK

-----------------------------------------------------------------------------
(* The stack of visits.                                                    *)

\* The classes that the i-th visit and those around it are about.
PathFrom(w, i) == {w[j].class : j \in i..Len(w)}

\* The classes of the visits are not known and differ; each visit but the
\* innermost is asking about the class of the one before it, which is above its
\* own.
StackOK(g, named, k, w) ==
  /\ w \in Seq(Visits)
  /\ \A i \in DOMAIN w :
       /\ k[w[i].class] = <<>> /\ VisitOK(g, named, k, PathFrom(w, i), w[i])
       /\ i > 1 => w[i].rest # <<>> /\ Head(w[i].rest) = w[i - 1].class
  /\ \A i, j \in DOMAIN w : w[i].class = w[j].class => i = j
  /\ \A i, j \in DOMAIN w : i <= j => w[i].class \in Above(g, w[j].class)

\* A visit stays right when more is known.
LEMMA VisitMore ==
  ASSUME NEW g, NEW named, NEW path, NEW v, NEW k, NEW more,
         \A c \in Classes : k[c] # <<>> => more[c] # <<>>, VisitOK(g, named, k, path, v)
  PROVE  VisitOK(g, named, more, path, v)
<1>1. PICK done \in Lists : Folded(g, named, k, path, v, done)
  BY DEF VisitOK
<1>2. \A p \in ToSet(done) : p \in Classes
  BY DEF Lists, ToSet
<1>3. Folded(g, named, more, path, v, done)
  BY <1>1, <1>2 DEF Folded
<1> QED BY <1>3 DEF VisitOK

\* So do the visits of a stack, when what is new is about none of their classes.
LEMMA StackMore ==
  ASSUME NEW g, NEW named, NEW k, NEW w, StackOK(g, named, k, w), NEW more,
         \A c \in Classes : k[c] # <<>> => more[c] # <<>>, \A i \in DOMAIN w : more[w[i].class] = <<>>
  PROVE  StackOK(g, named, more, w)
<1>1. \A i \in DOMAIN w : VisitOK(g, named, more, PathFrom(w, i), w[i])
  BY VisitMore DEF StackOK
<1> QED BY <1>1 DEF StackOK

\* Another innermost visit about the same class.
LEMMA StackTop ==
  ASSUME NEW g, NEW named, NEW k, NEW w, StackOK(g, named, k, w), w # <<>>,
         NEW v \in Visits, v.class = w[1].class, VisitOK(g, named, k, PathFrom(w, 1), v)
  PROVE  StackOK(g, named, k, <<v>> \o Tail(w))
<1> DEFINE t == <<v>> \o Tail(w)  n == Len(w)
<1>1. w \in Seq(Visits) /\ n \in Nat /\ n > 0
  BY DEF StackOK
<1>2. t \in Seq(Visits) /\ Len(t) = n /\ t[1] = v /\ \A i \in 2..n : t[i] = w[i]
  BY <1>1
<1>3. DOMAIN w = 1..n /\ DOMAIN t = 1..n
  BY <1>1, <1>2
<1> HIDE DEF t
<1>4. \A i \in 1..n : t[i].class = w[i].class
  BY <1>1, <1>2
<1>5. \A i \in 1..n : PathFrom(t, i) = PathFrom(w, i)
  <2> TAKE i \in 1..n
  <2>1. \A j \in i..n : j \in 1..n
    OBVIOUS
  <2> QED BY <1>2, <1>4, <2>1 DEF PathFrom
<1>6. ASSUME NEW i \in 1..n
      PROVE  /\ k[t[i].class] = <<>> /\ VisitOK(g, named, k, PathFrom(t, i), t[i])
             /\ i > 1 => t[i].rest # <<>> /\ Head(t[i].rest) = t[i - 1].class
  <2>1. k[t[i].class] = <<>>
    BY <1>3, <1>4 DEF StackOK
  <2>2. CASE i = 1
    BY <1>2, <1>5, <2>1, <2>2
  <2>3. CASE i \in 2..n
    <3>1. i - 1 \in 1..n /\ t[i] = w[i]
      BY <1>2, <2>3
    <3>2. VisitOK(g, named, k, PathFrom(w, i), w[i])
      BY <1>3 DEF StackOK
    <3>3. w[i].rest # <<>> /\ Head(w[i].rest) = w[i - 1].class
      BY <1>3, <2>3 DEF StackOK
    <3> QED BY <1>4, <1>5, <2>1, <3>1, <3>2, <3>3
  <2> QED BY <2>2, <2>3
<1>7. \A i, j \in 1..n : t[i].class = t[j].class => i = j
  BY <1>3, <1>4 DEF StackOK
<1>8. \A i, j \in 1..n : i <= j => t[i].class \in Above(g, t[j].class)
  BY <1>3, <1>4 DEF StackOK
<1>9. StackOK(g, named, k, t)
  BY <1>2, <1>3, <1>6, <1>7, <1>8 DEF StackOK
<1> QED BY <1>9 DEF t

\* The innermost visit is over.
LEMMA StackPop ==
  ASSUME NEW g \in Graphs, NEW named, NEW k, NEW w, StackOK(g, named, k, w), Len(w) > 1
  PROVE  /\ StackOK(g, named, k, Tail(w)) /\ Tail(w) # <<>> /\ Tail(w)[1] = w[2]
         /\ PathFrom(Tail(w), 1) = PathFrom(w, 2)
         /\ PathFrom(w, 1) = PathFrom(w, 2) \cup {w[1].class} /\ w[1].class \notin PathFrom(w, 2)
         /\ \A i \in DOMAIN Tail(w) : Tail(w)[i].class # w[1].class
         /\ w[2].rest # <<>> /\ Head(w[2].rest) = w[1].class
         /\ w[1].class \in ToSet(g[w[2].class])
<1> DEFINE t == Tail(w)  n == Len(w)
<1>1. w \in Seq(Visits) /\ n \in Nat /\ n > 1
  BY DEF StackOK
<1>2. t \in Seq(Visits) /\ Len(t) = n - 1 /\ \A i \in 1..(n - 1) : t[i] = w[i + 1]
  BY <1>1
<1>3. DOMAIN w = 1..n /\ DOMAIN t = 1..(n - 1) /\ 1 \in 1..n /\ 2 \in 1..n
  BY <1>1, <1>2
<1> HIDE DEF t
<1>4. \A i \in 1..(n - 1) : PathFrom(t, i) = PathFrom(w, i + 1)
  <2> TAKE i \in 1..(n - 1)
  <2>1. \A j \in i..(n - 1) : t[j].class = w[j + 1].class /\ j + 1 \in (i + 1)..n
    BY <1>1, <1>2
  <2>2. \A j \in (i + 1)..n : j - 1 \in i..(n - 1) /\ t[j - 1].class = w[j].class
    BY <1>1, <1>2
  <2>3. /\ PathFrom(t, i) = {t[j].class : j \in i..(n - 1)}
        /\ PathFrom(w, i + 1) = {w[j].class : j \in (i + 1)..n}
    BY <1>2 DEF PathFrom
  <2>4. PathFrom(t, i) \subseteq PathFrom(w, i + 1)
    BY <2>1, <2>3
  <2>5. PathFrom(w, i + 1) \subseteq PathFrom(t, i)
    BY <2>2, <2>3
  <2> QED BY <2>4, <2>5
<1>5. \A i, j \in 1..n : w[i].class = w[j].class => i = j
  BY <1>3 DEF StackOK
<1>6. ASSUME NEW i \in 1..(n - 1)
      PROVE  /\ k[t[i].class] = <<>> /\ VisitOK(g, named, k, PathFrom(t, i), t[i])
             /\ i > 1 => t[i].rest # <<>> /\ Head(t[i].rest) = t[i - 1].class
  <2>1. i + 1 \in 1..n /\ i + 1 > 1 /\ (i + 1) - 1 = i /\ t[i] = w[i + 1]
    BY <1>1, <1>2
  <2>2. /\ k[w[i + 1].class] = <<>> /\ VisitOK(g, named, k, PathFrom(w, i + 1), w[i + 1])
        /\ w[i + 1].rest # <<>> /\ Head(w[i + 1].rest) = w[i].class
    BY <1>3, <2>1 DEF StackOK
  <2>3. i > 1 => i - 1 \in 1..(n - 1) /\ t[i - 1] = w[i]
    BY <1>1, <1>2
  <2> QED BY <1>4, <2>1, <2>2, <2>3
<1>7. \A i, j \in 1..(n - 1) : t[i].class = t[j].class => i = j
  <2> TAKE i, j \in 1..(n - 1)
  <2>1. i + 1 \in 1..n /\ j + 1 \in 1..n /\ t[i] = w[i + 1] /\ t[j] = w[j + 1]
    BY <1>1, <1>2
  <2>2. w[i + 1].class = w[j + 1].class => i + 1 = j + 1
    BY <1>5, <2>1
  <2> QED BY <2>1, <2>2
<1>8. \A i, j \in 1..(n - 1) : i <= j => t[i].class \in Above(g, t[j].class)
  <2> TAKE i, j \in 1..(n - 1)
  <2>1. i + 1 \in 1..n /\ j + 1 \in 1..n /\ t[i] = w[i + 1] /\ t[j] = w[j + 1]
    BY <1>1, <1>2
  <2>2. i + 1 <= j + 1 => w[i + 1].class \in Above(g, w[j + 1].class)
    BY <1>3, <2>1 DEF StackOK
  <2> QED BY <2>1, <2>2
<1>9. StackOK(g, named, k, t)
  BY <1>2, <1>3, <1>6, <1>7, <1>8 DEF StackOK
<1>10. t # <<>> /\ t[1] = w[2] /\ PathFrom(t, 1) = PathFrom(w, 2)
  BY <1>1, <1>2, <1>4
<1>11. PathFrom(w, 1) = PathFrom(w, 2) \cup {w[1].class} /\ w[1].class \notin PathFrom(w, 2)
  <2>1. 1..n = {1} \cup 2..n
    BY <1>1
  <2>2. \A j \in 2..n : j \in 1..n /\ j # 1
    BY <1>1
  <2> QED BY <1>3, <1>5, <2>1, <2>2 DEF PathFrom
<1>12. \A i \in DOMAIN t : t[i].class # w[1].class
  <2> TAKE i \in DOMAIN t
  <2>1. i + 1 \in 1..n /\ i + 1 # 1 /\ t[i] = w[i + 1]
    BY <1>1, <1>2, <1>3
  <2> QED BY <1>3, <1>5, <2>1
<1>13. w[2].rest # <<>> /\ Head(w[2].rest) = w[1].class /\ w[2] \in Visits
  BY <1>1, <1>3 DEF StackOK
<1>14. w[1].class \in ToSet(g[w[2].class])
  <2>1. PICK done \in Lists : Folded(g, named, k, PathFrom(w, 2), w[2], done)
    BY <1>3 DEF StackOK, VisitOK
  <2>2. w[2].rest \in Seq(Classes) /\ done \in Seq(Classes)
    BY <1>13 DEF Visits, Lists
  <2>3. w[1].class \in ToSet(w[2].rest)
    BY <1>13, <2>2 DEF ToSet
  <2>4. ToSet(g[w[2].class]) = ToSet(done) \cup ToSet(w[2].rest)
    BY <2>1, <2>2, ElementsConcat DEF Folded
  <2> QED BY <2>3, <2>4
<1> QED BY <1>9, <1>10, <1>11, <1>12, <1>13, <1>14 DEF t

\* A visit of another class begins.
LEMMA StackPush ==
  ASSUME NEW g \in Graphs, NEW named, NEW k, NEW w, StackOK(g, named, k, w),
         NEW v \in Visits,
         w # <<>> => /\ w[1].rest # <<>> /\ Head(w[1].rest) = v.class
                     /\ v.class \in ToSet(g[w[1].class]),
         k[v.class] = <<>>, \A i \in DOMAIN w : w[i].class # v.class,
         VisitOK(g, named, k, PathFrom(w, 1) \cup {v.class}, v)
  PROVE  StackOK(g, named, k, <<v>> \o w)
<1> DEFINE t == <<v>> \o w  n == Len(w)
<1>1. w \in Seq(Visits) /\ n \in Nat /\ DOMAIN w = 1..n
  BY DEF StackOK
<1>2. /\ t \in Seq(Visits) /\ Len(t) = n + 1 /\ t[1] = v /\ DOMAIN t = 1..(n + 1)
      /\ \A i \in 2..(n + 1) : t[i] = w[i - 1]
  BY <1>1
<1> HIDE DEF t
<1>3. \A i \in 2..(n + 1) : i - 1 \in 1..n /\ t[i] = w[i - 1]
  BY <1>1, <1>2
<1>4. \A i \in 2..(n + 1) : PathFrom(t, i) = PathFrom(w, i - 1)
  <2> TAKE i \in 2..(n + 1)
  <2>1. \A j \in i..(n + 1) : t[j].class = w[j - 1].class /\ j - 1 \in (i - 1)..n
    BY <1>1, <1>2
  <2>2. \A j \in (i - 1)..n : j + 1 \in i..(n + 1) /\ t[j + 1].class = w[j].class
    BY <1>1, <1>2
  <2>3. /\ PathFrom(t, i) = {t[j].class : j \in i..(n + 1)}
        /\ PathFrom(w, i - 1) = {w[j].class : j \in (i - 1)..n}
    BY <1>2 DEF PathFrom
  <2>4. PathFrom(t, i) \subseteq PathFrom(w, i - 1)
    BY <2>1, <2>3
  <2>5. PathFrom(w, i - 1) \subseteq PathFrom(t, i)
    BY <2>2, <2>3
  <2> QED BY <2>4, <2>5
<1>5. PathFrom(t, 1) = PathFrom(w, 1) \cup {v.class}
  <2>1. 1..(n + 1) = {1} \cup 2..(n + 1)
    BY <1>1
  <2>2. \A j \in 1..n : j + 1 \in 2..(n + 1) /\ t[j + 1].class = w[j].class
    BY <1>1, <1>2
  <2>3. \A j \in 2..(n + 1) : t[j].class = w[j - 1].class /\ j - 1 \in 1..n
    BY <1>3
  <2>4. /\ PathFrom(t, 1) = {t[j].class : j \in 1..(n + 1)}
        /\ PathFrom(w, 1) = {w[j].class : j \in 1..n}
    BY <1>2 DEF PathFrom
  <2>5. PathFrom(t, 1) \subseteq PathFrom(w, 1) \cup {v.class}
    BY <1>2, <2>1, <2>3, <2>4
  <2>6. PathFrom(w, 1) \subseteq PathFrom(t, 1)
    BY <2>1, <2>2, <2>4
  <2>7. v.class \in PathFrom(t, 1)
    BY <1>2, <2>1, <2>4
  <2> QED BY <2>5, <2>6, <2>7
<1>6. ASSUME NEW i \in 1..(n + 1)
      PROVE  /\ k[t[i].class] = <<>> /\ VisitOK(g, named, k, PathFrom(t, i), t[i])
             /\ i > 1 => t[i].rest # <<>> /\ Head(t[i].rest) = t[i - 1].class
  <2>1. CASE i = 1
    <3>1. t[i] = v /\ PathFrom(t, i) = PathFrom(w, 1) \cup {v.class} /\ ~ (i > 1)
      BY <1>2, <1>5, <2>1
    <3>2. VisitOK(g, named, k, PathFrom(t, i), t[i]) /\ k[t[i].class] = <<>>
      BY <3>1
    <3> QED BY <3>1, <3>2
  <2>2. CASE i = 2
    <3>1. 1 \in 1..n /\ w # <<>> /\ t[2] = w[1] /\ 2 - 1 = 1
      BY <1>1, <1>2, <2>2
    <3>2. k[w[1].class] = <<>> /\ VisitOK(g, named, k, PathFrom(w, 1), w[1])
      BY <1>1, <3>1 DEF StackOK
    <3>3. PathFrom(t, 2) = PathFrom(w, 1)
      BY <1>1, <1>4, <2>2, <3>1
    <3> QED BY <1>2, <2>2, <3>1, <3>2, <3>3
  <2>3. CASE i \in 3..(n + 1)
    <3> DEFINE m == i - 1
    <3>1. m \in 1..n /\ m > 1 /\ t[i] = w[m] /\ PathFrom(t, i) = PathFrom(w, m) /\ i \in 2..(n + 1)
      BY <1>1, <1>2, <1>4, <2>3
    <3>2. t[m] = w[m - 1]
      <4>1. m \in 2..(n + 1)
        BY <1>1, <3>1
      <4> QED BY <1>2, <4>1
    <3> HIDE DEF m
    <3>3. /\ k[w[m].class] = <<>> /\ VisitOK(g, named, k, PathFrom(w, m), w[m])
          /\ w[m].rest # <<>> /\ Head(w[m].rest) = w[m - 1].class
      BY <1>1, <3>1 DEF StackOK
    <3> QED BY <3>1, <3>2, <3>3 DEF m
  <2> QED BY <1>1, <2>1, <2>2, <2>3
<1>7. \A i, j \in 1..(n + 1) : t[i].class = t[j].class => i = j
  <2> TAKE i, j \in 1..(n + 1)
  <2>1. \A m \in 2..(n + 1) : t[m].class # v.class
    BY <1>1, <1>3
  <2>2. CASE i \in 2..(n + 1) /\ j \in 2..(n + 1)
    <3>1. i - 1 \in 1..n /\ j - 1 \in 1..n /\ t[i] = w[i - 1] /\ t[j] = w[j - 1]
      BY <1>3, <2>2
    <3>2. w[i - 1].class = w[j - 1].class => i - 1 = j - 1
      BY <1>1, <3>1 DEF StackOK
    <3> QED BY <3>1, <3>2
  <2> QED BY <1>1, <1>2, <2>1, <2>2
<1>8. \A i, j \in 1..(n + 1) : i <= j => t[i].class \in Above(g, t[j].class)
  <2>1. v.class \in Classes /\ v.class \in Above(g, v.class)
    BY AboveIs DEF Visits
  <2>2. ASSUME NEW j \in 2..(n + 1) PROVE v.class \in Above(g, t[j].class)
    <3>1. j - 1 \in 1..n /\ 1 \in 1..n /\ 1 <= j - 1 /\ t[j] = w[j - 1] /\ w # <<>>
      BY <1>1, <1>3
    <3>2. w[1].class \in Above(g, w[j - 1].class)
      BY <1>1, <3>1 DEF StackOK
    <3>3. w[1].class \in Classes /\ w[j - 1].class \in Classes
      <4>1. \A m \in 1..n : w[m] \in Visits
        BY <1>1
      <4>2. w[1] \in Visits /\ w[j - 1] \in Visits
        BY <3>1, <4>1
      <4> QED BY <4>2 DEF Visits
    <3>4. v.class \in Above(g, w[1].class)
      BY <3>1, <3>3, AboveIs
    <3> QED BY <3>1, <3>2, <3>3, <3>4, AboveIs
  <2> SUFFICES ASSUME NEW i \in 1..(n + 1), NEW j \in 1..(n + 1), i <= j
               PROVE  t[i].class \in Above(g, t[j].class)
    OBVIOUS
  <2>3. CASE i = 1
    BY <1>1, <1>2, <2>1, <2>2, <2>3
  <2>4. CASE i \in 2..(n + 1)
    <3>1. /\ i - 1 \in 1..n /\ j - 1 \in 1..n /\ i - 1 <= j - 1
          /\ t[i] = w[i - 1] /\ t[j] = w[j - 1]
      BY <1>1, <1>3, <2>4
    <3>2. w[i - 1].class \in Above(g, w[j - 1].class)
      BY <1>1, <3>1 DEF StackOK
    <3> QED BY <3>1, <3>2
  <2> QED BY <1>1, <2>3, <2>4
<1>9. StackOK(g, named, k, t)
  BY <1>2, <1>6, <1>7, <1>8 DEF StackOK
<1> QED BY <1>9 DEF t

-----------------------------------------------------------------------------
(* The states.                                                             *)

Named == {c \in Classes : NamesItsParents(c)}
Published == [c \in Classes |-> CachedLinearization(c)]
Known == [c \in Classes |-> KnownLin(c)]

LinTypes ==
  /\ parents \in [Classes -> Seq(Clauses)] /\ scope \in SUBSET Loose
  /\ graphGen \in Nat /\ cacheGen \in Nat /\ cacheGen <= graphGen
  /\ linCache \in Lins /\ memo \in Lins /\ (walk = <<>> => memo = NoMemo)

RightAnswer(g, a) ==
  a # Unasked =>
    /\ a.lin[1] = a.class /\ ToSet(a.lin) = Above(g, a.class) /\ Distinct(a.lin)
    /\ Acyclic(g, a.class) => a.lin = Linearizations(g)[a.class]

\* What is published is right, and so are what the walk knows, the visits it has
\* under way and the last answer.
LinIInv ==
  /\ LinTypes
  /\ EntriesOK(Graph, Named, Published) /\ EntriesOK(Graph, Named, Known)
  /\ StackOK(Graph, Named, Known, walk) /\ RightAnswer(Graph, answer)

\* The tables have their types, and what their entries are.
LEMMA Tables ==
  ASSUME LinTypes
  PROVE  /\ Graph \in Graphs /\ Published \in Lins /\ Known \in Lins
         /\ \A c \in Classes : /\ Graph[c] = ParentsOf(c) /\ ParentsOf(c) \in Lists
                               /\ Published[c] = CachedLinearization(c) /\ Known[c] = KnownLin(c)
<1>1. \A c \in Classes : parents[c] \in Seq(Clauses)
  BY DEF LinTypes
<1>2. \A c \in Classes : ParentsOf(c) \in Lists
  BY <1>1, ResolvedMore DEF ParentsOf, Resolved
<1>3. Graph \in Graphs /\ \A c \in Classes : Graph[c] = ParentsOf(c)
  BY <1>2 DEF Graph, Graphs
<1>4. \A c \in Classes : CachedLinearization(c) \in Lists
  BY DEF CachedLinearization, LinTypes, Lins, Lists
<1>5. \A c \in Classes : KnownLin(c) \in Lists
  BY <1>4 DEF KnownLin, LinTypes, Lins
<1>6. Published \in Lins /\ \A c \in Classes : Published[c] = CachedLinearization(c)
  BY <1>4 DEF Published, Lins
<1>7. Known \in Lins /\ \A c \in Classes : Known[c] = KnownLin(c)
  BY <1>5 DEF Known, Lins
<1> QED BY <1>2, <1>3, <1>6, <1>7

\* A walk leaves the graph and what is published as they are.
LEMMA SameGraph ==
  ASSUME UNCHANGED tableVars
  PROVE  /\ Graph' = Graph /\ Named' = Named
         /\ UNCHANGED <<cacheGen, linCache>> => Published' = Published
<1>1. parents' = parents /\ scope' = scope /\ graphGen' = graphGen
  BY DEF tableVars
<1>2. Graph' = Graph
  BY <1>1 DEF Graph, ParentsOf
<1>3. Named' = Named
  BY <1>1 DEF Named, NamesItsParents
<1>4. UNCHANGED <<cacheGen, linCache>> => Published' = Published
  BY <1>1 DEF Published, CachedLinearization
<1> QED BY <1>2, <1>3, <1>4

\* Between walks nothing is known but what is published.
LEMMA KnownAtRest ==
  ASSUME LinTypes, walk = <<>>
  PROVE  Known = Published
<1>1. memo = NoMemo
  BY DEF LinTypes
<1>2. \A c \in Classes : KnownLin(c) = CachedLinearization(c)
  BY <1>1 DEF KnownLin, NoMemo
<1> QED BY <1>2 DEF Known, Published

\* Between walks there are no visits.
LEMMA NoVisits ==
  ASSUME NEW g, NEW named, NEW k
  PROVE  StackOK(g, named, k, <<>>)
<1>1. <<>> \in Seq(Visits) /\ DOMAIN (<<>>) = {}
  OBVIOUS
<1> QED BY <1>1 DEF StackOK

\* A table that nobody has asked keeps the invariant.
LEMMA LinStart == LinInit => LinIInv
<1> SUFFICES ASSUME LinInit PROVE LinIInv
  OBVIOUS
<1>1. NoMemo \in Lins
  BY DEF NoMemo, Lins, Lists
<1>2. LinTypes
  BY <1>1, LinearizationConstants DEF LinInit, LinTypes
<1>3. Graph \in Graphs
  BY <1>2, Tables
<1>4. Known = NoMemo /\ Published = NoMemo
  <2>1. \A c \in Classes : CachedLinearization(c) = <<>> /\ KnownLin(c) = <<>>
    BY DEF LinInit, NoMemo, CachedLinearization, KnownLin
  <2> QED BY <2>1 DEF Known, Published, NoMemo
<1>5. EntriesOK(Graph, Named, Known) /\ EntriesOK(Graph, Named, Published)
  BY <1>3, <1>4, NothingKnown
<1>6. StackOK(Graph, Named, Known, walk) /\ RightAnswer(Graph, answer)
  BY NoVisits DEF LinInit, RightAnswer
<1> QED BY <1>2, <1>5, <1>6 DEF LinIInv

-----------------------------------------------------------------------------
(* The steps.                                                              *)

\* What a step that is part of a question has to keep.
LEMMA AskingKeeps ==
  ASSUME LinIInv, UNCHANGED <<tableVars, cacheGen, linCache>>,
         memo' \in Lins, walk' = <<>> => memo' = NoMemo,
         EntriesOK(Graph, Named, Known'), StackOK(Graph, Named, Known', walk'),
         RightAnswer(Graph, answer')
  PROVE  LinIInv'
<1>1. Graph' = Graph /\ Named' = Named /\ Published' = Published
  BY SameGraph
<1>2. LinTypes'
  BY DEF LinIInv, LinTypes, tableVars
<1>3. EntriesOK(Graph, Named, Published)
  BY DEF LinIInv
<1> QED BY <1>1, <1>2, <1>3 DEF LinIInv

\* What is known is what was, when neither the memo nor the cache has changed.
LEMMA SameKnown ==
  ASSUME UNCHANGED <<tableVars, cacheGen, linCache, memo>>
  PROVE  Known' = Known
BY DEF Known, KnownLin, CachedLinearization, tableVars

\* A table's entry begins with its class.
LEMMA EntryHead ==
  ASSUME NEW g \in Graphs, NEW named, NEW k \in Lins, EntriesOK(g, named, k),
         NEW c \in Classes, k[c] # <<>>
  PROVE  k[c][1] = c
<1>1. Acyclic(g, c) /\ k[c] = Linearizations(g)[c]
  BY DEF EntriesOK
<1>2. Linearizations(g) \in Lins /\ Linearizations(g)[c] = Headed(c, Merge(g[c], Linearizations(g)))
  BY <1>1, Specified
<1>3. g[c] \in Lists /\ Merge(g[c], Linearizations(g)) \in Lists
  BY <1>2, MergeMore DEF Graphs
<1> QED BY <1>1, <1>2, <1>3, HeadedIs

\* A published answer is a right one.
LEMMA AnswerCachedKeeps ==
  ASSUME LinIInv, NEW c \in Classes, AnswerCached(c)
  PROVE  LinIInv'
<1> DEFINE lin == CachedLinearization(c)
<1>1. /\ UNCHANGED <<tableVars, cacheGen, linCache, memo>> /\ walk' = walk
      /\ answer' = Answer(c, lin) /\ lin # <<>>
  BY DEF AnswerCached
<1>2. LinTypes /\ EntriesOK(Graph, Named, Published)
  BY DEF LinIInv
<1>3. Graph \in Graphs /\ Published \in Lins /\ Published[c] = lin
  BY <1>2, Tables
<1>4. Known' = Known
  BY <1>1, SameKnown
<1> HIDE DEF lin
<1>5. /\ lin[1] = c /\ ToSet(lin) = Above(Graph, c) /\ Distinct(lin)
      /\ lin = Linearizations(Graph)[c]
  BY <1>1, <1>2, <1>3, EntryHead DEF EntriesOK
<1>6. RightAnswer(Graph, answer')
  BY <1>1, <1>5 DEF RightAnswer, Answer
<1>7. memo' \in Lins /\ (walk' = <<>> => memo' = NoMemo)
  BY <1>1, <1>2 DEF LinTypes
<1>8. EntriesOK(Graph, Named, Known') /\ StackOK(Graph, Named, Known', walk')
  BY <1>1, <1>4 DEF LinIInv
<1> QED BY <1>1, <1>6, <1>7, <1>8, AskingKeeps

\* A visit that begins has asked about no parent.
LEMMA FreshVisit ==
  ASSUME LinTypes, NEW c \in Classes, NEW path, NEW k
  PROVE  /\ Visit(c) \in Visits /\ Visit(c).class = c
         /\ VisitOK(Graph, Named, k, path \cup {c}, Visit(c))
<1> DEFINE v == Visit(c)
<1>1. Graph \in Graphs /\ Graph[c] = ParentsOf(c) /\ ParentsOf(c) \in Lists
  BY Tables
<1>2. NamesItsParents(c) \in BOOLEAN
  BY DEF NamesItsParents
<1>3. v \in Visits
  BY <1>1, <1>2 DEF Visit, Visits, Lists
<1>4. v.class = c /\ v.rest = ParentsOf(c) /\ v.acc = <<>>
  BY DEF Visit
<1>5. v.settled <=> NamesItsParents(c)
  BY Zenon DEF Visit
<1> HIDE DEF v
<1>6. Linearizations(Graph) \in Lins
  BY <1>1, Specified
<1>7. Merge(<<>>, Linearizations(Graph)) = <<>>
  BY <1>6, MergeMore
<1>8. <<>> \in Lists /\ <<>> \o ParentsOf(c) = ParentsOf(c) /\ ToSet(<<>>) = {} /\ Distinct(<<>>)
  BY <1>1 DEF Lists, ToSet, Distinct
<1>9. v.settled => v.class \in Named
  BY <1>4, <1>5 DEF Named
<1>10. Folded(Graph, Named, k, path \cup {c}, v, <<>>)
  BY <1>1, <1>4, <1>7, <1>8, <1>9 DEF Folded
<1>11. VisitOK(Graph, Named, k, path \cup {c}, v)
  BY <1>4, <1>8, <1>10 DEF VisitOK, Covered
<1> QED BY <1>3, <1>4, <1>11 DEF v

\* A walk begins with one visit, of a class about which nothing is known.
LEMMA BeginWalkKeeps ==
  ASSUME LinIInv, NEW c \in Classes, BeginWalk(c)
  PROVE  LinIInv'
<1>1. /\ UNCHANGED <<tableVars, cacheGen, linCache, memo>> /\ walk = <<>>
      /\ walk' = <<Visit(c)>> /\ answer' = Unasked /\ CachedLinearization(c) = <<>>
  BY DEF BeginWalk
<1>2. LinTypes /\ Graph \in Graphs
  BY Tables DEF LinIInv
<1>3. Known[c] = <<>> /\ Known' = Known
  <2>1. Published[c] = <<>>
    BY <1>1, <1>2, Tables
  <2> QED BY <1>1, <1>2, <2>1, KnownAtRest, SameKnown
<1>4. StackOK(Graph, Named, Known, <<Visit(c)>> \o walk)
  <2>1. /\ Visit(c) \in Visits /\ Visit(c).class = c
        /\ VisitOK(Graph, Named, Known, PathFrom(walk, 1) \cup {c}, Visit(c))
    BY <1>2, FreshVisit
  <2>2. StackOK(Graph, Named, Known, walk)
    BY DEF LinIInv
  <2>3. \A i \in DOMAIN walk : walk[i].class # c
    BY <1>1
  <2>4. Known[Visit(c).class] = <<>>
    BY <1>3, <2>1
  <2> QED BY <1>1, <1>2, <2>1, <2>2, <2>3, <2>4, StackPush
<1>5. walk' = <<Visit(c)>> \o walk /\ walk' # <<>>
  BY <1>1
<1>6. memo' \in Lins
  BY <1>1, <1>2 DEF LinTypes
<1>7. RightAnswer(Graph, answer')
  BY <1>1 DEF RightAnswer
<1>8. EntriesOK(Graph, Named, Known') /\ StackOK(Graph, Named, Known', walk')
  BY <1>3, <1>4, <1>5 DEF LinIInv
<1> QED BY <1>1, <1>5, <1>6, <1>7, <1>8, AskingKeeps

\* The visit that a step of a walk continues.
LEMMA Asking ==
  ASSUME LinIInv, walk # <<>>
  PROVE  /\ walk \in Seq(Visits) /\ 1 \in DOMAIN walk /\ Innermost = walk[1] /\ walk[1] \in Visits
         /\ VisitOK(Graph, Named, Known, PathFrom(walk, 1), walk[1])
         /\ Known[walk[1].class] = <<>> /\ walk[1].class \in Classes
         /\ PathFrom(walk, 1) = {walk[i].class : i \in DOMAIN walk}
         /\ walk[1].rest # <<>> => Head(walk[1].rest) \in ToSet(Graph[walk[1].class])
<1>1. StackOK(Graph, Named, Known, walk)
  BY DEF LinIInv
<1>2. walk \in Seq(Visits) /\ 1 \in DOMAIN walk /\ Innermost = walk[1] /\ walk[1] \in Visits
  BY <1>1 DEF StackOK, Innermost
<1>3. /\ VisitOK(Graph, Named, Known, PathFrom(walk, 1), walk[1])
      /\ Known[walk[1].class] = <<>>
  BY <1>1, <1>2 DEF StackOK
<1>4. PathFrom(walk, 1) = {walk[i].class : i \in DOMAIN walk}
  BY <1>2 DEF PathFrom
<1>5. ASSUME walk[1].rest # <<>> PROVE Head(walk[1].rest) \in ToSet(Graph[walk[1].class])
  <2>1. PICK done \in Lists : Folded(Graph, Named, Known, PathFrom(walk, 1), walk[1], done)
    BY <1>3 DEF VisitOK
  <2>2. walk[1].rest \in Seq(Classes) /\ done \in Seq(Classes)
    BY <1>2 DEF Visits, Lists
  <2>3. Head(walk[1].rest) \in ToSet(walk[1].rest)
    BY <1>5, <2>2 DEF ToSet
  <2>4. ToSet(Graph[walk[1].class]) = ToSet(done) \cup ToSet(walk[1].rest)
    BY <2>1, <2>2, ElementsConcat DEF Folded
  <2> QED BY <2>3, <2>4
<1>6. walk[1].class \in Classes
  BY <1>2 DEF Visits
<1> QED BY <1>2, <1>3, <1>4, <1>5, <1>6

\* An answer that the innermost visit may be given is taken.
LEMMA TakeKeeps ==
  ASSUME LinIInv, NEW p \in Classes, AsksAbout(p), NEW lin, NEW settled \in BOOLEAN,
         AnswerOK(Graph, Known, PathFrom(walk, 1), p, lin, settled, Acyclic(Graph, walk[1].class)),
         walk' = <<Took(Innermost, lin, settled)>> \o Tail(walk),
         memo' \in Lins, Known' = Known
  PROVE  LinIInv'
<1>1. /\ UNCHANGED <<tableVars, cacheGen, linCache, answer>> /\ walk # <<>>
      /\ Innermost.rest # <<>> /\ p = Head(Innermost.rest)
  BY DEF AsksAbout
<1>2. /\ Innermost = walk[1] /\ walk[1] \in Visits /\ walk \in Seq(Visits)
      /\ VisitOK(Graph, Named, Known, PathFrom(walk, 1), walk[1])
  BY <1>1, Asking
<1>3. LinTypes /\ Graph \in Graphs /\ Known \in Lins
  BY Tables DEF LinIInv
<1> DEFINE t == Took(walk[1], lin, settled)
<1>4. t \in Visits /\ t.class = walk[1].class /\ VisitOK(Graph, Named, Known, PathFrom(walk, 1), t)
  BY <1>1, <1>2, <1>3, TookOK
<1>5. walk' = <<t>> \o Tail(walk)
  BY <1>2
<1> HIDE DEF t
<1>6. StackOK(Graph, Named, Known, walk)
  BY DEF LinIInv
<1>7. StackOK(Graph, Named, Known, <<t>> \o Tail(walk))
  BY <1>1, <1>4, <1>6, StackTop
<1>8. walk' # <<>>
  BY <1>1, <1>2, <1>4, <1>5
<1>9. RightAnswer(Graph, answer')
  BY <1>1 DEF LinIInv
<1>10. EntriesOK(Graph, Named, Known') /\ StackOK(Graph, Named, Known', walk')
  BY <1>5, <1>7 DEF LinIInv
<1> QED BY <1>1, <1>8, <1>9, <1>10, AskingKeeps

\* What is known of a parent may be taken.
LEMMA TakeKnownKeeps ==
  ASSUME LinIInv, NEW p \in Classes, TakeKnown(p)
  PROVE  LinIInv'
<1>1. /\ AsksAbout(p) /\ KnownLin(p) # <<>>
      /\ walk' = <<Took(Innermost, KnownLin(p), TRUE)>> \o Tail(walk)
      /\ memo' = [memo EXCEPT ![p] = KnownLin(p)]
  BY DEF TakeKnown
<1>2. LinTypes /\ Graph \in Graphs /\ Known \in Lins /\ Known[p] = KnownLin(p)
  BY Tables DEF LinIInv
<1>3. parents' = parents /\ graphGen' = graphGen /\ cacheGen' = cacheGen /\ linCache' = linCache
  BY <1>1 DEF AsksAbout, tableVars
<1>4. memo \in [Classes -> Lists] /\ KnownLin(p) \in Lists
  BY <1>2 DEF LinTypes, Lins
<1>5. memo' \in Lins
  BY <1>1, <1>4 DEF Lins
<1>6. Known' = Known
  <2> SUFFICES ASSUME NEW c \in Classes PROVE KnownLin(c)' = KnownLin(c)
    BY DEF Known
  <2>1. CASE c = p
    <3>1. memo'[c] = KnownLin(p)
      BY <1>1, <1>4, <2>1
    <3> QED BY <1>1, <2>1, <3>1 DEF KnownLin
  <2>2. CASE c # p
    <3>1. memo'[c] = memo[c]
      BY <1>1, <1>4, <2>2
    <3> QED BY <1>3, <3>1 DEF KnownLin, CachedLinearization
  <2> QED BY <2>1, <2>2
<1>7. /\ Acyclic(Graph, p) /\ Known[p] = Linearizations(Graph)[p]
      /\ ToSet(Known[p]) = Above(Graph, p) /\ Distinct(Known[p])
  BY <1>1, <1>2 DEF LinIInv, EntriesOK
<1>8. p \in Above(Graph, p) /\ UpClosed(Graph, Above(Graph, p))
  BY <1>2, AboveIs
<1>9. Covered(Graph, PathFrom(walk, 1), ToSet(Known[p]))
  BY <1>7, <1>8 DEF Covered, UpClosed
<1>10. AnswerOK(Graph, Known, PathFrom(walk, 1), p, KnownLin(p), TRUE, Acyclic(Graph, walk[1].class))
  BY <1>1, <1>2, <1>4, <1>7, <1>8, <1>9 DEF AnswerOK
<1> QED BY <1>1, <1>5, <1>6, <1>10, TakeKeeps

\* A class on the path is taken to have no parents: it is among its own, so nothing
\* is claimed of the order, and its parents are left to the visit that walks it.
LEMMA TakeOnPathKeeps ==
  ASSUME LinIInv, NEW p \in Classes, TakeOnPath(p)
  PROVE  LinIInv'
<1>1. /\ AsksAbout(p) /\ OnPath(p) /\ UNCHANGED memo
      /\ walk' = <<Took(Innermost, <<p>>, FALSE)>> \o Tail(walk)
      /\ UNCHANGED <<tableVars, cacheGen, linCache>> /\ walk # <<>>
      /\ Innermost.rest # <<>> /\ p = Head(Innermost.rest)
  BY DEF TakeOnPath, AsksAbout
<1>2. LinTypes /\ Graph \in Graphs
  BY Tables DEF LinIInv
<1>3. memo' \in Lins /\ Known' = Known
  BY <1>1, <1>2, SameKnown DEF LinTypes
<1>4. PICK i \in DOMAIN walk : walk[i].class = p
  BY <1>1 DEF OnPath
<1>5. /\ walk \in Seq(Visits) /\ 1 \in DOMAIN walk /\ walk[1].class \in Classes
      /\ PathFrom(walk, 1) = {walk[j].class : j \in DOMAIN walk}
      /\ p \in ToSet(Graph[walk[1].class])
  BY <1>1, Asking
<1>6. walk[1].class \in Above(Graph, p)
  <2>1. 1 <= i
    BY <1>5
  <2> QED BY <1>4, <1>5, <2>1 DEF LinIInv, StackOK
<1>7. ~ Acyclic(Graph, walk[1].class)
  BY <1>2, <1>5, <1>6, FewerAbove
<1>8. <<p>> \in Lists /\ ToSet(<<p>>) = {p} /\ Distinct(<<p>>) /\ p \in Above(Graph, p)
  BY <1>2, AboveIs DEF Lists, ToSet, Distinct
<1>9. p \in PathFrom(walk, 1)
  BY <1>4, <1>5
<1>10. AnswerOK(Graph, Known, PathFrom(walk, 1), p, <<p>>, FALSE, Acyclic(Graph, walk[1].class))
  BY <1>7, <1>8, <1>9 DEF AnswerOK, Covered
<1> QED BY <1>1, <1>3, <1>10, TakeKeeps

\* A class that is neither known nor on the path gets a visit of its own.
LEMMA DescendKeeps ==
  ASSUME LinIInv, NEW p \in Classes, Descend(p)
  PROVE  LinIInv'
<1>1. /\ KnownLin(p) = <<>> /\ ~ OnPath(p) /\ UNCHANGED memo
      /\ walk' = <<Visit(p)>> \o walk /\ answer' = answer
      /\ UNCHANGED <<tableVars, cacheGen, linCache>> /\ walk # <<>>
      /\ Innermost.rest # <<>> /\ p = Head(Innermost.rest)
  BY DEF Descend, AsksAbout
<1>2. LinTypes /\ Graph \in Graphs /\ Known[p] = <<>>
  BY <1>1, Tables DEF LinIInv
<1>3. memo' \in Lins /\ Known' = Known
  BY <1>1, <1>2, SameKnown DEF LinTypes
<1>4. /\ Innermost = walk[1] /\ walk \in Seq(Visits) /\ p \in ToSet(Graph[walk[1].class])
  BY <1>1, Asking
<1>5. /\ Visit(p) \in Visits /\ Visit(p).class = p
      /\ VisitOK(Graph, Named, Known, PathFrom(walk, 1) \cup {p}, Visit(p))
  BY <1>2, FreshVisit
<1>6. StackOK(Graph, Named, Known, walk) /\ \A i \in DOMAIN walk : walk[i].class # p
  BY <1>1 DEF LinIInv, OnPath
<1> DEFINE v == Visit(p)
<1>7. /\ v \in Visits /\ v.class = p /\ walk' = <<v>> \o walk
      /\ VisitOK(Graph, Named, Known, PathFrom(walk, 1) \cup {p}, v)
  BY <1>1, <1>5
<1> HIDE DEF v
<1>8. StackOK(Graph, Named, Known, <<v>> \o walk)
  BY <1>1, <1>2, <1>4, <1>6, <1>7, StackPush
<1>9. walk' # <<>>
  BY <1>4, <1>7
<1>10. RightAnswer(Graph, answer')
  BY <1>1 DEF LinIInv
<1>11. EntriesOK(Graph, Named, Known') /\ StackOK(Graph, Named, Known', walk')
  BY <1>3, <1>7, <1>8 DEF LinIInv
<1> QED BY <1>1, <1>3, <1>9, <1>10, <1>11, AskingKeeps

\* What is known where the memo is m.
KnownWith(m) == [c \in Classes |-> IF m[c] # <<>> THEN m[c] ELSE CachedLinearization(c)]

\* The innermost visit ends: what is known then.
LEMMA RememberedIs ==
  ASSUME LinIInv, walk # <<>>, walk[1].rest = <<>>
  PROVE  /\ Remembered(walk[1]) \in Lins /\ KnownWith(Remembered(walk[1])) \in Lins
         /\ EntriesOK(Graph, Named, KnownWith(Remembered(walk[1])))
         /\ \A c \in Classes : Known[c] # <<>> => KnownWith(Remembered(walk[1]))[c] # <<>>
         /\ \A c \in Classes \ {walk[1].class} : KnownWith(Remembered(walk[1]))[c] = Known[c]
         /\ walk[1].settled => KnownWith(Remembered(walk[1]))[walk[1].class] # <<>>
<1> DEFINE v == walk[1]  r == Remembered(v)  more == KnownWith(r)
<1>1. /\ v \in Visits /\ VisitOK(Graph, Named, Known, PathFrom(walk, 1), v)
      /\ Known[v.class] = <<>> /\ v.class \in Classes /\ v.rest = <<>>
  BY Asking
<1>2. LinTypes /\ Graph \in Graphs /\ Known \in Lins /\ EntriesOK(Graph, Named, Known)
  BY Tables DEF LinIInv
<1>3. memo \in [Classes -> Lists] /\ \A c \in Classes : Known[c] = KnownLin(c)
  BY <1>2, Tables DEF LinTypes, Lins
<1> HIDE DEF v
<1>4. Answered(v) \in Lists /\ Answered(v) # <<>>
  BY <1>1, <1>2, Finished
<1>5. CASE v.settled
  <2>1. r = [memo EXCEPT ![v.class] = Answered(v)]
    BY <1>5, Zenon DEF Remembered
  <2>2. r \in Lins
    BY <1>1, <1>3, <1>4, <2>1 DEF Lins
  <2>3. \A c \in Classes : r[c] = IF c = v.class THEN Answered(v) ELSE memo[c]
    BY <1>1, <1>3, <2>1
  <2> HIDE DEF r
  <2>4. \A c \in Classes : more[c] = IF c = v.class THEN Answered(v) ELSE Known[c]
    BY <1>3, <1>4, <2>3 DEF KnownWith, KnownLin
  <2>5. more = [Known EXCEPT ![v.class] = Answered(v)]
    <3>1. more = [c \in Classes |-> more[c]]
      BY DEF KnownWith
    <3>2. Known \in [Classes -> Lists]
      BY <1>2 DEF Lins
    <3> HIDE DEF more
    <3> QED BY <1>1, <2>4, <3>1, <3>2
  <2> HIDE DEF more
  <2>6. v.settled => more \in Lins /\ EntriesOK(Graph, Named, more)
    BY <1>1, <1>2, <2>5, FinishedKnown
  <2>7. more \in Lins /\ EntriesOK(Graph, Named, more)
    BY <1>5, <2>6, Zenon
  <2>8. /\ \A c \in Classes : Known[c] # <<>> => more[c] # <<>>
        /\ \A c \in Classes \ {v.class} : more[c] = Known[c]
        /\ more[v.class] # <<>>
    BY <1>1, <1>4, <2>4
  <2> QED BY <2>2, <2>7, <2>8 DEF more, r, v
<1>6. CASE ~ v.settled
  <2>1. r = memo
    BY <1>6, Zenon DEF Remembered
  <2>2. more = Known
    BY <2>1 DEF KnownWith, Known, KnownLin
  <2>3. r \in Lins
    BY <1>3, <2>1 DEF Lins
  <2> HIDE DEF more, r
  <2>4. /\ more \in Lins /\ EntriesOK(Graph, Named, more)
        /\ \A c \in Classes : Known[c] # <<>> => more[c] # <<>>
        /\ \A c \in Classes \ {v.class} : more[c] = Known[c]
    BY <1>2, <2>2
  <2>5. v.settled => more[v.class] # <<>>
    BY <1>6, Zenon
  <2> QED BY <2>3, <2>4, <2>5 DEF more, r, v
<1> QED BY <1>5, <1>6

\* A visit that has asked about all parents answers the one around it, and its
\* class, on no path now, is known if the answer depends on the graph alone.
LEMMA ReturnKeeps ==
  ASSUME LinIInv, Return
  PROVE  LinIInv'
<1>1. /\ Len(walk) > 1 /\ Innermost.rest = <<>>
      /\ walk' = <<Took(walk[2], Answered(Innermost), Innermost.settled)>> \o Tail(Tail(walk))
      /\ memo' = Remembered(Innermost)
      /\ UNCHANGED <<tableVars, cacheGen, linCache>> /\ answer' = answer
  BY DEF Return
<1>2. walk # <<>>
  <2> SUFFICES ASSUME walk = <<>> PROVE FALSE
    OBVIOUS
  <2> QED BY <1>1
<1>3. /\ Innermost = walk[1] /\ walk \in Seq(Visits) /\ walk[1] \in Visits
      /\ VisitOK(Graph, Named, Known, PathFrom(walk, 1), walk[1])
      /\ Known[walk[1].class] = <<>> /\ walk[1].class \in Classes
  BY <1>2, Asking
<1>4. LinTypes /\ Graph \in Graphs /\ Known \in Lins /\ EntriesOK(Graph, Named, Known)
  BY Tables DEF LinIInv
<1> DEFINE more == KnownWith(Remembered(walk[1]))
<1>5. Known' = more
  BY <1>1, <1>3 DEF Known, KnownLin, KnownWith, CachedLinearization, tableVars
<1>6. /\ Remembered(walk[1]) \in Lins /\ more \in Lins /\ EntriesOK(Graph, Named, more)
      /\ \A c \in Classes : Known[c] # <<>> => more[c] # <<>>
      /\ \A c \in Classes \ {walk[1].class} : more[c] = Known[c]
      /\ walk[1].settled => more[walk[1].class] # <<>>
  BY <1>1, <1>2, <1>3, RememberedIs
<1> HIDE DEF more
<1>7. StackOK(Graph, Named, Known, walk)
  BY DEF LinIInv
<1> DEFINE t == Tail(walk)
<1>8. /\ StackOK(Graph, Named, Known, t) /\ t # <<>> /\ t[1] = walk[2]
      /\ PathFrom(t, 1) = PathFrom(walk, 2)
      /\ PathFrom(walk, 1) = PathFrom(walk, 2) \cup {walk[1].class}
      /\ \A i \in DOMAIN t : t[i].class # walk[1].class
      /\ walk[2].rest # <<>> /\ Head(walk[2].rest) = walk[1].class
      /\ walk[1].class \in ToSet(Graph[walk[2].class])
  <2>1. Len(walk) > 1 /\ Graph \in Graphs
    BY <1>1, <1>4
  <2> QED BY <1>7, <2>1, StackPop
<1>9. /\ t \in Seq(Visits) /\ 1 \in DOMAIN t
      /\ \A i \in DOMAIN t : t[i] \in Visits /\ t[i].class \in Classes
  <2>1. t \in Seq(Visits)
    BY <1>8 DEF StackOK
  <2> HIDE DEF t
  <2>2. 1 \in DOMAIN t /\ \A i \in DOMAIN t : t[i] \in Visits
    BY <1>8, <2>1
  <2> QED BY <2>1, <2>2 DEF Visits
<1>10. Tail(Tail(walk)) = Tail(t)
  OBVIOUS
<1> HIDE DEF t
<1>11. \A i \in DOMAIN t : more[t[i].class] = <<>>
  <2> TAKE i \in DOMAIN t
  <2>1. Known[t[i].class] = <<>>
    BY <1>8 DEF StackOK
  <2> QED BY <1>6, <1>8, <1>9, <2>1
<1>12. StackOK(Graph, Named, more, t)
  BY <1>6, <1>8, <1>11, StackMore
<1>13. VisitOK(Graph, Named, more, PathFrom(t, 1), t[1]) /\ t[1] \in Visits
  BY <1>9, <1>12 DEF StackOK
<1>14. Acyclic(Graph, t[1].class) => Acyclic(Graph, walk[1].class)
  BY <1>4, <1>8, <1>9, FewerAbove
<1>15. AnswerOK(Graph, more, PathFrom(t, 1), walk[1].class, Answered(walk[1]),
                walk[1].settled, Acyclic(Graph, t[1].class))
  <2>1. Acyclic(Graph, t[1].class) \in BOOLEAN
    BY DEF Acyclic
  <2>2. /\ PathFrom(walk, 1) \ {walk[1].class} \subseteq PathFrom(t, 1)
        /\ PathFrom(t, 1) \subseteq PathFrom(walk, 1)
    BY <1>8
  <2>3. /\ Graph \in Graphs /\ Known \in Lins /\ EntriesOK(Graph, Named, Known)
        /\ walk[1] \in Visits /\ VisitOK(Graph, Named, Known, PathFrom(walk, 1), walk[1])
        /\ walk[1].rest = <<>> /\ Known[walk[1].class] = <<>> /\ more \in Lins
    BY <1>1, <1>3, <1>4, <1>6
  <2>4. walk[1].settled => more[walk[1].class] # <<>>
    BY <1>6
  <2> QED BY <1>14, <2>1, <2>2, <2>3, <2>4, FinishedAnswers
<1> DEFINE u == Took(t[1], Answered(walk[1]), walk[1].settled)
<1>16. u \in Visits /\ u.class = t[1].class /\ VisitOK(Graph, Named, more, PathFrom(t, 1), u)
  <2>1. walk[1].settled \in BOOLEAN
    BY <1>3 DEF Visits
  <2>2. t[1].rest # <<>> /\ walk[1].class = Head(t[1].rest)
    BY <1>8
  <2> DEFINE b == walk[1].settled
  <2>3. /\ b \in BOOLEAN /\ u = Took(t[1], Answered(walk[1]), b)
        /\ AnswerOK(Graph, more, PathFrom(t, 1), walk[1].class, Answered(walk[1]), b,
                    Acyclic(Graph, t[1].class))
    BY <1>15, <2>1
  <2> HIDE DEF b, u
  <2>4. Graph \in Graphs /\ more \in Lins
    BY <1>4, <1>6
  <2>5. u \in Visits /\ u.class = t[1].class
    <3>1. t[1] \in Visits /\ t[1].rest # <<>> /\ Answered(walk[1]) \in Lists /\ b \in BOOLEAN
      BY <1>13, <2>2, <2>3 DEF AnswerOK
    <3>3. Took(t[1], Answered(walk[1]), b) \in Visits
      BY <3>1, TookType
    <3>2. u.class = t[1].class
      BY <2>3 DEF Took
    <3> QED BY <2>3, <3>2, <3>3
  <2>6. VisitOK(Graph, Named, more, PathFrom(t, 1), u)
    BY <1>13, <2>2, <2>3, <2>4, TookOK
  <2> QED BY <2>5, <2>6
<1>17. walk' = <<u>> \o Tail(t)
  BY <1>1, <1>3, <1>8, <1>10
<1> HIDE DEF u
<1>18. StackOK(Graph, Named, more, <<u>> \o Tail(t))
  BY <1>8, <1>12, <1>16, StackTop
<1>19. walk' # <<>> /\ memo' \in Lins
  BY <1>1, <1>3, <1>6, <1>8, <1>9, <1>16, <1>17
<1>20. RightAnswer(Graph, answer')
  BY <1>1 DEF LinIInv
<1>21. EntriesOK(Graph, Named, Known') /\ StackOK(Graph, Named, Known', walk')
  BY <1>5, <1>6, <1>17, <1>18
<1> QED BY <1>1, <1>19, <1>20, <1>21, AskingKeeps

\* The first visit has no class on its path but its own, so that its answer is
\* closed; what was published stays, and the rest of the memo joins it.
LEMMA EndWalkKeeps ==
  ASSUME LinIInv, EndWalk
  PROVE  LinIInv'
<1>1. /\ Len(walk) = 1 /\ Innermost.rest = <<>>
      /\ answer' = Answer(Innermost.class, Answered(Innermost))
      /\ Publish(Remembered(Innermost)) /\ walk' = <<>> /\ memo' = NoMemo
      /\ UNCHANGED tableVars
  BY DEF EndWalk
<1>2. walk # <<>>
  <2> SUFFICES ASSUME walk = <<>> PROVE FALSE
    OBVIOUS
  <2> QED BY <1>1
<1>3. /\ Innermost = walk[1] /\ walk[1] \in Visits
      /\ VisitOK(Graph, Named, Known, PathFrom(walk, 1), walk[1])
      /\ walk[1].class \in Classes
      /\ PathFrom(walk, 1) = {walk[i].class : i \in DOMAIN walk} /\ walk \in Seq(Visits)
  BY <1>2, Asking
<1>4. LinTypes /\ Graph \in Graphs /\ Known \in Lins /\ EntriesOK(Graph, Named, Known)
  BY Tables DEF LinIInv
<1>5. Published \in Lins /\ EntriesOK(Graph, Named, Published)
  BY Tables DEF LinIInv
<1> DEFINE r == Remembered(walk[1])  more == KnownWith(r)
<1>6. r \in Lins /\ more \in Lins /\ EntriesOK(Graph, Named, more)
  BY <1>1, <1>2, <1>3, RememberedIs
<1>7. \A c \in Classes : /\ Published[c] = CachedLinearization(c)
                         /\ more[c] = IF r[c] # <<>> THEN r[c] ELSE Published[c]
  BY <1>4, Tables DEF KnownWith
<1>8. Publish(r)
  BY <1>1, <1>3
<1> HIDE DEF r, more
<1>9. NoMemo \in Lins
  BY <1>4, NothingKnown
<1>10. graphGen' = graphGen /\ parents' = parents /\ scope' = scope
  BY <1>1 DEF tableVars
<1>11. /\ linCache' \in Lins /\ cacheGen' \in Nat /\ cacheGen' <= graphGen
       /\ Published' \in Lins /\ EntriesOK(Graph, Named, Published')
  <2>1. CASE r = NoMemo
    <3>1. UNCHANGED <<cacheGen, linCache>>
      BY <1>8, <2>1 DEF Publish
    <3>2. Published' = Published
      BY <1>1, <3>1, SameGraph
    <3> QED BY <1>4, <1>5, <3>1, <3>2 DEF LinTypes
  <2>2. CASE r # NoMemo
    <3> DEFINE kept == IF cacheGen = graphGen THEN linCache ELSE NoMemo
               both == [c \in Classes |-> IF Published[c] # <<>> THEN Published[c] ELSE more[c]]
    <3>1. /\ cacheGen' = graphGen
          /\ linCache' = [c \in Classes |-> IF kept[c] # <<>> THEN kept[c] ELSE r[c]]
      BY <1>8, <2>2 DEF Publish
    <3>2. \A c \in Classes : kept[c] = Published[c]
      BY <1>7 DEF CachedLinearization, NoMemo
    <3>3. linCache' = both
      <4>1. \A c \in Classes : (IF kept[c] # <<>> THEN kept[c] ELSE r[c]) = both[c]
        BY <1>7, <3>2
      <4> HIDE DEF kept
      <4> QED BY <3>1, <4>1
    <3>4. both \in Lins /\ EntriesOK(Graph, Named, both)
      BY <1>4, <1>5, <1>6, KnownJoined
    <3> HIDE DEF both, kept
    <3>5. Published' = both
      <4>1. \A c \in Classes : CachedLinearization(c)' = both[c]
        BY <1>10, <3>1, <3>3 DEF CachedLinearization
      <4>2. both = [c \in Classes |-> both[c]]
        BY <3>4 DEF Lins
      <4> QED BY <4>1, <4>2 DEF Published
    <3>6. graphGen \in Nat
      BY <1>4 DEF LinTypes
    <3>7. cacheGen' \in Nat /\ cacheGen' <= graphGen
      BY <3>1, <3>6
    <3> QED BY <3>3, <3>4, <3>5, <3>7
  <2> QED BY <2>1, <2>2
<1>12. LinTypes'
  BY <1>1, <1>4, <1>9, <1>10, <1>11 DEF LinTypes
<1>13. Known' = Published'
  <2>1. \A c \in Classes : KnownLin(c)' = CachedLinearization(c)'
    BY <1>1 DEF KnownLin, NoMemo
  <2> QED BY <2>1 DEF Known, Published
<1>14. Graph' = Graph /\ Named' = Named
  BY <1>1, SameGraph
<1>15. EntriesOK(Graph', Named', Known')
  BY <1>11, <1>13, <1>14
<1>16. RightAnswer(Graph, answer')
  <2> DEFINE v == walk[1]  out == Answered(v)
  <2>1. v.rest = <<>> /\ PathFrom(walk, 1) = {v.class}
    BY <1>1, <1>3
  <2>0. /\ Graph \in Graphs /\ Known \in Lins /\ EntriesOK(Graph, Named, Known)
        /\ v \in Visits /\ VisitOK(Graph, Named, Known, PathFrom(walk, 1), v) /\ v.rest = <<>>
    BY <1>3, <1>4, <2>1
  <2>2. /\ out \in Lists /\ out[1] = v.class /\ v.class \in ToSet(out)
        /\ ToSet(out) \subseteq Above(Graph, v.class) /\ Distinct(out)
    BY <2>0, Finished
  <2>3. Covered(Graph, PathFrom(walk, 1) \ {v.class}, ToSet(out))
    BY <2>0, Finished
  <2>4. Acyclic(Graph, v.class) => out = Linearizations(Graph)[v.class]
    BY <2>0, Finished
  <2>5. v.class \in Classes /\ answer' = Answer(v.class, out)
    BY <1>1, <1>3
  <2> HIDE DEF v, out
  <2>6. UpClosed(Graph, ToSet(out))
    BY <2>1, <2>3 DEF Covered, UpClosed
  <2>7. Above(Graph, v.class) \in SUBSET Classes
    BY <1>4, <2>5, AboveIs
  <2>8. Above(Graph, v.class) \subseteq ToSet(out)
    BY <1>4, <2>2, <2>5, <2>6, <2>7, AboveIs
  <2> QED BY <2>2, <2>4, <2>5, <2>8 DEF RightAnswer, Answer
<1>17. StackOK(Graph', Named', Known', walk')
  BY <1>1, NoVisits
<1>18. EntriesOK(Graph', Named', Published')
  BY <1>11, <1>14
<1> QED BY <1>12, <1>14, <1>15, <1>16, <1>17, <1>18 DEF LinIInv

\* A class that is handed out for mutation outdates all that is published.
LEMMA SetParentsKeeps ==
  ASSUME LinIInv, NEW c \in Classes, NEW ps \in ParentLists, SetParents(c, ps)
  PROVE  LinIInv'
<1>1. /\ walk = <<>> /\ parents' = [parents EXCEPT ![c] = ps] /\ graphGen' = graphGen + 1
      /\ answer' = Unasked /\ UNCHANGED <<scope, cacheGen, linCache, walk, memo>>
  BY DEF SetParents
<1>2. LinTypes
  BY DEF LinIInv
<1>3. ps \in Seq(Clauses)
  <2>1. PICK n \in 0..MaxParents : ps \in [1..n -> Clauses]
    BY DEF ParentLists
  <2> QED BY <2>1, LinearizationConstants
<1>4. LinTypes'
  BY <1>1, <1>2, <1>3 DEF LinTypes
<1>5. \A d \in Classes : CachedLinearization(d)' = <<>> /\ KnownLin(d)' = <<>>
  <2>1. cacheGen' # graphGen' /\ memo' = NoMemo
    BY <1>1, <1>2 DEF LinTypes
  <2> QED BY <2>1 DEF CachedLinearization, KnownLin, NoMemo
<1>6. Published' = NoMemo /\ Known' = NoMemo
  BY <1>5 DEF Published, Known, NoMemo
<1>7. Graph' \in Graphs
  <2>1. \A d \in Classes : parents'[d] \in Seq(Clauses)
    BY <1>4 DEF LinTypes
  <2>2. \A d \in Classes : ParentsOf(d)' \in Lists
    BY <2>1, ResolvedMore DEF ParentsOf, Resolved
  <2> QED BY <2>2 DEF Graph, Graphs
<1>8. EntriesOK(Graph', Named', NoMemo)
  BY <1>7, NothingKnown
<1>9. StackOK(Graph', Named', Known', walk') /\ RightAnswer(Graph', answer')
  BY <1>1, NoVisits DEF RightAnswer
<1>10. EntriesOK(Graph', Named', Published') /\ EntriesOK(Graph', Named', Known')
  BY <1>6, <1>8
<1> QED BY <1>4, <1>9, <1>10 DEF LinIInv

\* A class whose clauses name its parents has the same ones in every scope.
LEMMA ChangeScopeKeeps ==
  ASSUME LinIInv, NEW s \in SUBSET Loose, ChangeScope(s)
  PROVE  LinIInv'
<1>1. /\ walk = <<>> /\ answer' = Unasked /\ scope' = s
      /\ UNCHANGED <<parents, graphGen, cacheGen, linCache, walk, memo>>
  BY DEF ChangeScope
<1>2. LinTypes /\ EntriesOK(Graph, Named, Published)
  BY DEF LinIInv
<1>3. LinTypes'
  BY <1>1, <1>2 DEF LinTypes
<1>4. \A c \in Classes : parents[c] \in Seq(Clauses)
  BY <1>2 DEF LinTypes
<1>5. \A c \in Classes : ParentsOf(c)' \in Lists /\ (c \in Named => ParentsOf(c)' = ParentsOf(c))
  <2> TAKE c \in Classes
  <2>1. ParentsOf(c)' = Resolved(s, parents[c]) /\ ParentsOf(c) = Resolved(scope, parents[c])
    BY <1>1 DEF ParentsOf, Resolved
  <2>2. c \in Named => \A i \in DOMAIN parents[c] : parents[c][i].outright
    BY DEF Named, NamesItsParents
  <2>3. Resolved(s, parents[c]) \in Lists
    BY <1>4, ResolvedMore
  <2>4. (\A i \in DOMAIN parents[c] : parents[c][i].outright)
          => Resolved(s, parents[c]) = Resolved(scope, parents[c])
    BY <1>4, OutrightSame
  <2>5. c \in Named => Resolved(s, parents[c]) = Resolved(scope, parents[c])
    BY <2>2, <2>4, Zenon
  <2> QED BY <2>1, <2>3, <2>5
<1>6. Graph' \in Graphs /\ \A c \in Classes : c \in Named => Graph'[c] = Graph[c]
  BY <1>5 DEF Graph, Graphs
<1>7. Named' = Named /\ Published' = Published
  BY <1>1 DEF Named, NamesItsParents, Published, CachedLinearization
<1>8. Graph \in Graphs /\ Published \in Lins
  BY <1>2, Tables
<1>9. EntriesOK(Graph', Named, Published)
  BY <1>2, <1>6, <1>8, KnownStays
<1>10. Known = Published /\ Known' = Known
  <2>1. Known = Published
    BY <1>1, <1>2, KnownAtRest
  <2>2. Known' = Known
    BY <1>1 DEF Known, KnownLin, CachedLinearization
  <2> QED BY <2>1, <2>2
<1>11. EntriesOK(Graph', Named', Published') /\ EntriesOK(Graph', Named', Known')
  BY <1>7, <1>9, <1>10
<1>12. StackOK(Graph', Named', Known', walk') /\ RightAnswer(Graph', answer')
  BY <1>1, NoVisits DEF RightAnswer
<1> QED BY <1>3, <1>11, <1>12 DEF LinIInv

\* Nothing happens.
LEMMA LinStays ==
  ASSUME LinIInv, UNCHANGED linVars
  PROVE  LinIInv'
<1>1. /\ UNCHANGED <<tableVars, cacheGen, linCache, memo>> /\ walk' = walk /\ answer' = answer
  BY DEF linVars, tableVars
<1>2. Known' = Known
  BY <1>1, SameKnown
<1>3. memo' \in Lins /\ (walk' = <<>> => memo' = NoMemo)
  BY <1>1 DEF LinIInv, LinTypes
<1>4. /\ EntriesOK(Graph, Named, Known') /\ StackOK(Graph, Named, Known', walk')
      /\ RightAnswer(Graph, answer')
  BY <1>1, <1>2 DEF LinIInv
<1> QED BY <1>1, <1>3, <1>4, AskingKeeps

\* Every step keeps what is known, the visits and the answer right.
THEOREM LinInductive == LinSpec => []LinIInv
<1>1. LinIInv /\ [LinNext]_linVars => LinIInv'
  <2> SUFFICES ASSUME LinIInv, [LinNext]_linVars PROVE LinIInv'
    OBVIOUS
  <2>1. ASSUME NEW c \in Classes, AnswerCached(c) PROVE LinIInv'
    BY <2>1, AnswerCachedKeeps
  <2>2. ASSUME NEW c \in Classes, BeginWalk(c) PROVE LinIInv'
    BY <2>2, BeginWalkKeeps
  <2>3. ASSUME NEW p \in Classes, TakeKnown(p) PROVE LinIInv'
    BY <2>3, TakeKnownKeeps
  <2>4. ASSUME NEW p \in Classes, TakeOnPath(p) PROVE LinIInv'
    BY <2>4, TakeOnPathKeeps
  <2>5. ASSUME NEW p \in Classes, Descend(p) PROVE LinIInv'
    BY <2>5, DescendKeeps
  <2>6. CASE Return
    BY <2>6, ReturnKeeps
  <2>7. CASE EndWalk
    BY <2>7, EndWalkKeeps
  <2>8. ASSUME NEW c \in Classes, NEW ps \in ParentLists, SetParents(c, ps) PROVE LinIInv'
    BY <2>8, SetParentsKeeps
  <2>9. ASSUME NEW s \in SUBSET Loose, ChangeScope(s) PROVE LinIInv'
    BY <2>9, ChangeScopeKeeps
  <2>10. CASE UNCHANGED linVars
    BY <2>10, LinStays
  <2> QED BY <2>1, <2>2, <2>3, <2>4, <2>5, <2>6, <2>7, <2>8, <2>9, <2>10 DEF LinNext
<1> QED BY <1>1, LinStart, PTL DEF LinSpec

\* Every answer of linearize_settled is about the graph of today: the class and
\* all that is above it, each once, also where there is a cycle, and without one
\* it is the linearization of SLS 5.1.2, whatever the walk, the memo and the
\* table's cache remembered and however scopes and parent lists have changed.
THEOREM AnswersAreRight == LinSpec => []AnswersRight
<1>1. LinIInv => AnswersRight
  BY DEF LinIInv, AnswersRight, RightAnswer, Distinct
<1> QED BY <1>1, LinInductive, PTL

\* What LinCache hands out depends on the symbol graph alone: no cycle and no
\* name that the scopes resolve is above the class of an entry, and the entry is
\* its linearization now.
THEOREM RememberedAreSettled == LinSpec => []RememberedSettled
<1>1. LinIInv => RememberedSettled
  <2> SUFFICES ASSUME LinIInv, NEW c \in Classes, CachedLinearization(c) # <<>>
               PROVE  /\ Acyclic(Graph, c) /\ CachedLinearization(c) = Linearizations(Graph)[c]
                      /\ \A d \in Above(Graph, c) : NamesItsParents(d)
    BY DEF RememberedSettled
  <2>1. /\ Graph \in Graphs /\ Published \in Lins /\ Published[c] = CachedLinearization(c)
        /\ EntriesOK(Graph, Named, Published)
    BY Tables DEF LinIInv
  <2>2. Acyclic(Graph, c) /\ CachedLinearization(c) = Linearizations(Graph)[c]
    BY <2>1 DEF EntriesOK
  <2>3. \A d \in Above(Graph, c) : d \in Classes /\ Published[d] # <<>>
    BY <2>1, KnownAbove, AboveIs
  <2>4. \A d \in Above(Graph, c) : NamesItsParents(d)
    BY <2>1, <2>3 DEF EntriesOK, Named
  <2> QED BY <2>2, <2>4
<1> QED BY <1>1, LinInductive, PTL

-----------------------------------------------------------------------------
(* The search for models.                                                  *)

Cnfs == SUBSET SUBSET Lits
Frames == [clauses : Cnfs, assigned : SUBSET Lits]

Consistent(a) == \A l \in a : -l \notin a

Satisfiable(cs) == \E v \in SUBSET Lits : Valuation(v) /\ Satisfies(v, cs)

\* No clause mentions a variable of a.
Apart(cs, a) == \A c \in cs : \A l \in c : l \notin a /\ -l \notin a

\* What is left to satisfy is enough.
Enough(cs, a, all) ==
  \A v \in SUBSET Lits : Valuation(v) /\ a \subseteq v /\ Satisfies(v, cs) => Satisfies(v, all)

FrameOK(f, all) ==
  f \in Frames /\ Consistent(f.assigned) /\ Apart(f.clauses, f.assigned)
  /\ Enough(f.clauses, f.assigned, all)

\* The frames of a stack.
Held(s) == {s[i] : i \in 1..Len(s)}

Negated(m) == {-l : l \in m}

SearchTypes ==
  /\ cnf \in Cnfs /\ clauses \in Cnfs /\ search \in Seq(Frames) /\ models \in Seq(SUBSET Lits)
  /\ verdict = "idle" => models = <<>> /\ search = <<>>

ModelsOK == \A i \in 1..Len(models) : Consistent(models[i]) /\ Symbolic(models[i]) = models[i]

\* The clauses are those asked about and one for each model found.
BlockedOK == clauses = cnf \cup {Negated(models[i]) : i \in 1..Len(models)}

FramesOK == \A f \in Held(search) : FrameOK(f, clauses)

Alive ==
  /\ verdict = "searching" /\ Satisfiable(clauses) => \E f \in Held(search) : Satisfiable(f.clauses)
  /\ verdict = "all" => ~Satisfiable(clauses)

\* The inductive invariant.
SearchIInv ==
  /\ SearchTypes /\ ModelsOK /\ BlockedOK /\ FramesOK /\ Alive
  /\ ModelsSatisfy /\ ModelsDisjoint

-----------------------------------------------------------------------------
(* Literals, valuations and stacks.                                        *)

\* Negation of literals.
LEMMA Negation ==
  \A l \in Lits : /\ -l \in Lits /\ -(-l) = l /\ l # -l /\ l \in Int
                  /\ Magnitude(-l) = Magnitude(l)
  BY DEF Lits, Magnitude

\* A set of literals without a contradiction is part of a valuation.
LEMMA Completion ==
  ASSUME NEW a \in SUBSET Lits, Consistent(a)
  PROVE  \E v \in SUBSET Lits : Valuation(v) /\ a \subseteq v
<1> DEFINE v == {l \in Lits : IF l > 0 THEN -l \notin a ELSE l \in a}
<1>1. v \in SUBSET Lits
  OBVIOUS
<1>2. ASSUME NEW l \in Lits PROVE l \in v <=> -l \notin v
  <2>1. -l \in Lits /\ -(-l) = l /\ l \in Int /\ (l > 0 <=> ~(-l > 0))
    BY DEF Lits
  <2>2. CASE l > 0
    BY <2>1, <2>2
  <2>3. CASE ~(l > 0)
    BY <2>1, <2>3
  <2> QED BY <2>2, <2>3
<1>3. a \subseteq v
  BY DEF Consistent
<1> HIDE DEF v
<1>4. Valuation(v)
  BY <1>1, <1>2 DEF Valuation
<1> QED BY <1>1, <1>3, <1>4

\* The parts of a frame.
LEMMA FrameParts ==
  ASSUME NEW cs \in Cnfs, NEW a \in SUBSET Lits
  PROVE  /\ Frame(cs, a) \in Frames
         /\ Frame(cs, a).clauses = cs /\ Frame(cs, a).assigned = a
  BY DEF Frame, Frames

\* Frames are put on a stack and taken from it.
LEMMA StackHeld ==
  ASSUME NEW s \in Seq(Frames), s # <<>>, NEW f \in Frames
  PROVE  /\ Head(s) \in Frames /\ Tail(s) \in Seq(Frames)
         /\ Held(s) = {Head(s)} \cup Held(Tail(s))
         /\ <<f>> \o Tail(s) \in Seq(Frames)
         /\ Held(<<f>> \o Tail(s)) = {f} \cup Held(Tail(s))
         /\ Held(<<f>>) = {f} /\ <<f>> \in Seq(Frames) /\ Held(<<>>) = {}
<1> DEFINE t == Tail(s)
           n == Len(t)
<1>1. Head(s) \in Frames /\ t \in Seq(Frames) /\ n \in Nat /\ Len(s) = n + 1
      /\ s[1] = Head(s) /\ \A i \in 1..n : t[i] = s[i + 1]
  OBVIOUS
<1>2. Held(s) = {Head(s)} \cup Held(t)
  <2> HIDE DEF t
  <2>1. ASSUME NEW i \in 1..Len(s) PROVE s[i] \in {Head(s)} \cup Held(t)
    <3>1. CASE i = 1
      BY <1>1, <3>1
    <3>2. CASE i # 1
      <4>1. i - 1 \in 1..n /\ (i - 1) + 1 = i
        BY <1>1, <3>2
      <4>2. t[i - 1] = s[i]
        BY <1>1, <4>1
      <4> QED BY <4>1, <4>2 DEF Held
    <3> QED BY <3>1, <3>2
  <2>2. ASSUME NEW i \in 1..n PROVE t[i] \in Held(s)
    <3>1. i + 1 \in 1..Len(s) /\ t[i] = s[i + 1]
      BY <1>1
    <3> QED BY <3>1 DEF Held
  <2>3. Head(s) \in Held(s)
    BY <1>1 DEF Held
  <2> QED BY <2>1, <2>2, <2>3 DEF Held
<1> HIDE DEF t
<1>3. /\ <<f>> \o t \in Seq(Frames) /\ Len(<<f>> \o t) = n + 1
      /\ (<<f>> \o t)[1] = f /\ \A i \in 1..n : (<<f>> \o t)[i + 1] = t[i]
  BY <1>1
<1>4. Held(<<f>> \o t) = {f} \cup Held(t)
  <2> DEFINE u == <<f>> \o t
  <2>0. Len(u) = n + 1 /\ u[1] = f /\ \A i \in 1..n : u[i + 1] = t[i]
    BY <1>3
  <2> HIDE DEF u
  <2>1. ASSUME NEW i \in 1..Len(u) PROVE u[i] \in {f} \cup Held(t)
    <3>1. CASE i = 1
      BY <2>0, <3>1
    <3>2. CASE i # 1
      <4>1. i - 1 \in 1..n /\ (i - 1) + 1 = i
        BY <1>1, <2>0, <3>2
      <4>2. u[i] = t[i - 1]
        BY <2>0, <4>1
      <4> QED BY <4>1, <4>2 DEF Held
    <3> QED BY <3>1, <3>2
  <2>2. ASSUME NEW i \in 1..n PROVE t[i] \in Held(u)
    <3>1. i + 1 \in 1..Len(u) /\ t[i] = u[i + 1]
      BY <1>1, <2>0
    <3> QED BY <3>1 DEF Held
  <2>3. f \in Held(u)
    <3>1. 1 \in 1..Len(u) /\ u[1] = f
      BY <1>1, <2>0
    <3> QED BY <3>1 DEF Held
  <2>4. Held(u) = {f} \cup Held(t)
    BY <2>1, <2>2, <2>3 DEF Held
  <2> QED BY <2>4 DEF u
<1>5. Held(<<f>>) = {f} /\ <<f>> \in Seq(Frames) /\ Held(<<>>) = {}
  <2>1. Len(<<f>>) = 1 /\ <<f>>[1] = f /\ <<f>> \in Seq(Frames) /\ Len(<<>>) = 0
    OBVIOUS
  <2>2. 1..1 = {1} /\ 1..0 = {}
    OBVIOUS
  <2> QED BY <2>1, <2>2 DEF Held
<1> QED BY <1>1, <1>2, <1>3, <1>4, <1>5 DEF t

\* Two frames are put on a stack.
LEMMA StackTwo ==
  ASSUME NEW t \in Seq(Frames), NEW f \in Frames, NEW g \in Frames
  PROVE  <<f, g>> \o t \in Seq(Frames) /\ Held(<<f, g>> \o t) = {f, g} \cup Held(t)
<1> DEFINE n == Len(t)
<1>5. n \in Nat
  OBVIOUS
<1> DEFINE u == <<f, g>> \o t
<1>0. u \in Seq(Frames) /\ Len(u) = n + 2 /\ u[1] = f /\ u[2] = g /\ \A i \in 1..n : u[i + 2] = t[i]
  BY <1>5
<1> HIDE DEF u
<1>1. ASSUME NEW i \in 1..Len(u) PROVE u[i] \in {f, g} \cup Held(t)
  <2>1. CASE i = 1 \/ i = 2
    BY <1>0, <2>1
  <2>2. CASE i # 1 /\ i # 2
    <3>1. i - 2 \in 1..n /\ (i - 2) + 2 = i
      BY <1>5, <1>0, <2>2
    <3>2. u[i] = t[i - 2]
      BY <1>0, <3>1
    <3> QED BY <3>1, <3>2 DEF Held
  <2> QED BY <2>1, <2>2
<1>2. ASSUME NEW i \in 1..n PROVE t[i] \in Held(u)
  <2>1. i + 2 \in 1..Len(u) /\ t[i] = u[i + 2]
    BY <1>5, <1>0
  <2> QED BY <2>1 DEF Held
<1>3. f \in Held(u) /\ g \in Held(u)
  <2>1. 1 \in 1..Len(u) /\ 2 \in 1..Len(u) /\ u[1] = f /\ u[2] = g
    BY <1>5, <1>0
  <2> QED BY <2>1 DEF Held
<1>4. Held(u) = {f, g} \cup Held(t)
  BY <1>1, <1>2, <1>3 DEF Held
<1> QED BY <1>0, <1>4 DEF u

-----------------------------------------------------------------------------
(* What a step of the search does to one frame.                            *)

\* drop_unit: nothing is lost and nothing is gained.
LEMMA UnitFrame ==
  ASSUME NEW cs \in Cnfs, NEW a \in SUBSET Lits, NEW all, NEW l, {l} \in cs,
         Consistent(a), Apart(cs, a), Enough(cs, a, all)
  PROVE  /\ l \in Lits /\ DropUnit(cs, l) \in Cnfs
         /\ Consistent(a \cup {l}) /\ Apart(DropUnit(cs, l), a \cup {l})
         /\ Enough(DropUnit(cs, l), a \cup {l}, all)
         /\ Satisfiable(cs) => Satisfiable(DropUnit(cs, l))
<1> DEFINE ds == DropUnit(cs, l)
<1>1. l \in Lits /\ l \notin a /\ -l \notin a /\ -l \in Lits /\ l # -l /\ -(-l) = l
  <2>1. l \in Lits /\ l \notin a /\ -l \notin a
    BY DEF Cnfs, Apart
  <2> QED BY <2>1, Negation
<1>2. ds \in Cnfs
  BY DEF DropUnit, Open, Cnfs
<1>3. Consistent(a \cup {l})
  <2> SUFFICES ASSUME NEW k \in a \cup {l}, -k \in a \cup {l} PROVE FALSE
    BY DEF Consistent
  <2>1. k \in Lits /\ -(-k) = k
    BY <1>1, Negation
  <2> QED BY <1>1, <2>1 DEF Consistent
<1>4. Apart(ds, a \cup {l})
  <2> SUFFICES ASSUME NEW c \in cs, l \notin c, NEW k \in c, k # -l
               PROVE  k \notin a \cup {l} /\ -k \notin a \cup {l}
    BY DEF Apart, DropUnit, Open
  <2>1. k \in Lits /\ -(-k) = k /\ k \notin a /\ -k \notin a /\ k # l
    BY Negation DEF Cnfs, Apart
  <2> QED BY <1>1, <2>1
<1>5. Enough(ds, a \cup {l}, all)
  <2> SUFFICES ASSUME NEW v \in SUBSET Lits, Valuation(v), a \cup {l} \subseteq v, Satisfies(v, ds)
               PROVE  Satisfies(v, all)
    BY DEF Enough
  <2>1. ASSUME NEW c \in cs PROVE c \cap v # {}
    <3>1. CASE l \in c
      BY <3>1
    <3>2. CASE l \notin c
      <4>1. c \ {-l} \in ds
        BY <3>2 DEF DropUnit, Open
      <4> HIDE DEF ds
      <4>2. (c \ {-l}) \cap v # {}
        BY <4>1 DEF Satisfies
      <4> QED BY <4>2
    <3> QED BY <3>1, <3>2
  <2>2. Satisfies(v, cs)
    BY <2>1 DEF Satisfies
  <2> QED BY <2>2 DEF Enough
<1>6. ASSUME NEW v \in SUBSET Lits, Valuation(v), Satisfies(v, cs) PROVE Satisfies(v, ds)
  <2>1. l \in v
    BY <1>6 DEF Satisfies
  <2>2. -l \notin v
    BY <1>1, <1>6, <2>1 DEF Valuation
  <2> SUFFICES ASSUME NEW c \in cs, l \notin c PROVE (c \ {-l}) \cap v # {}
    BY DEF Satisfies, DropUnit, Open
  <2>3. c \cap v # {}
    BY <1>6 DEF Satisfies
  <2> QED BY <2>2, <2>3
<1>7. Satisfiable(cs) => Satisfiable(ds)
  <2> HIDE DEF ds
  <2> QED BY <1>6 DEF Satisfiable
<1> QED BY <1>1, <1>2, <1>3, <1>4, <1>5, <1>7

\* A pure literal: valuations may be lost, satisfiability is not.
LEMMA PureFrame ==
  ASSUME NEW cs \in Cnfs, NEW a \in SUBSET Lits, NEW all, NEW l \in PureLiterals(cs),
         Consistent(a), Apart(cs, a), Enough(cs, a, all)
  PROVE  /\ l \in Lits /\ Open(cs, l) \in Cnfs
         /\ Consistent(a \cup {l}) /\ Apart(Open(cs, l), a \cup {l})
         /\ Enough(Open(cs, l), a \cup {l}, all)
         /\ Satisfiable(cs) => Satisfiable(Open(cs, l))
<1> DEFINE ds == Open(cs, l)
<1> USE DEF Open
<1>1. l \in Lits /\ l \notin a /\ -l \notin a /\ -l \in Lits /\ l # -l /\ -(-l) = l
      /\ \A c \in cs : -l \notin c
  <2>1. l \in Lits /\ l \notin a /\ -l \notin a /\ \A c \in cs : -l \notin c
    BY DEF Cnfs, Apart, PureLiterals
  <2> QED BY <2>1, Negation
<1>2. ds \in Cnfs
  BY DEF Cnfs
<1>3. Consistent(a \cup {l})
  <2> SUFFICES ASSUME NEW k \in a \cup {l}, -k \in a \cup {l} PROVE FALSE
    BY DEF Consistent
  <2>1. k \in Lits /\ -(-k) = k
    BY <1>1, Negation
  <2> QED BY <1>1, <2>1 DEF Consistent
<1>4. Apart(ds, a \cup {l})
  <2> SUFFICES ASSUME NEW c \in cs, l \notin c, NEW k \in c
               PROVE  k \notin a \cup {l} /\ -k \notin a \cup {l}
    BY DEF Apart
  <2>1. k \in Lits /\ -(-k) = k /\ k \notin a /\ -k \notin a /\ k # l /\ k # -l
    BY <1>1, Negation DEF Cnfs, Apart
  <2> QED BY <1>1, <2>1
<1>5. Enough(ds, a \cup {l}, all)
  <2> SUFFICES ASSUME NEW v \in SUBSET Lits, Valuation(v), a \cup {l} \subseteq v, Satisfies(v, ds)
               PROVE  Satisfies(v, all)
    BY DEF Enough
  <2>1. Satisfies(v, cs)
    BY DEF Satisfies
  <2> QED BY <2>1 DEF Enough
<1>6. Satisfiable(cs) => Satisfiable(ds)
  BY DEF Satisfiable, Satisfies
<1> QED BY <1>1, <1>2, <1>3, <1>4, <1>5, <1>6

\* A split: every valuation that satisfies the clauses satisfies one side.
LEMMA SplitFrame ==
  ASSUME NEW cs \in Cnfs, NEW a \in SUBSET Lits, NEW all, NEW d \in cs, NEW l \in d,
         Apart(cs, a), Enough(cs, a, all)
  PROVE  /\ WithUnit(cs, l) \in Cnfs /\ Apart(WithUnit(cs, l), a)
         /\ Enough(WithUnit(cs, l), a, all)
         /\ WithUnit(cs, -l) \in Cnfs /\ Apart(WithUnit(cs, -l), a)
         /\ Enough(WithUnit(cs, -l), a, all)
         /\ Satisfiable(cs) => Satisfiable(WithUnit(cs, l)) \/ Satisfiable(WithUnit(cs, -l))
<1> DEFINE yes == WithUnit(cs, l)
           no == WithUnit(cs, -l)
<1> USE DEF WithUnit
<1>1. l \in Lits /\ l \notin a /\ -l \notin a /\ -l \in Lits /\ l # -l /\ -(-l) = l
  <2>1. l \in Lits /\ l \notin a /\ -l \notin a
    BY DEF Cnfs, Apart
  <2> QED BY <2>1, Negation
<1>2. yes \in Cnfs /\ no \in Cnfs
  BY <1>1 DEF Cnfs
<1>3. Apart(yes, a) /\ Apart(no, a)
  BY <1>1 DEF Apart
<1>4. Enough(yes, a, all) /\ Enough(no, a, all)
  BY DEF Enough, Satisfies
<1>5. ASSUME NEW v \in SUBSET Lits, Valuation(v), Satisfies(v, cs)
      PROVE  Satisfies(v, yes) \/ Satisfies(v, no)
  <2>1. l \in v \/ -l \in v
    BY <1>1, <1>5 DEF Valuation
  <2> QED BY <1>5, <2>1 DEF Satisfies
<1>6. Satisfiable(cs) => Satisfiable(yes) \/ Satisfiable(no)
  BY <1>5 DEF Satisfiable
<1> QED BY <1>2, <1>3, <1>4, <1>6

\* A frame without clauses: its assignment, with any literals that do not
\* contradict it, is part of a valuation that satisfies all of the clauses.
LEMMA ModelFrame ==
  ASSUME NEW a \in SUBSET Lits, NEW all, Consistent(a), Enough({}, a, all),
         NEW m \in SUBSET Lits, Consistent(m), m = Symbolic(m),
         \A l \in m : -l \notin Symbolic(a)
  PROVE  \E v \in SUBSET Lits : Valuation(v) /\ m \subseteq v /\ a \subseteq v /\ Satisfies(v, all)
<1>1. Consistent(a \cup m)
  <2> SUFFICES ASSUME NEW k \in a \cup m, -k \in a \cup m PROVE FALSE
    BY DEF Consistent
  <2>1. k \in Lits /\ -(-k) = k /\ Magnitude(-k) = Magnitude(k)
    BY Negation
  <2>2. CASE k \in m /\ -k \in a
    <3>1. Magnitude(-k) \in Relevant
      BY <2>1, <2>2 DEF Symbolic
    <3> QED BY <2>2, <3>1 DEF Symbolic
  <2>3. CASE k \in a /\ -k \in m
    <3>1. Magnitude(k) \in Relevant
      BY <2>1, <2>3 DEF Symbolic
    <3>2. k \in Symbolic(a) /\ -(-k) \notin Symbolic(a)
      BY <2>3, <3>1 DEF Symbolic
    <3> QED BY <2>1, <3>2
  <2> QED BY <2>1, <2>2, <2>3 DEF Consistent
<1>2. PICK v \in SUBSET Lits : Valuation(v) /\ a \cup m \subseteq v
  BY <1>1, Completion
<1>3. Satisfies(v, {})
  BY DEF Satisfies
<1>4. Satisfies(v, all)
  BY <1>2, <1>3 DEF Enough
<1> QED BY <1>2, <1>4

-----------------------------------------------------------------------------
(* The steps.                                                              *)

\* At the start nothing is asked and nothing is found.
LEMMA SearchInitIInv == SearchInit => SearchIInv
<1> SUFFICES ASSUME SearchInit PROVE SearchIInv
  OBVIOUS
<1> USE DEF SearchInit
<1>0. Len(models) = 0 /\ Len(search) = 0 /\ 1..0 = {}
  OBVIOUS
<1>1. SearchTypes
  BY DEF SearchTypes, Cnfs
<1>2. ModelsOK /\ ModelsSatisfy
  BY <1>0 DEF ModelsOK, ModelsSatisfy
<1>3. BlockedOK
  BY <1>0 DEF BlockedOK
<1>4. FramesOK /\ Alive
  BY <1>0 DEF FramesOK, Held, Alive
<1>5. ModelsDisjoint
  BY DEF ModelsDisjoint
<1> QED BY <1>1, <1>2, <1>3, <1>4, <1>5 DEF SearchIInv

\* A search begins.
LEMMA BeginStep ==
  ASSUME SearchIInv, NEW cs \in SUBSET SUBSET Lits, Begin(cs)
  PROVE  SearchIInv'
<1> DEFINE f == Frame(cs, {})
<1>0. /\ verdict = "idle" /\ verdict' = "searching" /\ cnf' = cs /\ clauses' = cs
      /\ search' = <<f>> /\ models = <<>> /\ models' = <<>>
  BY DEF Begin, SearchIInv, SearchTypes
<1>1. f \in Frames /\ f.clauses = cs /\ f.assigned = {}
  BY FrameParts DEF Cnfs
<1> HIDE DEF f
<1>2. Held(search') = {f} /\ search' \in Seq(Frames)
  <2>1. Len(<<f>>) = 1 /\ <<f>>[1] = f /\ <<f>> \in Seq(Frames) /\ 1..1 = {1}
    BY <1>1
  <2> QED BY <1>0, <2>1 DEF Held
<1>3. FrameOK(f, cs)
  BY <1>1 DEF FrameOK, Consistent, Apart, Enough
<1>4. Len(models') = 0 /\ 1..0 = {}
  BY <1>0
<1>5. SearchTypes'
  BY <1>0, <1>2 DEF SearchTypes, Cnfs
<1>6. ModelsOK' /\ ModelsSatisfy' /\ BlockedOK'
  BY <1>0, <1>4 DEF ModelsOK, ModelsSatisfy, BlockedOK
<1>7. FramesOK'
  BY <1>0, <1>2, <1>3 DEF FramesOK
<1>8. Alive'
  BY <1>0, <1>1, <1>2 DEF Alive
<1>9. ModelsDisjoint'
  BY <1>0 DEF ModelsDisjoint
<1> QED BY <1>5, <1>6, <1>7, <1>8, <1>9 DEF SearchIInv

\* The top frame is replaced by new ones, as good as it is.
Replaces(new) ==
  /\ verdict = "searching" /\ search # <<>> /\ UNCHANGED <<cnf, clauses, models, verdict>>
  /\ search' \in Seq(Frames) /\ Held(search') = new \cup Held(Tail(search))
  /\ \A f \in new : FrameOK(f, clauses)
  /\ Satisfiable(Top.clauses) => \E f \in new : Satisfiable(f.clauses)

\* That keeps the invariant.
LEMMA StackStep ==
  ASSUME SearchIInv, NEW STATE new, Replaces(new)
  PROVE  SearchIInv'
<1> USE DEF Replaces
<1>0. search \in Seq(Frames)
  BY DEF SearchIInv, SearchTypes
<1>1. Held(search) = {Top} \cup Held(Tail(search))
  <2>1. PICK f : f \in Frames
    BY <1>0
  <2> QED BY <1>0, <2>1, StackHeld DEF Top
<1>2. SearchTypes' /\ ModelsOK' /\ BlockedOK' /\ ModelsSatisfy' /\ ModelsDisjoint'
  <2>1. SearchTypes'
    BY DEF SearchIInv, SearchTypes
  <2>2. ModelsOK' /\ BlockedOK'
    BY DEF SearchIInv, ModelsOK, BlockedOK
  <2>3. ModelsSatisfy' /\ ModelsDisjoint'
    BY DEF SearchIInv, ModelsSatisfy, ModelsDisjoint
  <2> QED BY <2>1, <2>2, <2>3
<1>3. FramesOK'
  BY <1>1 DEF SearchIInv, FramesOK
<1>4. Alive'
  BY <1>1 DEF SearchIInv, Alive
<1> QED BY <1>2, <1>3, <1>4 DEF SearchIInv

\* The frame at the top.
LEMMA TopOK ==
  ASSUME SearchIInv, Solving
  PROVE  /\ verdict = "searching" /\ search # <<>> /\ search \in Seq(Frames)
         /\ Top \in Frames /\ FrameOK(Top, clauses)
         /\ Top.clauses \in Cnfs /\ Top.assigned \in SUBSET Lits
         /\ Consistent(Top.assigned) /\ Apart(Top.clauses, Top.assigned)
         /\ Enough(Top.clauses, Top.assigned, clauses)
<1>0. verdict = "searching" /\ search # <<>> /\ search \in Seq(Frames)
  BY DEF SearchIInv, SearchTypes, Solving
<1>1. Top \in Frames /\ Top \in Held(search)
  <2>1. Top \in Frames /\ Top = search[1] /\ 1 \in 1..Len(search)
    BY <1>0 DEF Top
  <2> QED BY <2>1 DEF Held
<1>2. FrameOK(Top, clauses)
  BY <1>1 DEF SearchIInv, FramesOK
<1> QED BY <1>0, <1>1, <1>2 DEF FrameOK, Frames

\* A branch is given up: its clauses cannot be satisfied.
LEMMA GiveUpStep ==
  ASSUME SearchIInv, GiveUpBranch
  PROVE  SearchIInv'
<1>0. Solving /\ {} \in Top.clauses /\ search' = Tail(search)
      /\ UNCHANGED <<cnf, clauses, models, verdict>>
  BY DEF GiveUpBranch, HasEmpty
<1>1. verdict = "searching" /\ search # <<>> /\ search \in Seq(Frames) /\ Top \in Frames
  BY <1>0, TopOK
<1>2. search' \in Seq(Frames)
  BY <1>0, <1>1
<1>3. ~Satisfiable(Top.clauses)
  BY <1>0 DEF Satisfiable, Satisfies
<1>4. Held(search') = {} \cup Held(Tail(search))
  BY <1>0
<1>5. Replaces({})
  BY <1>0, <1>1, <1>2, <1>3, <1>4 DEF Replaces
<1> QED BY <1>5, StackStep

\* A unit is propagated.
LEMMA PropagateStep ==
  ASSUME SearchIInv, PropagateUnit
  PROVE  SearchIInv'
<1> DEFINE l == FirstUnit(Top.clauses)
           ds == DropUnit(Top.clauses, l)
           b == Top.assigned \cup {l}
           f == Frame(ds, b)
<1>0. Solving /\ Units(Top.clauses) # {} /\ search' = <<f>> \o Tail(search)
      /\ UNCHANGED <<cnf, clauses, models, verdict>>
  BY DEF PropagateUnit
<1>1. {l} \in Top.clauses
  BY <1>0 DEF FirstUnit, Units
<1> HIDE DEF l
<1>2. /\ verdict = "searching" /\ search # <<>> /\ search \in Seq(Frames)
      /\ Top.clauses \in Cnfs /\ Top.assigned \in SUBSET Lits
      /\ Consistent(Top.assigned) /\ Apart(Top.clauses, Top.assigned)
      /\ Enough(Top.clauses, Top.assigned, clauses)
  BY <1>0, TopOK
<1>3. /\ l \in Lits /\ ds \in Cnfs /\ Consistent(b) /\ Apart(ds, b) /\ Enough(ds, b, clauses)
      /\ Satisfiable(Top.clauses) => Satisfiable(ds)
  BY <1>1, <1>2, UnitFrame
<1>4. b \in SUBSET Lits
  BY <1>2, <1>3
<1> HIDE DEF ds, b
<1>5. f \in Frames /\ f.clauses = ds /\ f.assigned = b
  BY <1>3, <1>4, FrameParts
<1> HIDE DEF f
<1>6. FrameOK(f, clauses)
  BY <1>3, <1>5 DEF FrameOK
<1>7. search' \in Seq(Frames) /\ Held(search') = {f} \cup Held(Tail(search))
  BY <1>0, <1>2, <1>5, StackHeld
<1>8. Replaces({f})
  BY <1>0, <1>2, <1>3, <1>5, <1>6, <1>7 DEF Replaces
<1> QED BY <1>8, StackStep

\* A pure literal is assigned.
LEMMA PureStep ==
  ASSUME SearchIInv, AssignPure
  PROVE  SearchIInv'
<1>0. Solving /\ UNCHANGED <<cnf, clauses, models, verdict>>
  BY DEF AssignPure
<1>1. PICK l \in PureLiterals(Top.clauses) :
        search' = <<Frame(Open(Top.clauses, l), Top.assigned \cup {l})>> \o Tail(search)
  BY DEF AssignPure
<1> DEFINE ds == Open(Top.clauses, l)
           b == Top.assigned \cup {l}
           f == Frame(ds, b)
<1>2. /\ verdict = "searching" /\ search # <<>> /\ search \in Seq(Frames)
      /\ Top.clauses \in Cnfs /\ Top.assigned \in SUBSET Lits
      /\ Consistent(Top.assigned) /\ Apart(Top.clauses, Top.assigned)
      /\ Enough(Top.clauses, Top.assigned, clauses)
  BY <1>0, TopOK
<1>3. /\ l \in Lits /\ ds \in Cnfs /\ Consistent(b) /\ Apart(ds, b) /\ Enough(ds, b, clauses)
      /\ Satisfiable(Top.clauses) => Satisfiable(ds)
  BY <1>1, <1>2, PureFrame
<1>4. b \in SUBSET Lits
  BY <1>2, <1>3
<1>8. search' = <<f>> \o Tail(search)
  BY <1>1
<1> HIDE DEF ds, b
<1>5. f \in Frames /\ f.clauses = ds /\ f.assigned = b
  BY <1>3, <1>4, FrameParts
<1> HIDE DEF f
<1>6. FrameOK(f, clauses)
  BY <1>3, <1>5 DEF FrameOK
<1>7. search' \in Seq(Frames) /\ Held(search') = {f} \cup Held(Tail(search))
  BY <1>2, <1>5, <1>8, StackHeld
<1>9. Replaces({f})
  BY <1>0, <1>2, <1>3, <1>5, <1>6, <1>7 DEF Replaces
<1> QED BY <1>9, StackStep

\* Both values of a literal are tried.
LEMMA BranchStep ==
  ASSUME SearchIInv, Branch
  PROVE  SearchIInv'
<1>0. Solving /\ Top.clauses # {} /\ UNCHANGED <<cnf, clauses, models, verdict>>
  BY DEF Branch
<1>1. PICK l \in FirstClause(Top.clauses) : search' = Split(l) \o Tail(search)
  BY DEF Branch
<1> DEFINE d == FirstClause(Top.clauses)
           a == Top.assigned
           yes == WithUnit(Top.clauses, l)
           no == WithUnit(Top.clauses, -l)
           f == Frame(yes, a)
           g == Frame(no, a)
<1>2. d \in Top.clauses /\ l \in d
  BY <1>0, <1>1 DEF FirstClause
<1>3. search' = <<f, g>> \o Tail(search)
  BY <1>1 DEF Split
<1>4. /\ verdict = "searching" /\ search # <<>> /\ search \in Seq(Frames)
      /\ Top.clauses \in Cnfs /\ a \in SUBSET Lits
      /\ Consistent(a) /\ Apart(Top.clauses, a) /\ Enough(Top.clauses, a, clauses)
  BY <1>0, TopOK
<1> HIDE DEF d, a
<1>5. /\ yes \in Cnfs /\ Apart(yes, a) /\ Enough(yes, a, clauses)
      /\ no \in Cnfs /\ Apart(no, a) /\ Enough(no, a, clauses)
      /\ Satisfiable(Top.clauses) => Satisfiable(yes) \/ Satisfiable(no)
  BY <1>2, <1>4, SplitFrame
<1> HIDE DEF yes, no
<1>6. /\ f \in Frames /\ f.clauses = yes /\ f.assigned = a
      /\ g \in Frames /\ g.clauses = no /\ g.assigned = a
  BY <1>4, <1>5, FrameParts
<1> HIDE DEF f, g
<1>7. FrameOK(f, clauses) /\ FrameOK(g, clauses)
  BY <1>4, <1>5, <1>6 DEF FrameOK
<1>8. search' \in Seq(Frames) /\ Held(search') = {f, g} \cup Held(Tail(search))
  <2>1. /\ <<f, g>> \o Tail(search) \in Seq(Frames)
        /\ Held(<<f, g>> \o Tail(search)) = {f, g} \cup Held(Tail(search))
    <3> DEFINE t == Tail(search)
    <3>1. t \in Seq(Frames)
      BY <1>4
    <3> HIDE DEF t
    <3>2. <<f, g>> \o t \in Seq(Frames) /\ Held(<<f, g>> \o t) = {f, g} \cup Held(t)
      BY <1>6, <3>1, StackTwo
    <3> QED BY <3>2 DEF t
  <2> QED BY <1>3, <2>1
<1>9. /\ \A h \in {f, g} : FrameOK(h, clauses)
      /\ Satisfiable(Top.clauses) => \E h \in {f, g} : Satisfiable(h.clauses)
  BY <1>5, <1>6, <1>7
<1>10. Replaces({f, g})
  BY <1>0, <1>4, <1>8, <1>9 DEF Replaces
<1> QED BY <1>10, StackStep

\* A model that is found contradicts each one found before.
LEMMA NewModel ==
  ASSUME SearchIInv, Solving, Top.clauses = {}, NEW i \in 1..Len(models)
  PROVE  \E l \in models[i] : l \in Lits /\ -l \in Symbolic(Top.assigned)
<1> DEFINE a == Top.assigned
           m == models[i]
<1>1. /\ a \in SUBSET Lits /\ Consistent(a) /\ Enough({}, a, clauses)
  BY TopOK
<1>2. m \in SUBSET Lits /\ Consistent(m) /\ m = Symbolic(m) /\ Negated(m) \in clauses
  BY DEF SearchIInv, SearchTypes, ModelsOK, BlockedOK
<1> HIDE DEF a, m
<1> SUFFICES ASSUME \A l \in m : -l \notin Symbolic(a) PROVE FALSE
  BY <1>2 DEF a, m
<1>3. PICK v \in SUBSET Lits : Valuation(v) /\ m \subseteq v /\ Satisfies(v, clauses)
  BY <1>1, <1>2, ModelFrame
<1>4. PICK k \in Negated(m) : k \in v
  BY <1>2, <1>3 DEF Satisfies
<1>5. PICK l \in m : k = -l
  BY <1>4 DEF Negated
<1>6. l \in Lits /\ l \in v /\ -l \in v
  BY <1>2, <1>3, <1>4, <1>5
<1> QED BY <1>3, <1>6 DEF Valuation

\* A model is recorded and blocked.
LEMMA FindStep ==
  ASSUME SearchIInv, FindModel
  PROVE  SearchIInv'
<1> DEFINE a == Top.assigned
           m == Symbolic(a)
           n == Len(models)
           f == Frame(clauses', {})
<1>1. /\ Solving /\ Top.clauses = {} /\ cnf' = cnf
      /\ models' = Append(models, m) /\ clauses' = clauses \cup {Block(a)}
      /\ \/ search' = <<>> /\ verdict' = "budget"
         \/ search' = <<f>> /\ verdict' = verdict
  BY DEF FindModel
<1>2. /\ verdict = "searching" /\ a \in SUBSET Lits /\ Consistent(a) /\ Enough({}, a, clauses)
  BY <1>1, TopOK
<1>3. /\ cnf \in Cnfs /\ clauses \in Cnfs /\ models \in Seq(SUBSET Lits) /\ n \in Nat
  BY DEF SearchIInv, SearchTypes
<1>4. \A i \in 1..n : \E l \in models[i] : l \in Lits /\ -l \in m
  BY <1>1, NewModel
<1> HIDE DEF a
<1>5. m \in SUBSET Lits /\ Consistent(m) /\ Symbolic(m) = m /\ Block(a) = Negated(m)
  BY <1>2 DEF Symbolic, Consistent, Block, Negated
<1> HIDE DEF m
<1>6. /\ models' \in Seq(SUBSET Lits) /\ Len(models') = n + 1 /\ models'[n + 1] = m
      /\ \A i \in 1..n : models'[i] = models[i]
  BY <1>1, <1>3, <1>5
<1>7. Negated(m) \in SUBSET Lits
  BY <1>5, Negation DEF Negated
<1>8. clauses' \in Cnfs
  BY <1>1, <1>3, <1>5, <1>7 DEF Cnfs
<1>9. f \in Frames /\ f.clauses = clauses' /\ f.assigned = {}
  BY <1>8, FrameParts
<1> HIDE DEF f
<1>10. /\ search' \in Seq(Frames)
       /\ \/ Held(search') = {} /\ verdict' = "budget"
          \/ Held(search') = {f} /\ verdict' = "searching"
  <2>1. Len(<<>>) = 0 /\ 1..0 = {} /\ Len(<<f>>) = 1 /\ <<f>>[1] = f /\ 1..1 = {1}
        /\ <<f>> \in Seq(Frames) /\ <<>> \in Seq(Frames)
    BY <1>9
  <2>2. CASE search' = <<>> /\ verdict' = "budget"
    BY <2>1, <2>2 DEF Held
  <2>3. CASE search' = <<f>> /\ verdict' = verdict
    BY <1>2, <2>1, <2>3 DEF Held
  <2> QED BY <1>1, <2>2, <2>3
<1>11. SearchTypes'
  BY <1>1, <1>3, <1>6, <1>8, <1>10 DEF SearchTypes
<1>12. \A i \in 1..(n + 1) : i = n + 1 \/ i \in 1..n
  BY <1>3
<1>13. ModelsOK'
  <2> SUFFICES ASSUME NEW i \in 1..(n + 1)
               PROVE  Consistent(models'[i]) /\ Symbolic(models'[i]) = models'[i]
    BY <1>6 DEF ModelsOK
  <2>1. CASE i = n + 1
    BY <1>5, <1>6, <2>1
  <2>2. CASE i \in 1..n
    <3>1. models'[i] = models[i] /\ Consistent(models[i]) /\ Symbolic(models[i]) = models[i]
      BY <1>6, <2>2 DEF SearchIInv, ModelsOK
    <3> QED BY <3>1
  <2> QED BY <1>12, <2>1, <2>2
<1>14. BlockedOK'
  <2> DEFINE was == {Negated(models[i]) : i \in 1..n}
             now == {Negated(models'[i]) : i \in 1..(n + 1)}
  <2>1. now = was \cup {Negated(m)}
    <3>1. now \subseteq was \cup {Negated(m)}
      BY <1>6, <1>12
    <3>2. was \subseteq now
      <4> SUFFICES ASSUME NEW i \in 1..n PROVE Negated(models[i]) \in now
        OBVIOUS
      <4>1. i \in 1..(n + 1) /\ models'[i] = models[i]
        BY <1>3, <1>6
      <4> QED BY <4>1
    <3>3. Negated(m) \in now
      <4>1. n + 1 \in 1..(n + 1) /\ models'[n + 1] = m
        BY <1>3, <1>6
      <4> QED BY <4>1
    <3> QED BY <3>1, <3>2, <3>3
  <2>2. clauses = cnf \cup was
    BY DEF SearchIInv, BlockedOK
  <2>3. clauses' = cnf' \cup now
    BY <1>1, <1>5, <2>1, <2>2
  <2> QED BY <1>6, <2>3 DEF BlockedOK
<1>15. FramesOK' /\ Alive'
  <2>1. FrameOK(f, clauses')
    BY <1>9 DEF FrameOK, Consistent, Apart, Enough
  <2> QED BY <1>9, <1>10, <2>1 DEF FramesOK, Alive
<1>16. ModelsSatisfy'
  <2> SUFFICES ASSUME NEW i \in 1..(n + 1), NEW w \in SUBSET Lits,
                      models'[i] \subseteq w, w = Symbolic(w), \A l \in w : -l \notin w
               PROVE  \E v \in SUBSET Lits : Valuation(v) /\ w \subseteq v /\ Satisfies(v, cnf)
    BY <1>1, <1>6 DEF ModelsSatisfy
  <2>1. CASE i = n + 1
    <3>1. m \subseteq w /\ Consistent(w) /\ \A l \in w : -l \notin m
      BY <1>6, <2>1 DEF Consistent
    <3>2. PICK v \in SUBSET Lits : Valuation(v) /\ w \subseteq v /\ Satisfies(v, clauses)
      BY <1>2, <3>1, ModelFrame DEF m
    <3>3. cnf \subseteq clauses
      BY DEF SearchIInv, BlockedOK
    <3> QED BY <3>2, <3>3 DEF Satisfies
  <2>2. CASE i \in 1..n
    <3>1. models[i] \subseteq w
      BY <1>6, <2>2
    <3> QED BY <2>2, <3>1 DEF SearchIInv, ModelsSatisfy
  <2> QED BY <1>12, <2>1, <2>2
<1>17. ModelsDisjoint'
  <2> SUFFICES ASSUME NEW i \in 1..(n + 1), NEW j \in 1..(n + 1), i # j
               PROVE  \E l \in models'[i] : -l \in models'[j]
    <3>1. DOMAIN models' = 1..(n + 1)
      BY <1>6
    <3> QED BY <3>1 DEF ModelsDisjoint
  <2>1. CASE j = n + 1
    <3>1. i \in 1..n
      BY <1>12, <2>1
    <3> QED BY <1>4, <1>6, <2>1, <3>1
  <2>2. CASE i = n + 1
    <3>1. j \in 1..n
      BY <1>12, <2>2
    <3>2. PICK k \in models[j] : k \in Lits /\ -k \in m
      BY <1>4, <3>1
    <3>3. -(-k) = k
      BY <3>2, Negation
    <3>4. -k \in models'[i] /\ -(-k) \in models'[j]
      BY <1>6, <2>2, <3>1, <3>2, <3>3
    <3> QED BY <3>4
  <2>3. CASE i \in 1..n /\ j \in 1..n
    <3>1. i \in DOMAIN models /\ j \in DOMAIN models
      BY <1>3, <2>3
    <3>2. \E l \in models[i] : -l \in models[j]
      BY <3>1 DEF SearchIInv, ModelsDisjoint
    <3> QED BY <1>6, <2>3, <3>2
  <2> QED BY <1>12, <2>1, <2>2, <2>3
<1> QED BY <1>11, <1>13, <1>14, <1>15, <1>16, <1>17 DEF SearchIInv

\* The stack is empty: the clauses cannot be satisfied.
LEMMA NoOtherStep ==
  ASSUME SearchIInv, NoOtherModel
  PROVE  SearchIInv'
<1>1. /\ verdict = "searching" /\ search = <<>> /\ verdict' = "all"
      /\ UNCHANGED <<cnf, clauses, search, models>>
  BY DEF NoOtherModel
<1>2. Held(search) = {}
  <2>1. Len(search) = 0 /\ 1..0 = {}
    BY <1>1
  <2> QED BY <2>1 DEF Held
<1>3. SearchTypes' /\ ModelsOK' /\ BlockedOK'
  BY <1>1 DEF SearchIInv, SearchTypes, ModelsOK, BlockedOK
<1>4. ModelsSatisfy' /\ ModelsDisjoint'
  BY <1>1 DEF SearchIInv, ModelsSatisfy, ModelsDisjoint
<1>5. FramesOK'
  BY <1>1 DEF SearchIInv, FramesOK
<1>6. Alive'
  BY <1>1, <1>2 DEF SearchIInv, Alive
<1> QED BY <1>3, <1>4, <1>5, <1>6 DEF SearchIInv

\* The invariant holds of every search.
LEMMA SearchInvariant == SearchSpec => []SearchIInv
<1>1. SearchIInv /\ [(\E cs \in SUBSET SUBSET Lits : Begin(cs)) \/ SearchStep]_searchVars
        => SearchIInv'
  <2> SUFFICES ASSUME SearchIInv,
                      [(\E cs \in SUBSET SUBSET Lits : Begin(cs)) \/ SearchStep]_searchVars
               PROVE  SearchIInv'
    OBVIOUS
  <2>1. CASE \E cs \in SUBSET SUBSET Lits : Begin(cs)
    BY <2>1, BeginStep
  <2>2. CASE SearchStep
    BY <2>2, GiveUpStep, PropagateStep, PureStep, BranchStep, FindStep, NoOtherStep DEF SearchStep
  <2>3. CASE UNCHANGED searchVars
    BY <2>3 DEF searchVars, SearchIInv, SearchTypes, ModelsOK, BlockedOK, FramesOK, Alive,
                ModelsSatisfy, ModelsDisjoint
  <2> QED BY <2>1, <2>2, <2>3
<1> QED BY <1>1, SearchInitIInv, PTL DEF SearchSpec

\* find_all_models, given any clauses: each model that it lists is one,
\* whatever the symbols are that it leaves unassigned, and no two of them are
\* the same counterexample.
THEOREM ModelsAreModels == SearchSpec => [](ModelsSatisfy /\ ModelsDisjoint)
<1>1. SearchIInv => ModelsSatisfy /\ ModelsDisjoint
  BY DEF SearchIInv
<1> QED BY <1>1, SearchInvariant, PTL

\* find_all_models, given any clauses: when find_tseitin_model returns None, the
\* models listed are all there are, unit propagation, pure literals and blocking
\* notwithstanding; a match without a counterexample is exhaustive.
THEOREM NoModelMissed == SearchSpec => []ModelsCover
<1>1. SearchIInv => ModelsCover
  <2> SUFFICES ASSUME SearchIInv, verdict = "all",
                      NEW v \in SUBSET Lits, Valuation(v), Satisfies(v, cnf)
               PROVE  \E i \in 1..Len(models) : models[i] \subseteq v
    BY DEF ModelsCover
  <2>1. ~Satisfies(v, clauses)
    BY DEF SearchIInv, Alive, Satisfiable
  <2>2. PICK i \in 1..Len(models) : Negated(models[i]) \cap v = {}
    BY <2>1 DEF SearchIInv, BlockedOK, Satisfies
  <2>3. models[i] \subseteq Lits
    BY DEF SearchIInv, SearchTypes
  <2>4. ASSUME NEW l \in models[i] PROVE l \in v
    <3>1. l \in Lits /\ -l \in Negated(models[i])
      BY <2>3 DEF Negated
    <3>2. -l \notin v
      BY <2>2, <3>1
    <3> QED BY <3>1, <3>2 DEF Valuation
  <2> QED BY <2>4
<1> QED BY <1>1, SearchInvariant, PTL

-----------------------------------------------------------------------------
(* The captures of lifted methods.                                         *)

USE LiftCapturesConstants

\* Types.
LiftTypes ==
  /\ nesting \in [LocalMethods -> Locals] /\ callees \in [LocalMethods -> SUBSET LocalMethods]
  /\ capMap \in [LocalMethods -> Seq(Locals)]
  /\ at \in 1..(Lifted + 1) /\ grown \in BOOLEAN
  /\ lifting \in {"read", "close", "rewrite"}

\* Methods are taken out inner ones first.
InnerFirst == \A m \in LocalMethods : nesting[m] = Around \/ nesting[m] > m

\* A method that has not been read yet captures nothing.
Unread == lifting = "read" => \A m \in LocalMethods : m <= Lifted + 1 - at => capMap[m] = <<>>

\* Once the calls are known, each is one that the program may make.
CallsInScope == lifting # "read" => \A m \in LocalMethods : \A c \in callees[m] : Names(m, c)

\* Each capture is there once.
Once(s) == \A i, j \in DOMAIN s : s[i] = s[j] => i = j
CapturedOnce == \A m \in LocalMethods : Once(capMap[m])

\* The calls of one method are served.
Served(m) == \A c \in callees[m] : Elements(capMap[c]) \subseteq Elements(capMap[m]) \cup Bound(m)

\* While a round adds nothing, what it has passed is served.
RoundServed ==
  /\ lifting = "close" => at <= Lifted
  /\ lifting = "close" /\ (at = 1 \/ ~grown) => \A m \in 1..(at - 1) : Served(m)

\* The inductive invariant.
LiftIInv ==
  LiftTypes /\ InnerFirst /\ Unread /\ CallsInScope /\ CapturedOnce /\ RoundServed
    /\ CallsServed /\ CapturesInScope

-----------------------------------------------------------------------------
\* The elements of two sequences of locals, one after the other.
LEMMA CapturesConcat ==
  ASSUME NEW s \in Seq(Locals), NEW t \in Seq(Locals)
  PROVE  Elements(s \o t) \subseteq Elements(s) \cup Elements(t)
BY DEF Elements

\* Without a common element, two sequences that repeat nothing give a third.
LEMMA OnceConcat ==
  ASSUME NEW s \in Seq(Locals), NEW t \in Seq(Locals), Once(s), Once(t),
         \A v \in Elements(t) : v \notin Elements(s)
  PROVE  Once(s \o t)
<1> SUFFICES ASSUME NEW i \in DOMAIN (s \o t), NEW j \in DOMAIN (s \o t),
                    (s \o t)[i] = (s \o t)[j]
             PROVE  i = j
  BY DEF Once
<1> DEFINE n == Len(s)
<1>1. n \in Nat /\ i \in 1..(n + Len(t)) /\ j \in 1..(n + Len(t)) /\ Len(t) \in Nat
  OBVIOUS
<1>2. \A k \in 1..(n + Len(t)) :
        (s \o t)[k] = IF k <= n THEN s[k] ELSE t[k - n]
  OBVIOUS
<1>3. \A k \in 1..n : s[k] \in Elements(s)
  BY DEF Elements
<1>4. \A k \in (n + 1)..(n + Len(t)) : k - n \in DOMAIN t /\ t[k - n] \in Elements(t)
  BY DEF Elements
<1>5. CASE i <= n /\ j <= n
  BY <1>1, <1>2, <1>5 DEF Once
<1>6. CASE i > n /\ j > n
  <2>1. i - n \in DOMAIN t /\ j - n \in DOMAIN t /\ t[i - n] = t[j - n]
    BY <1>1, <1>2, <1>4, <1>6
  <2>2. i - n = j - n
    BY <2>1 DEF Once
  <2> QED BY <1>1, <2>2
<1>7. CASE i <= n /\ j > n
  BY <1>1, <1>2, <1>3, <1>4, <1>7
<1>8. CASE i > n /\ j <= n
  BY <1>1, <1>2, <1>3, <1>4, <1>8
<1> QED
  BY <1>1, <1>5, <1>6, <1>7, <1>8

\* Sets of locals are finite.
LEMMA LocalsFinite ==
  ASSUME NEW S \in SUBSET Locals
  PROVE  IsFiniteSet(S) /\ Cardinality(S) \in Nat
<1>1. IsFiniteSet(0..Lifted)
  BY FS_Interval
<1> QED
  BY <1>1, FS_Subset, FS_CardinalityType DEF Locals

\* A list of a set of locals has its elements from there, each once, and is
\* empty only if the set is.
LEMMA OrdersOf ==
  ASSUME NEW S \in SUBSET Locals, NEW s \in Orders(S)
  PROVE  /\ s \in Seq(Locals) /\ Elements(s) \subseteq S /\ Once(s)
         /\ s = <<>> => S = {}
<1>1. IsFiniteSet(S) /\ Cardinality(S) \in Nat
  BY LocalsFinite
<1>2. s \in [1..Cardinality(S) -> S] /\ Once(s)
  BY DEF Orders, Once
<1>3. s \in Seq(Locals) /\ Len(s) = Cardinality(S)
  BY <1>1, <1>2
<1>4. Elements(s) \subseteq S
  BY <1>2 DEF Elements
<1>5. s = <<>> => S = {}
  BY <1>1, <1>3, FS_EmptySet
<1> QED
  BY <1>2, <1>3, <1>4, <1>5

\* What encloses a method that m may name encloses m or is m.
LEMMA NamedFromInside ==
  ASSUME nesting \in [LocalMethods -> Locals],
         NEW m \in LocalMethods, NEW c \in LocalMethods, Names(m, c)
  PROVE  Enclosing(c) \subseteq Enclosing(m) \cup {m}
<1> SUFFICES ASSUME NEW v \in Enclosing(c), v # m, NEW S \in SUBSET Locals,
                    {Around, nesting[m]} \subseteq S, Outward(S)
             PROVE  v \in S
  BY DEF Enclosing
<1> DEFINE T == S \cup {m}
<1>1. T \in SUBSET Locals /\ m \in Locals /\ m # Around
  BY DEF Locals, LocalMethods, Around
<1>2. {Around, nesting[c]} \subseteq T
  BY DEF Names, Enclosing
<1>3. Outward(T)
  BY DEF Outward
<1>4. v \in T
  BY <1>1, <1>2, <1>3 DEF Enclosing
<1> QED
  BY <1>4

-----------------------------------------------------------------------------
\* Before the template is read.
LEMMA LiftInitIInv == LiftInit => LiftIInv
<1> SUFFICES ASSUME LiftInit PROVE LiftIInv
  OBVIOUS
<1>1. LiftTypes
  <2>1. 0 \in Locals
    BY LiftCapturesConstants DEF Locals
  <2>2. at \in 1..(Lifted + 1)
    BY LiftCapturesConstants DEF LiftInit
  <2>3. capMap \in [LocalMethods -> Seq(Locals)]
    BY DEF LiftInit
  <2>4. grown \in BOOLEAN
    BY Zenon DEF LiftInit
  <2> QED BY <2>1, <2>2, <2>3, <2>4 DEF LiftInit, LiftTypes, Around
<1>2. InnerFirst /\ Unread /\ CallsInScope /\ RoundServed /\ CallsServed
  BY DEF LiftInit, InnerFirst, Unread, CallsInScope, RoundServed, CallsServed
<1>3. CapturedOnce /\ CapturesInScope
  BY DEF LiftInit, CapturedOnce, Once, CapturesInScope, Elements
<1> QED
  BY <1>1, <1>2, <1>3 DEF LiftIInv

\* Reading a method leaves what encloses the methods around it as it was.
LEMMA EnclosingKept ==
  ASSUME LiftTypes, InnerFirst, NEW m \in LocalMethods, NEW out \in Locals,
         nesting' = [nesting EXCEPT ![m] = out],
         NEW k \in LocalMethods, k > m
  PROVE  Enclosing(k) \subseteq Enclosing(k)'
<1> SUFFICES ASSUME NEW v \in Enclosing(k), NEW S \in SUBSET Locals,
                    {Around, nesting'[k]} \subseteq S,
                    \A x \in S \ {Around} : nesting'[x] \in S
             PROVE  v \in S
  BY DEF Enclosing, Outward
<1> DEFINE T == {x \in S : x = Around \/ x > m}
<1> USE DEF LiftTypes, InnerFirst, LocalMethods, Locals, Around
<1>1. T \in SUBSET Locals
  OBVIOUS
<1>2. nesting'[k] = nesting[k] /\ (nesting[k] = Around \/ nesting[k] > m)
  OBVIOUS
<1>3. {Around, nesting[k]} \subseteq T
  BY <1>2
<1>4. Outward(T)
  <2> SUFFICES ASSUME NEW x \in T \ {Around} PROVE nesting[x] \in T
    BY DEF Outward
  <2>1. x \in LocalMethods /\ x > m /\ nesting'[x] = nesting[x] /\ nesting[x] \in S
    OBVIOUS
  <2> QED BY <2>1
<1>5. v \in T
  BY <1>1, <1>3, <1>4 DEF Enclosing
<1> QED
  BY <1>5

\* A method is read: its captures are locals of the code around it.
LEMMA ReadMethodStep ==
  ASSUME LiftIInv, lifting = "read", at <= Lifted,
         NEW m, m = Lifted + 1 - at, NEW out \in {Around} \cup (m + 1)..Lifted,
         NEW seen, seen = {Around, out} \cup (IF out = Around THEN {} ELSE Enclosing(out)),
         NEW S \in SUBSET seen, NEW reads \in Orders(S), ReadMethod(m, out, reads)
  PROVE  LiftIInv'
<1> USE DEF LiftIInv
<1>1. m \in LocalMethods /\ out \in Locals /\ at \in Nat
  BY DEF LiftTypes, LocalMethods, Locals, Around
<1>2. seen \in SUBSET Locals
  BY <1>1 DEF Enclosing, Locals, Around
<1>3. reads \in Seq(Locals) /\ Elements(reads) \subseteq S /\ Once(reads)
  BY <1>2, OrdersOf
<1>4. LiftTypes'
  BY <1>1, <1>3 DEF LiftTypes, ReadMethod, LocalMethods, Locals
<1>5. InnerFirst'
  BY <1>1 DEF LiftTypes, InnerFirst, ReadMethod, LocalMethods, Around
<1>6. Unread'
  BY <1>1 DEF LiftTypes, Unread, ReadMethod, LocalMethods
<1>7. CallsInScope' /\ RoundServed' /\ CallsServed'
  BY DEF ReadMethod, CallsInScope, RoundServed, CallsServed
<1>8. CapturedOnce'
  BY <1>1, <1>3 DEF LiftTypes, ReadMethod, CapturedOnce
<1>9. CapturesInScope'
  <2> SUFFICES ASSUME NEW k \in LocalMethods, NEW v \in Elements(capMap'[k])
               PROVE  v \in Enclosing(k)'
    BY DEF CapturesInScope
  <2>1. nesting' = [nesting EXCEPT ![m] = out] /\ LiftTypes /\ InnerFirst
    BY DEF ReadMethod
  <2>2. CASE k = m
    <3>1. v \in seen
      BY <1>1, <1>3, <2>2 DEF ReadMethod, LiftTypes
    <3>2. nesting'[m] = out
      BY <1>1, <2>1 DEF LiftTypes
    <3>3. CASE v \in {Around, out}
      BY <1>1, <2>2, <3>2, <3>3 DEF Enclosing, Locals, Around
    <3>4. CASE out # Around /\ v \in Enclosing(out)
      <4>1. out \in LocalMethods /\ out > m
        BY <1>1, <3>4 DEF LocalMethods, Around
      <4>2. v \in Enclosing(out)'
        BY <1>1, <2>1, <3>4, <4>1, EnclosingKept
      <4> SUFFICES ASSUME NEW R \in SUBSET Locals, {Around, nesting'[m]} \subseteq R,
                          Outward(R)'
                   PROVE  v \in R
        BY <2>2, <4>2 DEF Enclosing
      <4>3. {Around, nesting'[out]} \subseteq R
        BY <3>2, <3>4 DEF Outward
      <4> QED BY <4>2, <4>3 DEF Enclosing
    <3> QED BY <3>1, <3>3, <3>4
  <2>3. CASE k < m
    <3>1. capMap'[k] = <<>>
      BY <1>1, <2>3 DEF ReadMethod, LiftTypes, Unread, LocalMethods
    <3> QED BY <3>1 DEF Elements
  <2>4. CASE k > m
    <3>1. v \in Enclosing(k)
      BY <1>1, <2>4 DEF ReadMethod, LiftTypes, CapturesInScope
    <3> QED BY <1>1, <2>1, <2>4, <3>1, EnclosingKept
  <2> QED BY <1>1, <2>2, <2>3, <2>4 DEF LocalMethods
<1> QED
  BY <1>4, <1>5, <1>6, <1>7, <1>8, <1>9

\* The calls are collected: a single method has none to others.
LEMMA CollectStep ==
  ASSUME LiftIInv, NEW calls \in SUBSET {p \in LocalMethods \X LocalMethods : Names(p[1], p[2])},
         CollectCallees(calls)
  PROVE  LiftIInv'
<1> USE DEF LiftIInv
<1>1. LiftTypes'
  BY DEF LiftTypes, CollectCallees
<1>2. InnerFirst' /\ Unread' /\ CapturedOnce' /\ CapturesInScope'
  BY DEF CollectCallees, InnerFirst, Unread, CapturedOnce, CapturesInScope, Enclosing, Outward
<1>3. \A m \in LocalMethods : \A c \in callees'[m] : c \in LocalMethods /\ Names(m, c)
  BY DEF CollectCallees
<1>4. CallsInScope'
  BY <1>3 DEF CollectCallees, CallsInScope, Names, Enclosing, Outward
<1>5. RoundServed'
  BY DEF CollectCallees, RoundServed
<1>6. CallsServed'
  BY <1>3 DEF CollectCallees, CallsServed, Names, LocalMethods
<1> QED
  BY <1>1, <1>2, <1>4, <1>5, <1>6

\* A method gets what its callees capture.
LEMMA CloseOverStep ==
  ASSUME LiftIInv, lifting = "close", NEW add \in Orders(Missing(at)), CloseOver(add)
  PROVE  LiftIInv'
<1> USE DEF LiftIInv
<1>1. at \in LocalMethods /\ at \in 1..Lifted
  BY DEF LiftTypes, RoundServed, LocalMethods
<1>2. \A c \in LocalMethods : Elements(capMap[c]) \subseteq Locals
  BY DEF LiftTypes, Elements
<1>3. Missing(at) \in SUBSET Locals
  BY <1>1, <1>2 DEF Missing, LiftTypes
<1>4. /\ add \in Seq(Locals) /\ Elements(add) \subseteq Missing(at) /\ Once(add)
      /\ add = <<>> => Missing(at) = {}
  BY <1>3, OrdersOf
<1>5. /\ capMap' = [capMap EXCEPT ![at] = capMap[at] \o add]
      /\ UNCHANGED <<nesting, callees>>
      /\ grown' = ((at > 1 /\ grown) \/ add # <<>>)
  BY DEF CloseOver, Extend, NoteChange
<1>6. capMap[at] \in Seq(Locals) /\ capMap[at] \o add \in Seq(Locals)
  BY <1>1, <1>4 DEF LiftTypes
<1>7. /\ at < Lifted => at' = at + 1 /\ lifting' = "close"
      /\ at >= Lifted => at' = 1 /\ lifting' = IF grown' THEN "close" ELSE "rewrite"
  BY <1>1 DEF CloseOver, NextMethod
<1>8. LiftTypes'
  BY <1>1, <1>5, <1>6, <1>7 DEF LiftTypes
<1>9. InnerFirst' /\ Unread'
  BY <1>1, <1>5, <1>7 DEF InnerFirst, Unread
<1>10. CallsInScope'
  BY <1>5 DEF CallsInScope, Names, Enclosing, Outward
<1>11. CapturedOnce'
  <2>1. Once(capMap[at] \o add)
    BY <1>1, <1>4, <1>6, OnceConcat DEF Missing, CapturedOnce
  <2> QED BY <1>1, <1>5, <2>1 DEF CapturedOnce, LiftTypes
<1>12. ~grown' => capMap' = capMap /\ Served(at) /\ (at = 1 \/ ~grown)
  <2> SUFFICES ASSUME ~grown'
               PROVE  capMap' = capMap /\ Served(at) /\ (at = 1 \/ ~grown)
    OBVIOUS
  <2>1. add = <<>> /\ ~(at > 1 /\ grown)
    BY ONLY <1>5, ~grown', Zenon
  <2>2. (at = 1 \/ ~grown) /\ capMap' = capMap
    BY <1>1, <1>5, <1>6, <2>1 DEF LiftTypes
  <2>3. Served(at)
    BY <1>4, <2>1 DEF Missing, Served, Bound
  <2> QED BY <2>1, <2>2, <2>3
<1>13. ~grown' => \A m \in 1..at : Served(m)'
  <2> SUFFICES ASSUME ~grown', NEW m \in 1..at PROVE Served(m)'
    OBVIOUS
  <2>1. Served(m)
    BY <1>1, <1>12 DEF RoundServed
  <2> QED BY <1>5, <1>12, <2>1 DEF Served, Bound
<1>14. RoundServed'
  BY <1>1, <1>7, <1>13 DEF RoundServed
<1>15. CallsServed'
  <2> SUFFICES ASSUME lifting' = "rewrite", NEW m \in LocalMethods, NEW c \in callees'[m]
               PROVE  Elements(capMap'[c]) \subseteq Elements(capMap'[m]) \cup Bound(m)
    BY DEF CallsServed, Bound
  <2>1. ~grown' /\ m \in 1..at
    BY <1>1, <1>7 DEF LocalMethods
  <2> QED BY <1>13, <2>1 DEF Served, Bound
<1>16. CapturesInScope'
  <2> SUFFICES ASSUME NEW m \in LocalMethods, NEW v \in Elements(capMap'[m])
               PROVE  v \in Enclosing(m)
    BY <1>5 DEF CapturesInScope, Enclosing, Outward
  <2>1. CASE m # at \/ v \in Elements(capMap[m])
    BY <1>1, <1>5, <2>1 DEF LiftTypes, CapturesInScope
  <2>2. CASE m = at /\ v \notin Elements(capMap[m])
    <3>1. v \in Missing(at)
      BY <1>1, <1>4, <1>5, <1>6, <2>2, CapturesConcat DEF LiftTypes
    <3>2. PICK c \in callees[at] : v \in Elements(capMap[c])
      BY <3>1 DEF Missing
    <3>3. c \in LocalMethods /\ Names(at, c) /\ v # at
      BY <1>1, <3>1, <3>2 DEF LiftTypes, CallsInScope, Missing, Bound
    <3>4. v \in Enclosing(c)
      BY <3>2, <3>3 DEF CapturesInScope
    <3> QED BY <1>1, <2>2, <3>3, <3>4, NamedFromInside DEF LiftTypes
  <2> QED BY <2>1, <2>2
<1> QED
  BY <1>8, <1>9, <1>10, <1>11, <1>14, <1>15, <1>16

-----------------------------------------------------------------------------
\* The invariant holds throughout.
THEOREM LiftInvariant == LiftSpec => []LiftIInv
<1>1. LiftIInv /\ [LiftNext]_liftVars => LiftIInv'
  <2> SUFFICES ASSUME LiftIInv, [LiftNext]_liftVars PROVE LiftIInv'
    OBVIOUS
  <2>1. CASE UNCHANGED liftVars
    BY <2>1 DEF liftVars, LiftIInv, LiftTypes, InnerFirst, Unread, CallsInScope, CapturedOnce,
                RoundServed, CallsServed, CapturesInScope, Names, Enclosing, Outward, Served, Bound
  <2>2. CASE LiftNext
    <3>1. CASE /\ lifting = "read" /\ at <= Lifted
               /\ LET m == Lifted + 1 - at IN
                  \E out \in {Around} \cup (m + 1)..Lifted :
                    LET seen == {Around, out} \cup (IF out = Around THEN {} ELSE Enclosing(out)) IN
                    \E reads \in UNION {Orders(S) : S \in SUBSET seen} : ReadMethod(m, out, reads)
      BY <3>1, ReadMethodStep
    <3>2. CASE /\ lifting = "read" /\ at > Lifted
               /\ \E calls \in SUBSET {p \in LocalMethods \X LocalMethods : Names(p[1], p[2])} :
                    Cardinality(calls) <= MaxCalls /\ CollectCallees(calls)
      BY <3>2, CollectStep
    <3>3. CASE lifting = "close" /\ \E add \in Orders(Missing(at)) : CloseOver(add)
      BY <3>3, CloseOverStep
    <3> QED BY <2>2, <3>1, <3>2, <3>3 DEF LiftNext
  <2> QED BY <2>1, <2>2
<1> QED
  BY LiftInitIInv, <1>1, PTL DEF LiftSpec

\* When calls are rewritten every caller has what it must pass, and what it
\* has is in scope where the method was (close_over_callees).
THEOREM CapturesClosed == LiftSpec => []CapturesRight
<1>1. LiftIInv => CapturesRight
  BY DEF LiftIInv, CapturesRight, CapturedOnce, Once
<1> QED
  BY LiftInvariant, <1>1, PTL
=============================================================================
