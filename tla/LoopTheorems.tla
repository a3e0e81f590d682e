---------------------------- MODULE LoopTheorems -----------------------------
(***************************************************************************)
(* Induction, and what a loop computes.  A predicate is a set here, and    *)
(* what is claimed of every number or sequence is that the set has it: if  *)
(* it did not, it would lack a least one.                                  *)
(***************************************************************************)
EXTENDS Loops, SequenceTheorems, WellFoundedInduction, TLAPS

\* A set of numbers that is not empty has a least one.
LEMMA LeastExists ==
  ASSUME NEW S \in SUBSET Nat, S # {}
  PROVE  \E i \in S : \A j \in S : i <= j
<1>1. PICK i \in S : \A j \in S : ~(<<j, i>> \in OpToRel(<, Nat))
  BY NatLessThanWellFounded, WFMin
<1>2. \A j \in S : ~(j < i)
  BY <1>1 DEF OpToRel
<1> QED
  BY <1>2

\* Induction up to n, with a set for the predicate.
LEMMA UpTo ==
  ASSUME NEW n \in Nat, NEW P, 0 \in P, \A i \in 0..n : i < n /\ i \in P => i + 1 \in P
  PROVE  0..n \subseteq P
<1> DEFINE bad == {i \in 0..n : i \notin P}
<1> SUFFICES ASSUME bad # {} PROVE FALSE
  OBVIOUS
<1>1. PICK i \in bad : \A j \in bad : i <= j
  <2>1. bad \in SUBSET Nat
    OBVIOUS
  <2> HIDE DEF bad
  <2> QED BY <2>1, LeastExists
<1>2. i # 0 /\ i - 1 \in 0..n /\ i - 1 < n
  OBVIOUS
<1>3. i - 1 \in P
  BY <1>1, <1>2
<1>4. (i - 1) + 1 \in P
  BY <1>2, <1>3
<1> QED BY <1>4

\* Induction on sequences.
LEMMA SeqInduction ==
  ASSUME NEW T, NEW P, <<>> \in P, \A s \in Seq(T), x \in T : s \in P => Append(s, x) \in P
  PROVE  Seq(T) \subseteq P
<1> DEFINE bad == {s \in Seq(T) : s \notin P}
           lens == {Len(s) : s \in bad}
<1> SUFFICES ASSUME bad # {} PROVE FALSE
  OBVIOUS
<1>1. PICK n \in lens : \A k \in lens : n <= k
  <2>1. lens \in SUBSET Nat /\ lens # {}
    OBVIOUS
  <2> HIDE DEF lens
  <2> QED BY <2>1, LeastExists
<1>2. PICK s \in bad : n = Len(s)
  OBVIOUS
<1>3. PICK t \in Seq(T), x \in T : s = Append(t, x)
  BY SequenceEmptyOrAppend
<1>4. Len(s) = Len(t) + 1 /\ Len(t) \in Nat
  BY <1>3, AppendProperties
<1>5. t \notin bad
  BY <1>1, <1>2, <1>4
<1>6. t \in P
  BY <1>5
<1> QED BY <1>2, <1>3, <1>6

\* The steps of a loop over elements of T.
Steps(S, T) == [S -> [T -> S]]

\* The function that a fold is the last value of.
Folding(f, S, step, start, src) ==
  /\ f \in [0..Len(src) -> S] /\ f[0] = start
  /\ \A i \in 1..Len(src) : f[i] = step[f[i - 1]][src[i]]

\* There is such a function.
LEMMA FoldingExists ==
  ASSUME NEW S, NEW T, NEW step \in Steps(S, T), NEW start \in S, NEW src \in Seq(T)
  PROVE  \E f : Folding(f, S, step, start, src)
<1> DEFINE n == Len(src)
           Some(k) == \E f \in [0..k -> S] :
                        f[0] = start /\ \A i \in 1..k : f[i] = step[f[i - 1]][src[i]]
           P == {k \in 0..n : Some(k)}
<1> USE DEF Steps
<1>1. Some(0)
  <2> DEFINE f == [i \in 0..0 |-> start]
  <2>1. f \in [0..0 -> S] /\ f[0] = start
    OBVIOUS
  <2>2. \A i \in 1..0 : f[i] = step[f[i - 1]][src[i]]
    OBVIOUS
  <2> HIDE DEF f
  <2> QED BY <2>1, <2>2
<1>2. ASSUME NEW k \in 0..n, k < n, Some(k) PROVE Some(k + 1)
  <2>1. PICK f \in [0..k -> S] : f[0] = start /\ \A i \in 1..k : f[i] = step[f[i - 1]][src[i]]
    BY <1>2
  <2> DEFINE g == [i \in 0..(k + 1) |-> IF i = k + 1 THEN step[f[k]][src[k + 1]] ELSE f[i]]
  <2>2. src[k + 1] \in T /\ f[k] \in S
    BY <1>2
  <2>3. step[f[k]][src[k + 1]] \in S
    BY <2>2
  <2>4. g \in [0..(k + 1) -> S] /\ g[0] = start
    BY <2>1, <2>3
  <2>5. ASSUME NEW i \in 1..(k + 1) PROVE g[i] = step[g[i - 1]][src[i]]
    <3>1. CASE i = k + 1
      <4>1. g[i - 1] = f[k] /\ g[i] = step[f[k]][src[k + 1]]
        BY <3>1
      <4> QED BY <3>1, <4>1
    <3>2. CASE i # k + 1
      <4>1. i \in 1..k /\ g[i] = f[i] /\ g[i - 1] = f[i - 1]
        BY <3>2
      <4> QED BY <2>1, <4>1
    <3> QED BY <3>1, <3>2
  <2> HIDE DEF g
  <2>6. \A i \in 1..(k + 1) : g[i] = step[g[i - 1]][src[i]]
    BY <2>5
  <2> QED BY <2>4, <2>6
<1>3. Some(n)
  <2>1. n \in Nat
    OBVIOUS
  <2> HIDE DEF Some, n
  <2>2. 0 \in P
    BY <1>1, <2>1
  <2>3. \A k \in 0..n : k < n /\ k \in P => k + 1 \in P
    BY <1>2, <2>1
  <2>4. 0..n \subseteq P
    <3> HIDE DEF P
    <3> QED BY <2>1, <2>2, <2>3, UpTo
  <2> QED BY <2>1, <2>4
<1> QED BY <1>3 DEF Folding

\* Fold is the last value of it.
LEMMA FoldIsLast ==
  ASSUME NEW S, NEW T, NEW step \in Steps(S, T), NEW start \in S, NEW src \in Seq(T)
  PROVE  \E f : Folding(f, S, step, start, src) /\ Fold(step, start, src) = f[Len(src)]
<1> DEFINE f == CHOOSE f : f = [i \in 0..Len(src) |->
                                  IF i = 0 THEN start ELSE step[f[i - 1]][src[i]]]
<1>1. PICK g : Folding(g, S, step, start, src)
  BY FoldingExists
<1>2. g = [i \in 0..Len(src) |-> IF i = 0 THEN start ELSE step[g[i - 1]][src[i]]]
  BY <1>1 DEF Folding
<1>3. f = [i \in 0..Len(src) |-> IF i = 0 THEN start ELSE step[f[i - 1]][src[i]]]
  BY <1>2
<1>4. Fold(step, start, src) = f[Len(src)]
  BY DEF Fold
<1> HIDE DEF f
<1>0. Len(src) \in Nat
  OBVIOUS
<1>5. f[0] = start /\ \A i \in 1..Len(src) : f[i] = step[f[i - 1]][src[i]]
  <2>1. f[0] = start
    BY <1>0, <1>3
  <2>2. ASSUME NEW i \in 1..Len(src) PROVE f[i] = step[f[i - 1]][src[i]]
    <3>1. i \in 0..Len(src) /\ i # 0
      BY <1>0
    <3> QED BY <1>3, <3>1
  <2> QED BY <2>1, <2>2
<1> DEFINE P == {i \in 0..Len(src) : f[i] \in S}
<1>6. Len(src) \in Nat /\ 0 \in P
  BY <1>5
<1>7. ASSUME NEW i \in 0..Len(src), i < Len(src), i \in P PROVE i + 1 \in P
  <2>1. src[i + 1] \in T /\ f[i] \in S /\ i + 1 \in 1..Len(src)
    BY <1>7
  <2>2. f[i + 1] = step[f[i]][src[i + 1]]
    BY <1>5, <2>1
  <2> QED BY <2>1, <2>2 DEF Steps
<1>8. 0..Len(src) \subseteq P
  <2> HIDE DEF P
  <2> QED BY <1>6, <1>7, UpTo
<1>9. f \in [0..Len(src) -> S]
  BY <1>3, <1>8
<1> QED BY <1>4, <1>5, <1>9 DEF Folding

\* A fold over nothing, and over one more element.
LEMMA FoldAppend ==
  ASSUME NEW S, NEW T, NEW step \in Steps(S, T), NEW start \in S, NEW src \in Seq(T)
  PROVE  /\ Fold(step, start, <<>>) = start
         /\ Fold(step, start, src) \in S
         /\ \A x \in T : Fold(step, start, Append(src, x)) = step[Fold(step, start, src)][x]
<1>1. Fold(step, start, <<>>) = start
  <2>1. PICK f : Folding(f, S, step, start, <<>>) /\ Fold(step, start, <<>>) = f[Len(<<>>)]
    <3>1. <<>> \in Seq(T)
      OBVIOUS
    <3> QED BY <3>1, FoldIsLast, Zenon
  <2>2. Len(<<>>) = 0
    OBVIOUS
  <2> QED BY <2>1, <2>2 DEF Folding
<1>2. PICK f : Folding(f, S, step, start, src) /\ Fold(step, start, src) = f[Len(src)]
  BY FoldIsLast
<1>3. Fold(step, start, src) \in S
  BY <1>2 DEF Folding
<1>4. ASSUME NEW x \in T
      PROVE  Fold(step, start, Append(src, x)) = step[Fold(step, start, src)][x]
  <2> DEFINE more == Append(src, x)
  <2>1. /\ more \in Seq(T) /\ Len(more) = Len(src) + 1 /\ more[Len(src) + 1] = x
        /\ \A i \in 1..Len(src) : more[i] = src[i]
    OBVIOUS
  <2> HIDE DEF more
  <2>2. PICK g : Folding(g, S, step, start, more) /\ Fold(step, start, more) = g[Len(more)]
    BY <2>1, FoldIsLast, Zenon
  <2> DEFINE P == {i \in 0..Len(src) : g[i] = f[i]}
  <2>3. Len(src) \in Nat /\ 0 \in P
    BY <1>2, <2>2 DEF Folding
  <2>4. ASSUME NEW i \in 0..Len(src), i < Len(src), i \in P PROVE i + 1 \in P
    <3>1. i + 1 \in 1..Len(src) /\ i + 1 \in 1..Len(more) /\ (i + 1) - 1 = i
      BY <2>1, <2>4
    <3>2. f[i + 1] = step[f[i]][src[i + 1]] /\ g[i + 1] = step[g[i]][more[i + 1]]
      BY <1>2, <2>2, <3>1 DEF Folding
    <3>3. more[i + 1] = src[i + 1] /\ g[i] = f[i]
      BY <2>1, <2>4, <3>1
    <3>4. g[i + 1] = f[i + 1] /\ i + 1 \in 0..Len(src)
      BY <3>1, <3>2, <3>3
    <3> QED BY <3>4
  <2>5. Len(src) \in P
    <3> HIDE DEF P
    <3>1. 0..Len(src) \subseteq P
      BY <2>3, <2>4, UpTo
    <3>2. Len(src) \in 0..Len(src)
      BY <2>3
    <3> QED BY <3>1, <3>2
  <2>6. g[Len(src) + 1] = step[g[Len(src)]][x]
    <3>1. Len(src) + 1 \in 1..Len(more) /\ (Len(src) + 1) - 1 = Len(src)
      BY <2>1
    <3> QED BY <2>1, <2>2, <3>1 DEF Folding
  <2>7. Fold(step, start, more) = step[Fold(step, start, src)][x]
    BY <1>2, <2>1, <2>2, <2>5, <2>6
  <2> QED BY <2>7 DEF more
<1> QED BY <1>1, <1>3, <1>4

\* The same of every source at once.
LEMMA Unfolding ==
  ASSUME NEW S, NEW T, NEW step \in Steps(S, T), NEW start \in S
  PROVE  /\ Fold(step, start, <<>>) = start
         /\ \A src \in Seq(T) : Fold(step, start, src) \in S
         /\ \A src \in Seq(T), x \in T :
              Fold(step, start, Append(src, x)) = step[Fold(step, start, src)][x]
<1>1. ASSUME NEW src \in Seq(T)
      PROVE  /\ Fold(step, start, <<>>) = start /\ Fold(step, start, src) \in S
             /\ \A x \in T : Fold(step, start, Append(src, x)) = step[Fold(step, start, src)][x]
  BY FoldAppend
<1>2. <<>> \in Seq(T)
  OBVIOUS
<1> QED BY <1>1, <1>2
=============================================================================
