---------------------------- MODULE PatmatSolver ----------------------------
(***************************************************************************)
(* The propositional solver behind the exhaustiveness and reachability     *)
(* warnings (typer/src/warn_patmat_logic.rs): a formula is simplified,     *)
(* turned into clauses with auxiliary literals, and their models are       *)
(* enumerated (ModelSearch).                                               *)
(*                                                                         *)
(* A formula is a tuple of an operator and its operand; the operands of a  *)
(* conjunction or disjunction are a set, as they are to the code, whose    *)
(* insertion order decides only in which order models are found.  A        *)
(* literal is a number, negative if negated.                               *)
(***************************************************************************)
EXTENDS ModelSearch, SequencesExt

CONSTANTS
  Symbols,    \* the symbols of a formula, a set of numbers
  Ladder      \* the symbols of the formula that at_most_one writes as a ladder

ASSUME PatmatSolverConstants ==
  /\ Symbols = 1..Cardinality(Symbols) /\ Ladder = 1..Cardinality(Ladder)
  /\ Relevant = Symbols \cup Ladder

VARIABLE formula   \* the formula, <<>> before it is given

solverVars == <<formula, searchVars>>

True == <<"true">>
False == <<"false">>
Sym(s) == <<"sym", s>>
Not(p) == <<"not", p>>
And(ps) == <<"and", ps>>
Or(ps) == <<"or", ps>>
AtMostOne(ss) == <<"atmostone", ss>>

SolverInit == formula = <<>> /\ SearchInit

-----------------------------------------------------------------------------
(* Simplification *)

RECURSIVE NnfNot(_), Nnf(_)

\* nnf_not and nnf
NnfNot(p) ==
  CASE p[1] = "and" -> Or({NnfNot(q) : q \in p[2]})
    [] p[1] = "or" -> And({NnfNot(q) : q \in p[2]})
    [] p[1] = "not" -> Nnf(p[2])
    [] p[1] = "true" -> False
    [] p[1] = "false" -> True
    [] OTHER -> Not(p)

Nnf(p) ==
  CASE p[1] = "and" -> And({Nnf(q) : q \in p[2]})
    [] p[1] = "or" -> Or({Nnf(q) : q \in p[2]})
    [] p[1] = "not" -> NnfNot(p[2])
    [] OTHER -> p

\* has_impure_atom, which gives up on more than ten operands.
HasImpureAtom(ps) ==
  Cardinality(ps) \in 2..10 /\ \E p, q \in ps : p = Not(q)

\* big_and and big_or
BigAnd(ps) == IF ps = {} THEN True ELSE IF Cardinality(ps) = 1 THEN CHOOSE p \in ps : TRUE
              ELSE And(ps)
BigOr(ps) == IF ps = {} THEN False ELSE IF Cardinality(ps) = 1 THEN CHOOSE p \in ps : TRUE
             ELSE Or(ps)

\* simplify_and, simplify_or and simplify_prop of a formula in negation normal
\* form.
RECURSIVE SimplifyProp(_)
SimplifyProp(p) ==
  LET Flat(op, ps) == UNION {IF q[1] = op THEN q[2] ELSE {q} : q \in {SimplifyProp(r) : r \in ps}}
      ands == Flat("and", p[2]) \ {True}
      ors  == Flat("or", p[2]) \ {False}
  IN  CASE p[1] = "and" -> IF False \in ands \/ HasImpureAtom(ands) THEN False ELSE BigAnd(ands)
        [] p[1] = "or" -> IF True \in ors \/ HasImpureAtom(ors) THEN True ELSE BigOr(ors)
        [] OTHER -> p

Simplify(p) == SimplifyProp(Nnf(p))

-----------------------------------------------------------------------------
(* Clauses *)

\* TransformToCnf: the last literal given out, the clauses so far and the
\* literal that stands for true, 0 while there is none.
Transformer(n) == [count |-> n, buff |-> <<>>, true |-> 0]

AddClause(t, c) == [t EXCEPT !.buff = Append(@, c)]

ConstTrue(t) ==
  IF t.true # 0 THEN t
  ELSE [AddClause(t, {t.count + 1}) EXCEPT !.count = @ + 1, !.true = t.count + 1]

\* and: the new literal implies each operand; the converse is not needed, for
\* no compound formula is negated.
AndLits(t, lits) ==
  LET u == ConstTrue(t)  o == u.count + 1
      ops == SetToSeq(lits \ {u.true})
  IN  IF lits = {} THEN [t |-> u, lit |-> u.true]
      ELSE IF Cardinality(lits) = 1 THEN [t |-> t, lit |-> CHOOSE l \in lits : TRUE]
      ELSE IF -u.true \in lits THEN [t |-> u, lit |-> -u.true]
      ELSE [t |-> [u EXCEPT !.count = o,
                            !.buff = @ \o [i \in DOMAIN ops |-> {ops[i], -o}]], lit |-> o]

\* or
OrLits(t, lits) ==
  LET u == ConstTrue(t)  o == u.count + 1 IN
  IF lits = {} THEN [t |-> u, lit |-> -u.true]
  ELSE IF Cardinality(lits) = 1 THEN [t |-> t, lit |-> CHOOSE l \in lits : TRUE]
  ELSE IF u.true \in lits THEN [t |-> u, lit |-> u.true]
  ELSE [t |-> [AddClause(u, (lits \ {-u.true}) \cup {-o}) EXCEPT !.count = o], lit |-> o]

\* at_most_one: up to five symbols pair by pair, more with a ladder of new
\* literals, the i-th saying that one of the first i symbols holds.
AtMostOneClauses(t, ss) ==
  LET n == Cardinality(ss)  x == SetToSortSeq(ss, <)
      s(i) == t.count + i
      rung(i) == <<{-x[i], s(i)}, {-s(i - 1), s(i)}, {-x[i], -s(i - 1)}>>
      pairs == SetToSeq({{-a, -b} : <<a, b>> \in {p \in ss \X ss : p[1] < p[2]}})
  IN  IF n <= 5 THEN [t EXCEPT !.buff = @ \o pairs]
      ELSE [t EXCEPT !.count = @ + n - 1,
              !.buff = @ \o <<{-x[1], s(1)}>> \o FlattenSeq([i \in 1..(n - 2) |-> rung(i + 1)])
                         \o <<{-x[n], -s(n - 1)}>>]

\* convert and convert_all; the literal 0 stands for none.
RECURSIVE Convert(_, _), ConvertAll(_, _)
Convert(t, p) ==
  LET all == ConvertAll(t, SetToSeq(p[2])) IN
  CASE p[1] = "and" -> AndLits(all.t, all.lits)
    [] p[1] = "or" -> OrLits(all.t, all.lits)
    [] p[1] = "not" -> LET c == Convert(t, p[2]) IN [c EXCEPT !.lit = -@]
    [] p[1] = "sym" -> [t |-> t, lit |-> p[2]]
    [] p[1] = "true" -> LET u == ConstTrue(t) IN [t |-> u, lit |-> u.true]
    [] p[1] = "false" -> LET u == ConstTrue(t) IN [t |-> u, lit |-> -u.true]
    [] p[1] = "atmostone" -> [t |-> AtMostOneClauses(t, p[2]), lit |-> 0]

ConvertAll(t, ps) ==
  IF ps = <<>> THEN [t |-> t, lits |-> {}]
  ELSE LET before == ConvertAll(t, Front(ps))
           last   == Convert(before.t, Last(ps))
       IN  [t |-> last.t, lits |-> before.lits \cup ({last.lit} \ {0})]

\* to_literal and to_disjunction: what is a disjunction of literals already is
\* taken as it is.
IsLiteral(p) == p[1] = "sym" \/ (p[1] = "not" /\ p[2][1] = "sym")
LiteralOf(p) == IF p[1] = "sym" THEN p[2] ELSE -p[2][2]
IsDisjunction(p) ==
  p[1] \in {"true", "false"} \/ IsLiteral(p) \/ (p[1] = "or" /\ \A q \in p[2] : IsLiteral(q))
DisjunctionOf(p) ==
  CASE p[1] = "true" -> <<>>
    [] p[1] = "false" -> <<{}>>
    [] p[1] = "or" -> <<{LiteralOf(q) : q \in p[2]}>>
    [] OTHER -> <<{LiteralOf(p)}>>

\* The clauses of each conjunct in turn, by one transformer.
RECURSIVE ConjunctClauses(_, _)
ConjunctClauses(t, ps) ==
  IF ps = <<>> THEN t
  ELSE LET before == ConjunctClauses(t, Front(ps))
           c == Convert(before, Last(ps))
       IN  IF IsDisjunction(Last(ps))
             THEN [before EXCEPT !.buff = @ \o DisjunctionOf(Last(ps))]
           ELSE IF c.lit = 0 THEN c.t ELSE AddClause(c.t, {c.lit})

\* The symbols of a formula (gather_symbols).
RECURSIVE SymbolsOf(_)
SymbolsOf(p) ==
  CASE p[1] \in {"and", "or"} -> UNION {SymbolsOf(q) : q \in p[2]}
    [] p[1] = "not" -> SymbolsOf(p[2])
    [] p[1] = "sym" -> {p[2]}
    [] p[1] = "atmostone" -> p[2]
    [] OTHER -> {}

\* eq_free_prop_to_solvable; the size limit of formulas is left out.
CnfOf(p) ==
  LET simple == Simplify(p)
      t == Transformer(Cardinality(Relevant))
  IN  ConjunctClauses(t, IF simple[1] = "and" THEN SetToSeq(simple[2]) ELSE <<simple>>).buff

-----------------------------------------------------------------------------
(* The search *)

\* A formula is given, and the models of its clauses are searched.
Translate(p) ==
  /\ formula' = p
  /\ Begin(ToSet(CnfOf(p)))

\* The formulas: conjunctions and disjunctions of two such of literals and
\* constants, negated or not, alone or beside the axiom that at most one of
\* the symbols holds; and that axiom over enough symbols for a ladder.
Formulas ==
  LET Atoms == {Sym(s) : s \in Symbols} \cup {Not(Sym(s)) : s \in Symbols} \cup {True}
      Pairs(S) == {{p, q} : p, q \in S}
      Over(S) == {And(P) : P \in Pairs(S)} \cup {Or(P) : P \in Pairs(S)}
      Small == Atoms \cup Over(Atoms)
      Axiom == AtMostOne(Symbols)
  IN  Over(Small) \cup {Not(p) : p \in Over(Small)}
        \cup {And({Axiom, p}) : p \in Small \cup {Not(q) : q \in Small}}
        \cup {And({AtMostOne(Ladder), Or({Sym(1), Sym(Cardinality(Ladder))})})}

SolverNext ==
  \/ formula = <<>> /\ \E p \in Formulas : Translate(p)
  \/ SearchStep /\ UNCHANGED formula

SolverSpec == SolverInit /\ [][SolverNext]_solverVars

-----------------------------------------------------------------------------
(* Properties *)

RECURSIVE TrueUnder(_, _)
TrueUnder(p, v) ==
  CASE p[1] = "and" -> \A q \in p[2] : TrueUnder(q, v)
    [] p[1] = "or" -> \E q \in p[2] : TrueUnder(q, v)
    [] p[1] = "not" -> ~TrueUnder(p[2], v)
    [] p[1] = "sym" -> p[2] \in v
    [] p[1] = "true" -> TRUE
    [] p[1] = "false" -> FALSE
    [] p[1] = "atmostone" -> Cardinality(p[2] \cap v) <= 1

\* The valuations of the formula's symbols, each the set of those that hold.
Valuations == SUBSET SymbolsOf(formula)

Agrees(m, v) ==
  \A l \in m : Magnitude(l) \in SymbolsOf(formula) => (Magnitude(l) \in v <=> l > 0)

\* A model that was found makes the formula true, whatever the symbols it says
\* nothing of are: no counterexample that a warning prints is made up.
ModelsSound ==
  models # <<>> => \A v \in Valuations : Agrees(Last(models), v) => TrueUnder(formula, v)

\* When the search says there are no others, there are none: a match taken to
\* be exhaustive is, and a case taken to be unreachable is.
ModelsComplete ==
  verdict = "all" =>
    \A v \in Valuations : TrueUnder(formula, v) => \E i \in DOMAIN models : Agrees(models[i], v)

\* The models that find_all_models lists for the clauses are those of the
\* formula it was asked about, each once, and all of them unless it says that
\* the budget is spent.
ModelsExact == ModelsSound /\ ModelsComplete /\ ModelsDisjoint
=============================================================================
