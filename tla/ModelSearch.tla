----------------------------- MODULE ModelSearch -----------------------------
(***************************************************************************)
(* The search for the models of a set of clauses behind the exhaustiveness *)
(* and reachability warnings (typer/src/warn_patmat_logic.rs,              *)
(* find_tseitin_model and find_all_models): DPLL with an explicit stack;   *)
(* each model is blocked before the next search, until there is none or    *)
(* the budget is spent.                                                    *)
(*                                                                         *)
(* A literal is a number, negative if negated; a clause is the set of its  *)
(* literals.  The clauses are a set as well: which of them comes first in  *)
(* the code's list decides only in which order models are found, so that   *)
(* the first one is any one here.                                          *)
(***************************************************************************)
EXTENDS Integers, Sequences, FiniteSets

CONSTANTS
  Relevant,   \* the variables that stand for symbols (relevantVars)
  MaxModels   \* MAX_DPLL_DEPTH, the budget of models

ASSUME ModelSearchConstants == Relevant \subseteq Nat \ {0} /\ MaxModels \in Nat \ {0}

VARIABLES
  cnf,        \* the clauses that are asked about (Solvable::cnf)
  clauses,    \* these, and those that block the models found
  search,     \* the stack of find_tseitin_model, its top first
  models,     \* the models found
  verdict     \* "idle", "searching", "all" when there is no other model, "budget"

searchVars == <<cnf, clauses, search, models, verdict>>

SearchInit ==
  /\ cnf = {} /\ clauses = {} /\ search = <<>> /\ models = <<>>
  /\ verdict = "idle"

Frame(cs, a) == [clauses |-> cs, assigned |-> a]

\* find_all_models is called.
Begin(cs) ==
  /\ verdict = "idle" /\ verdict' = "searching"
  /\ cnf' = cs /\ clauses' = cs /\ search' = <<Frame(cs, {})>>
  /\ UNCHANGED models

Solving == verdict = "searching" /\ search # <<>>
Top == Head(search)
HasEmpty(cs) == {} \in cs
Units(cs) == {l \in UNION cs : {l} \in cs}
FirstUnit(cs) == CHOOSE l \in Units(cs) : TRUE
FirstClause(cs) == CHOOSE c \in cs : TRUE

\* The clauses that a literal leaves open, and the unit clause of one added.
Open(cs, l) == {c \in cs : l \notin c}
WithUnit(cs, l) == cs \cup {{l}}

\* drop_unit
DropUnit(cs, l) == {c \ {-l} : c \in Open(cs, l)}

\* A branch that holds an empty clause is given up.
GiveUpBranch ==
  /\ Solving /\ HasEmpty(Top.clauses)
  /\ search' = Tail(search)
  /\ UNCHANGED <<cnf, clauses, models, verdict>>

PropagateUnit ==
  /\ Solving /\ ~HasEmpty(Top.clauses) /\ Units(Top.clauses) # {}
  /\ LET l == FirstUnit(Top.clauses) IN
     search' = <<Frame(DropUnit(Top.clauses, l), Top.assigned \cup {l})>> \o Tail(search)
  /\ UNCHANGED <<cnf, clauses, models, verdict>>

\* The literals of variables that occur with one sign only.
PureLiterals(cs) == {l \in UNION cs : -l \notin UNION cs}

Magnitude(l) == IF l < 0 THEN -l ELSE l

\* The least of them is assigned, and the clauses that it satisfies go.
AssignPure ==
  /\ Solving /\ ~HasEmpty(Top.clauses) /\ Units(Top.clauses) = {}
  /\ \E l \in PureLiterals(Top.clauses) :
       /\ \A k \in PureLiterals(Top.clauses) : Magnitude(l) <= Magnitude(k)
       /\ search' = <<Frame(Open(Top.clauses, l), Top.assigned \cup {l})>> \o Tail(search)
  /\ UNCHANGED <<cnf, clauses, models, verdict>>

\* Both values of a literal, the literal itself first.
Split(l) ==
  <<Frame(WithUnit(Top.clauses, l), Top.assigned), Frame(WithUnit(Top.clauses, -l), Top.assigned)>>

Branch ==
  /\ Solving /\ ~HasEmpty(Top.clauses) /\ Units(Top.clauses) = {}
  /\ PureLiterals(Top.clauses) = {} /\ Top.clauses # {}
  /\ \E l \in FirstClause(Top.clauses) : search' = Split(l) \o Tail(search)
  /\ UNCHANGED <<cnf, clauses, models, verdict>>

\* What a model says of symbols.
Symbolic(assigned) == {l \in assigned : Magnitude(l) \in Relevant}

\* Mutant: the auxiliary literals are blocked with the others.
BlockAll(assigned) == {-l : l \in assigned}

\* The clause that blocks a model names the relevant variables alone.
Block(assigned) == {-l : l \in Symbolic(assigned)}

\* A model: it is recorded and blocked, and the search begins anew while the
\* budget lasts.
FindModel ==
  /\ Solving /\ Top.clauses = {}
  /\ models' = Append(models, Symbolic(Top.assigned))
  /\ clauses' = clauses \cup {Block(Top.assigned)}
  /\ IF Len(models) + 1 = MaxModels
     THEN search' = <<>> /\ verdict' = "budget"
     ELSE search' = <<Frame(clauses', {})>> /\ UNCHANGED verdict
  /\ UNCHANGED cnf

NoOtherModel ==
  /\ verdict = "searching" /\ search = <<>>
  /\ verdict' = "all"
  /\ UNCHANGED <<cnf, clauses, search, models>>

SearchStep ==
  \/ GiveUpBranch \/ PropagateUnit \/ AssignPure \/ Branch \/ FindModel \/ NoOtherModel

-----------------------------------------------------------------------------
(* What it promises, whatever the clauses are *)

Lits == Int \ {0}

\* Any set of clauses may be asked about.
SearchSpec ==
  SearchInit /\ [][(\E cs \in SUBSET SUBSET Lits : Begin(cs)) \/ SearchStep]_searchVars

\* A valuation holds the literals that are true in it.
Valuation(v) == v \subseteq Lits /\ \A l \in Lits : l \in v <=> -l \notin v

Satisfies(v, cs) == \A c \in cs : c \cap v # {}

\* Whatever the symbols are that a model does not mention, its literals can be
\* completed to a valuation that satisfies the clauses.
ModelsSatisfy ==
  \A i \in 1..Len(models) : \A m \in SUBSET Lits :
    /\ models[i] \subseteq m /\ m = Symbolic(m) /\ \A l \in m : -l \notin m
    => \E v \in SUBSET Lits : Valuation(v) /\ m \subseteq v /\ Satisfies(v, cnf)

\* When the search says that there is no other model, every valuation that
\* satisfies the clauses has the literals of one that was found.
ModelsCover ==
  verdict = "all" =>
    \A v \in SUBSET Lits : Valuation(v) /\ Satisfies(v, cnf) =>
      \E i \in 1..Len(models) : models[i] \subseteq v

\* No two models share a valuation: no counterexample comes twice, and the
\* budget is not spent on one that is known.
ModelsDisjoint ==
  \A i, j \in DOMAIN models : i # j => \E l \in models[i] : -l \in models[j]
=============================================================================
