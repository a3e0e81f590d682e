---------------------------- MODULE LiftCaptures ----------------------------
(***************************************************************************)
(* Which locals the local methods of a template get as parameters when     *)
(* they are lifted out of it (typer/src/lambda_lift.rs, lift_template and  *)
(* close_over_callees): those they read, and those of the methods they     *)
(* call, which have left their bodies by then.  The loop goes over the     *)
(* methods until a round adds nothing.                                     *)
(*                                                                         *)
(* A method is its place in the order of extraction, inner methods before  *)
(* the one they are in.  Every method binds one local, which has its       *)
(* number; the code around them all binds local 0.                         *)
(***************************************************************************)
EXTENDS Naturals, Sequences, FiniteSets

CONSTANTS
  Lifted,     \* the number of local methods
  MaxReads,   \* bound: locals of others that a method reads itself
  MaxCalls    \* bound: calls of other methods in a program

ASSUME LiftCapturesConstants ==
  Lifted \in Nat /\ MaxReads \in Nat /\ MaxCalls \in Nat

LocalMethods == 1..Lifted
Locals == 0..Lifted
Around == 0

VARIABLES
  nesting,   \* the method that each method is in, or Around
  callees,   \* the lifted methods that each method names
  capMap,    \* cap_map
  at,        \* the method that the loop has come to
  grown,     \* changed
  lifting    \* "read" before, "close" during and "rewrite" after the loop

liftVars == <<nesting, callees, capMap, at, grown, lifting>>

Elements(s) == {s[i] : i \in DOMAIN s}

\* With every method that it has, S has the one that this is in.
Outward(S) == \A k \in S \ {Around} : nesting[k] \in S

\* The methods that m is in, and the code around them.
Enclosing(m) ==
  {v \in Locals : \A S \in SUBSET Locals :
                    {Around, nesting[m]} \subseteq S /\ Outward(S) => v \in S}

LiftInit ==
  /\ nesting = [m \in LocalMethods |-> Around]
  /\ callees = [m \in LocalMethods |-> {}] /\ capMap = [m \in LocalMethods |-> <<>>]
  /\ at = 1 /\ grown = FALSE /\ lifting = "read"

\* A template is read, one method at a time and outer methods first: a method
\* can name the locals of the methods it is in, and the methods defined in them
\* or in itself.  captures: what it reads itself.
ReadMethod(m, out, reads) ==
  /\ lifting = "read" /\ Len(reads) <= MaxReads
  /\ nesting' = [nesting EXCEPT ![m] = out]
  /\ capMap' = [capMap EXCEPT ![m] = reads]
  /\ at' = at + 1
  /\ UNCHANGED <<callees, grown, lifting>>

\* Whether m may name the method c.
Names(m, c) == c # m /\ nesting[c] \in Enclosing(m) \cup {m}

\* collect_callees, and the way into close_over_callees: with fewer than two
\* methods there is nothing to close over.
CollectCallees(calls) ==
  /\ lifting = "read"
  /\ callees' = [m \in LocalMethods |-> {c \in LocalMethods : <<m, c>> \in calls}]
  /\ lifting' = IF Lifted < 2 THEN "rewrite" ELSE "close"
  /\ at' = 1
  /\ UNCHANGED <<nesting, capMap, grown>>

\* collect_bound: the methods inside have been taken out of m by now.
Bound(m) == {m}

\* What the methods that m calls capture and m neither binds nor captures.
Missing(m) ==
  (UNION {Elements(capMap[c]) : c \in callees[m]}) \ (Bound(m) \cup Elements(capMap[m]))

\* The sequences that list a set, each element once.
Orders(S) ==
  {s \in [1..Cardinality(S) -> S] : \A i, j \in DOMAIN s : s[i] = s[j] => i = j}

\* The end of a round: another one, or the captures are closed.
NextMethod ==
  IF at < Lifted THEN at' = at + 1 /\ UNCHANGED lifting
  ELSE at' = 1 /\ lifting' = IF grown' THEN "close" ELSE "rewrite"

\* Mutant: a round counts as changed only by its last method.
LastDecides(m, add) == grown' = (add # <<>>)

\* changed: set by any method of the round, reset by the next.
NoteChange(m, add) == grown' = ((m > 1 /\ grown) \/ add # <<>>)

\* The list of captures grows at its end.
Extend(m, add) == capMap' = [capMap EXCEPT ![m] = @ \o add]

\* The loop's body for the method that it has come to.
CloseOver(add) ==
  /\ lifting = "close"
  /\ Extend(at, add) /\ NoteChange(at, add) /\ NextMethod
  /\ UNCHANGED <<nesting, callees>>

LiftNext ==
  \/ /\ lifting = "read" /\ at <= Lifted
     /\ LET m == Lifted + 1 - at IN
        \E out \in {Around} \cup (m + 1)..Lifted :
          LET seen == {Around, out} \cup (IF out = Around THEN {} ELSE Enclosing(out)) IN
          \E reads \in UNION {Orders(S) : S \in SUBSET seen} : ReadMethod(m, out, reads)
  \/ /\ lifting = "read" /\ at > Lifted
     /\ \E calls \in SUBSET {p \in LocalMethods \X LocalMethods : Names(p[1], p[2])} :
          Cardinality(calls) <= MaxCalls /\ CollectCallees(calls)
  \/ /\ lifting = "close"
     /\ \E add \in Orders(Missing(at)) : CloseOver(add)

LiftSpec == LiftInit /\ [][LiftNext]_liftVars

-----------------------------------------------------------------------------
(* Properties *)

\* When the calls are rewritten, every caller has at hand what it must pass:
\* the callee's captures are its own or bound by it.  Otherwise a call would
\* be emitted an argument short.
CallsServed ==
  lifting = "rewrite" => \A m \in LocalMethods : \A c \in callees[m] :
    Elements(capMap[c]) \subseteq Elements(capMap[m]) \cup Bound(m)

\* Nothing is captured that the place of a method could not pass: a capture is
\* a local of the code around it, never one of a method that it merely calls
\* nor its own.
CapturesInScope ==
  \A m \in LocalMethods : \A v \in Elements(capMap[m]) : v \in Enclosing(m)

\* The parameters that close_over_callees gives a method, each once, are what
\* its calls need and what its own callers have.
CapturesRight ==
  /\ CallsServed /\ CapturesInScope
  /\ \A m \in LocalMethods : \A i, j \in DOMAIN capMap[m] : capMap[m][i] = capMap[m][j] => i = j
=============================================================================
