------------------------------- MODULE LazySig -------------------------------
(***************************************************************************)
(* Inferred member types on demand (typer/src/lazysig.rs) across the       *)
(* passes of typecheck_units (typer/src/check.rs).  A definition without a *)
(* written type is pending until something needs its type; completing it   *)
(* types its body, which may complete others.  What the header pass and    *)
(* the signature pass complete is provisional: it may have read a member   *)
(* whose signature was not there yet.                                      *)
(*                                                                         *)
(* A program is a sequence of definitions.  Of a body the model keeps the  *)
(* definitions it refers to, in order, and its shape: the type of a plain  *)
(* body is made of theirs, that of a block is not, and a broken body or a  *)
(* faulty block has an error of its own, which costs the former its type.  *)
(* Completion is one step of a single thread.  One template of the program *)
(* may open with an import of a definition or with a parent whose          *)
(* constructor takes one; it holds the definitions from there on.          *)
(* A definition with a written type is a value.  Overriding, type aliases, *)
(* block-local definitions and further rounds of the header pass are left  *)
(* out.                                                                    *)
(***************************************************************************)
EXTENDS Naturals, Sequences, FiniteSets, SequencesExt

CONSTANTS
  Size,        \* the number of definitions of a program
  MaxEdges,    \* bound: references in a program
  Forms        \* what a template may open with that needs a member

Definitions == 1..Size

ASSUME LazySigConstants ==
  Size \in Nat /\ MaxEdges \in Nat /\ Forms \subseteq {"import", "parent argument"}

VARIABLES
  prog,     \* the program, <<>> before it is read
  opening,  \* what a template needs before its members
  pass,     \* the pass that is running
  cursor,   \* the next definition the pass reaches
  typer     \* the typer's tables

lazyVars == <<prog, opening, pass, cursor, typer>>

NoType == "<notype>"
ErrorTy == "<error>"
Known == "known"

Shapes == {"plain", "block", "broken", "faulty block"}

Fault(d) == prog[d].shape \in {"broken", "faulty block"}
Inferred(d) == prog[d].kind # "written"

\* The fields of Typer that completion is about: pending_sigs and which of
\* them have their signature, the symbols' types, lazy_completing, diags,
\* lazy_cyclic, lazy_done, lazy_body_done, sig_done, import_prefix_missed and
\* sig_deferred; and, for the properties, what a signature pass completed for
\* good, where one that was taken back left <error> on a symbol, and which of the
\* bodies last typed have a part without a type.
NewTyper(pending) ==
  [pending |-> pending, signed |-> {}, ty |-> [d \in Definitions |-> NoType],
   completing |-> <<>>, diags |-> <<>>, cyclic |-> {}, done |-> {}, spliced |-> {},
   sigDone |-> {}, missed |-> FALSE, deferred |-> FALSE, kept |-> {}, stale |-> {}, holes |-> {}]

NoOpening == [form |-> "none", at |-> 1, needs |-> 1]

LazyInit ==
  /\ prog = <<>> /\ opening = NoOpening /\ pass = "namer" /\ cursor = 1
  /\ typer = NewTyper({})

HeaderPass == pass \in {"parents", "constructors"}
SignaturePass == pass \in {"signatures", "second round"}

\* error
Complain(t, d, what) == [t EXCEPT !.diags = Append(@, [at |-> d, what |-> what])]

\* report_cyclic_sig
ReportCyclicSig(t, d) ==
  LET told == IF d \in t.cyclic THEN t ELSE Complain(t, d, "cycle") IN
  [told EXCEPT !.cyclic = @ \cup {d}, !.pending = @ \ {d}, !.ty[d] = ErrorTy]

\* Whether what complete_lazy_sig has just done is taken back.
Undone(before, t, d) ==
  /\ HeaderPass \/ SignaturePass
  /\ \/ t.ty[d] \in {NoType, ErrorTy}
     \/ d \in t.cyclic \ before.cyclic
     \/ HeaderPass

\* Mutant: a definition that was taken back stays marked as cyclic.
TakeBackMarked(before, t, d) ==
  [t EXCEPT !.diags = SubSeq(@, 1, Len(before.diags)), !.pending = @ \cup {d},
            !.ty[d] = IF d \in t.cyclic \ before.cyclic THEN before.ty[d] ELSE @]

\* The diagnostics go, the definition is pending again, and a cycle reported
\* about it, with the type that was put in its place, is forgotten.
TakeBack(before, t, d) ==
  LET again == [t EXCEPT !.diags = SubSeq(@, 1, Len(before.diags)),
                         !.pending = @ \cup {d}]
  IN  IF d \in t.cyclic \ before.cyclic
      THEN [again EXCEPT !.cyclic = @ \ {d}, !.ty[d] = before.ty[d]]
      ELSE [again EXCEPT !.stale = IF SignaturePass /\ t.ty[d] = ErrorTy THEN @ \cup {d} ELSE @]

\* type_val_sig and type_def_sig, of which the type is what matters here.
TypeSig(t, d) ==
  [t EXCEPT !.ty[d] = IF Inferred(d) THEN NoType ELSE Known, !.stale = @ \ {d}]

\* type_val_body and type_def_body: the references in order, then what the
\* body says of itself.  The result is the typer after it; rhs carries the type
\* of what has been read so far.
RECURSIVE CompleteLazySig(_, _), TypeBody(_, _), TypeRefs(_, _, _)
TypeRefs(t, d, refs) ==
  IF refs = <<>> THEN [t |-> t, rhs |-> Known]
  ELSE LET before == TypeRefs(t, d, Front(refs))
           after  == CompleteLazySig(before.t, Last(refs))
           read   == after.ty[Last(refs)]
       IN  [t |-> IF read = NoType THEN Complain(after, d, "unknown") ELSE after,
            rhs |-> IF before.rhs = Known THEN read ELSE before.rhs]

TypeBody(t, d) ==
  LET refs == TypeRefs(t, d, prog[d].refs)
      end  == IF Fault(d) THEN Complain(refs.t, d, "own") ELSE refs.t
      hole == refs.rhs # Known \/ Fault(d)
      type == CASE prog[d].shape = "plain" -> refs.rhs
                [] prog[d].shape = "broken" -> ErrorTy
                [] OTHER -> Known
  IN  [end EXCEPT !.ty[d] = IF Inferred(d) THEN type ELSE @,
                  !.pending = IF prog[d].kind = "val" THEN @ \ {d} ELSE @,
                  !.holes = IF hole THEN @ \cup {d} ELSE @ \ {d}]

CompleteLazySig(t, d) ==
  LET begun == [t EXCEPT !.pending = @ \ {d}, !.completing = Append(@, d)]
      sig   == IF d \in t.signed THEN begun ELSE TypeSig(begun, d)
      end   == [TypeBody(sig, d) EXCEPT !.completing = Front(@)]
  IN  IF Contains(t.completing, d)
        THEN IF t.ty[d] # NoType THEN t ELSE ReportCyclicSig(t, d)
      ELSE IF d \notin t.pending THEN t
      ELSE IF Undone(t, end, d) THEN TakeBack(t, end, d)
      ELSE [end EXCEPT !.done = @ \cup {d},
                       !.kept = IF SignaturePass THEN @ \cup {d} ELSE @]

\* Programs with at most one written type and one body that is not plain.
Programs ==
  LET Refs == {r \in UNION {[1..n -> Definitions] : n \in 0..2} :
                 \A i, j \in DOMAIN r : r[i] = r[j] => i = j}
      Bodies == {b \in [Definitions -> Refs] :
                   Len(FlattenSeq(b)) <= MaxEdges}
      Mixes == {s \in [Definitions -> Shapes] :
                  Cardinality({d \in Definitions : s[d] # "plain"}) <= 1}
      Kinds == {k \in [Definitions -> {"def", "val", "written"}] :
                  Cardinality({d \in Definitions : k[d] = "written"}) <= 1}
  IN  {[d \in Definitions |-> [kind |-> k[d], refs |-> b[d], shape |-> s[d]]] :
         k \in Kinds, b \in Bodies, s \in Mixes}

\* The template holds all definitions or the last one.  An import needs a stable
\* identifier, which a method is not.
Openings(p) ==
  {NoOpening} \cup
  {o \in [form : Forms, at : {1, Size}, needs : Definitions] :
     o.form = "import" => p[o.needs].kind # "def"}

\* The namer registers what has no written type (register_namer_sig).
ReadSource(p, o) ==
  /\ pass' = "parents" /\ UNCHANGED cursor
  /\ prog' = p /\ opening' = o
  /\ typer' = NewTyper({d \in Definitions : p[d].kind # "written"})

\* Mutant: what an earlier pass said of a prefix stands.
TypeImportOnce(t, d) ==
  LET u == CompleteLazySig(t, d) IN
  IF u.ty[d] = Known THEN u
  ELSE [(IF u.ty[d] = NoType THEN Complain(u, d, "import") ELSE u)
          EXCEPT !.missed = TRUE]

\* import_prefix, which every pass runs again.  A prefix that resolves takes
\* back what an earlier pass said of it (retract_import_prefix_errors); one that
\* does not is noted (note_import_prefix_failed).
TypeImport(t, d) ==
  LET u == CompleteLazySig(t, d)
      Elsewhere(said) == said.what # "import"
  IN  IF u.ty[d] = Known THEN [u EXCEPT !.diags = SelectSeq(@, Elsewhere)]
      ELSE [(IF u.ty[d] = NoType THEN Complain(u, d, "import") ELSE u)
              EXCEPT !.missed = TRUE]

\* type_parent_ctor_app: what the signature pass complains of is dropped.
ParentArgument(t, d) ==
  LET u == CompleteLazySig(t, d) IN
  IF SignaturePass THEN [u EXCEPT !.diags = t.diags] ELSE u

\* take_lazy_done: the tree that was completed on demand replaces the unit's.
TakeLazyDone(t, d) == [t EXCEPT !.done = @ \ {d}, !.spliced = @ \cup {d}]
Taken(t, d) == d \in t.done \cup t.spliced

\* type_member_sig and register_typed_sig
TypeMemberSig(t, d) ==
  IF Taken(t, d) THEN TakeLazyDone(t, d)
  ELSE IF d \in t.sigDone THEN t
  ELSE [TypeSig(t, d) EXCEPT
          !.sigDone = @ \cup {d}, !.signed = @ \cup {d},
          !.pending = IF Inferred(d) THEN @ \cup {d} ELSE @ \ {d}]

\* type_member_sig_deferrable: after an import that was missed a value's
\* signature is built once more, in a second round.
TypeMemberSigDeferrable(t, d) ==
  LET u == TypeMemberSig(t, d) IN
  IF pass = "signatures" /\ u.missed /\ prog[d].kind # "def"
  THEN [u EXCEPT !.sigDone = @ \ {d}, !.deferred = TRUE] ELSE u

\* What precedes the members of d's template: its parents, the signatures of
\* its own members that an import names and that state their type
\* (presig_import_prefixes), and its import.
OpenTemplate(t, d) ==
  LET e == opening.needs
      presig == IF Inferred(e) \/ e < d THEN t ELSE TypeMemberSig(t, e)
  IN  CASE d # opening.at \/ opening.form = "none" -> t
        [] opening.form = "parent argument" -> ParentArgument(t, e)
        [] OTHER -> TypeImport(presig, e)

\* type_def_body locks a method whose type is inferred (lock_lazy_sig); a value
\* is not locked.
LockedBody(t, d) ==
  IF prog[d].kind = "def" /\ d \in t.pending
  THEN [TypeBody([t EXCEPT !.pending = @ \ {d}, !.completing = Append(@, d)], d)
          EXCEPT !.completing = Front(@)]
  ELSE TypeBody(t, d)

\* type_member_body
TypeMemberBody(t, d) == IF Taken(t, d) THEN TakeLazyDone(t, d) ELSE LockedBody(t, d)

\* A sweep of parents_pass over the units, which types their imports only.
HeaderSweep == IF opening.form = "import" THEN TypeImport(typer, opening.needs) ELSE typer

\* The first sweeps of the header pass.
Parents ==
  /\ pass = "parents" /\ pass' = "constructors"
  /\ typer' = HeaderSweep
  /\ UNCHANGED <<prog, opening, cursor>>

\* Its last one; anything the header pass complains about is dropped.
Constructors ==
  /\ pass = "constructors" /\ pass' = "signatures"
  /\ typer' = [HeaderSweep EXCEPT !.diags = <<>>]
  /\ UNCHANGED <<prog, opening, cursor>>

Advance(to) ==
  /\ cursor' = IF cursor = Size THEN 1 ELSE cursor + 1
  /\ pass' = IF cursor = Size THEN to ELSE pass
  /\ UNCHANGED <<prog, opening>>

\* The signature pass, with a second round only if something was deferred.
SignatureOf(d) ==
  /\ SignaturePass /\ d = cursor
  /\ typer' = TypeMemberSigDeferrable(OpenTemplate(typer, d), d)
  /\ Advance(IF pass = "signatures" /\ typer'.deferred THEN "second round" ELSE "bodies")

BodyOf(d) ==
  /\ pass = "bodies" /\ d = cursor
  /\ typer' = TypeMemberBody(OpenTemplate(typer, d), d)
  /\ Advance("done")

LazyNext ==
  \/ pass = "namer" /\ \E p \in Programs : \E o \in Openings(p) : ReadSource(p, o)
  \/ Parents \/ Constructors
  \/ \E d \in Definitions : SignatureOf(d) \/ BodyOf(d)

LazySpec == LazyInit /\ [][LazyNext]_lazyVars

-----------------------------------------------------------------------------
(* Properties *)

Typed == pass = "done"

Told(d, what) == \E i \in DOMAIN typer.diags : typer.diags[i] = [at |-> d, what |-> what]

\* Whether inferred types of the definitions in D depend on each other in a
\* circle.
Circular(D) ==
  LET Direct(e) == {r \in ToSet(prog[e].refs) : Inferred(r) /\ r \in D}
      reach[n \in 0..Size] ==
        IF n = 0 THEN [d \in D |-> Direct(d)]
        ELSE [d \in D |-> reach[n - 1][d] \cup UNION {Direct(e) : e \in reach[n - 1][d]}]
  IN  \E d \in D : Inferred(d) /\ d \in reach[Size][d]

\* Whatever was completed on the way and taken back, every error of the
\* program is reported by the time its bodies are typed ("anything real is
\* raised again by the pass that runs with every signature in hand").
ErrorsReported == Typed => \A d \in Definitions : Fault(d) => Told(d, "own")

\* A cycle among inferred types is reported as one, wherever an import, a
\* parent's argument or a body met it first and however often it was taken back,
\* if the signature pass neither completed one of its members for good nor left
\* <error> on one whose signature it had built.  Otherwise the program may be
\* accepted: val d = e; def e = { d; 1 }; import d._
CyclesReported ==
  Typed /\ Circular(Definitions \ (typer.kept \cup typer.stale)) =>
    \E d \in Definitions : Told(d, "cycle")

\* ErrorsReported, as far as it is true: an error is reported in the end unless
\* the signature pass completed its definition for good.  A program without
\* errors and cycles is accepted, whatever the early passes complained of, and
\* is then whole: every definition has a type, and no body has a part that was
\* typed before the signature it reads; except that such a body may be one the
\* signature pass completed for good.
AcceptedWhole ==
  Typed =>
    /\ \A d \in Definitions : Fault(d) => Told(d, "own") \/ d \in typer.kept
    /\ /\ ~Circular(Definitions) /\ \A d \in Definitions : ~Fault(d)
       /\ typer.kept \cap typer.holes = {}
       => /\ typer.diags = <<>> /\ typer.holes = {}
          /\ \A d \in Definitions : typer.ty[d] = Known
=============================================================================
