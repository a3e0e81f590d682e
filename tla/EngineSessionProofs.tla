------------------------- MODULE EngineSessionProofs --------------------------
(***************************************************************************)
(* Proofs about EngineSession, for any number of runs, expansions, nested  *)
(* queries and engine JVMs: no JVM is lost, a parked one is quiet, the two *)
(* sides of a conversation stay in step, and what the compiler leaves out  *)
(* the engine holds.                                                       *)
(*                                                                         *)
(* None of this is inductive alone.  Which JVM is in use follows from the  *)
(* handle and the start-up thread (ProcessIInv); the stacks of the two     *)
(* sides agree up to the one line that is under way (TalkIInv); what a run *)
(* has sent is held by the engine or is in that line (HeldIInv).           *)
(***************************************************************************)
EXTENDS EngineSession, FiniteSetTheorems, SequenceTheorems, TLAPS

Kinds == {"log", "q", "ok", "err", "timing", "ended"}
Lines == [t : Kinds, id : Nat]
Frames == [id : 1..MaxExps, asked : 0..MaxQueries]

SeqsOK == stack \in Seq(Frames) /\ estack \in Seq(Nat) /\ toCompiler \in Seq(Lines)

\* The engine is in use: joined, and not given up.
Live == eng = "live" /\ ~terminated

-----------------------------------------------------------------------------
(* The handle, the start-up and the processes.                             *)

\* The handle and the phases of a run.
HandleOK ==
  /\ (eng = "pending") <=> (startPc # "idle")
  /\ phase = "between" => eng # "pending" /\ ~Live
  /\ terminated => eng = "live"
  /\ poisoned => terminated
  /\ phase = "typing" /\ terminated => poisoned
  /\ (how = "none") <=> ~(eng = "live" \/ startPc = "ok")
  /\ eng # "live" => sourcesSent = {} /\ ~settingsSent

\* When the compiler talks to an engine.
TalkOK ==
  /\ cpos \in {"wait", "sendTiming", "timing"} => phase = "typing" /\ Live
  /\ cpos = "parking" => phase = "ending" /\ eng = "live" /\ terminated /\ how = "resident"
  /\ stack # <<>> => phase = "typing" /\ eng = "live"
  /\ cpos = "wait" => stack # <<>>

\* The resident JVM comes into play when the daemon has failed.
FallBack ==
  /\ startPc = "resident" => resident /\ (~cancelled => daemonFailed)
  /\ startPc = "helloResident" \/ how = "resident" => resident /\ daemonFailed
  /\ how = "daemon" => ~daemonFailed
  /\ startPc \in {"own", "helloOwn", "helloResident"} => slot = 0

\* The JVM of the engine is there for as long as it is started or used.
MineInUse ==
  /\ mine # 0 => \/ startPc \in {"helloResident", "helloOwn"}
                 \/ /\ how \in {"resident", "own"}
                    /\ startPc = "ok" \/ Live \/ cpos = "parking"
  /\ how = "daemon" /\ daemonUp => startPc = "ok" \/ Live

\* A JVM is parked while no other is in use.
SlotParked ==
  slot # 0 => /\ mine = 0 /\ resident /\ daemonFailed /\ how # "daemon"
              /\ startPc \in {"idle", "daemon", "resident", "err"}
              /\ ~Live /\ cpos = "ball"

NoneLost == alive \subseteq {slot, mine}

ProcessIInv == HandleOK /\ TalkOK /\ FallBack /\ MineInUse /\ SlotParked /\ NoneLost

-----------------------------------------------------------------------------
(* The conversation.                                                       *)

\* Nothing but log lines is under way to the compiler.
Silent == \A i \in DOMAIN toCompiler : toCompiler[i].t = "log"

\* One line is, of one of these kinds and about the expansion id.
Says(kinds, id) ==
  \E i \in DOMAIN toCompiler :
    /\ toCompiler[i].t \in kinds /\ toCompiler[i].id = id
    /\ \A j \in DOMAIN toCompiler : j # i => toCompiler[j].t = "log"

\* The engine has the first n expansions of the compiler's stack open.
Agree(n) == /\ Len(estack) = n /\ \A i \in 1..n : estack[i] = stack[i].id
            /\ n > 0 => active = estack[n]

\* It waits for a request, or for the answer to the query of the last of them.
Listens(n) == Agree(n) /\ epos = (IF n = 0 THEN "idle" ELSE "ask")

Quiet == toEngine = <<>> /\ Silent /\ estack = <<>> /\ epos = "idle"

\* The compiler waits for a line.
Waiting ==
  LET n == Len(stack)  id == stack[n].id IN
  \/ /\ \E f \in Files, text, settings \in BOOLEAN : toEngine = <<Request(id, f, text, settings)>>
     /\ Silent /\ Listens(n - 1)
  \/ toEngine = <<Msg("a", id)>> /\ Silent /\ Agree(n) /\ epos = "ask"
  \/ toEngine = <<>> /\ Silent /\ Agree(n) /\ epos = "handle"
  \/ toEngine = <<>> /\ Says({"q"}, id) /\ Agree(n) /\ epos = "ask"
  \/ toEngine = <<>> /\ Says({"ok", "err"}, id) /\ Listens(n - 1)

\* A request that the engine answers at once.
Served(request, reply, n) ==
  /\ Listens(n)
  /\ \/ toEngine = <<Msg(request, 0)>> /\ Silent
     \/ toEngine = <<>> /\ Says({reply}, 0)

TalkIInv ==
  /\ startPc \in {"helloResident", "helloOwn", "ok"} \/ slot # 0 => Quiet
  /\ Live /\ cpos \in {"ball", "sendTiming"} =>
       toEngine = <<>> /\ Silent /\ Listens(Len(stack))
  /\ cpos = "wait" => Waiting
  /\ cpos = "timing" => Served("timing", "timing", Len(stack))
  /\ cpos = "parking" => Served("end", "ended", 0)

-----------------------------------------------------------------------------
(* What the engine holds.                                                  *)

\* The texts and the settings that the run has sent are there or on the way.
HeldIInv ==
  /\ ~unknown
  /\ Live /\ toEngine = <<>> =>
       sourcesSent \subseteq eSources /\ (settingsSent => eSettings = run)
  /\ Live => \A m \in {toEngine[i] : i \in DOMAIN toEngine} :
       /\ m.t = "expand" => /\ sourcesSent \subseteq eSources \cup {m.file}
                            /\ m.text \/ m.file \in eSources
                            /\ m.settings \/ eSettings = run
       /\ m.t # "expand" => sourcesSent \subseteq eSources /\ (settingsSent => eSettings = run)
  /\ Live /\ stack # <<>> => settingsSent

SessionIInv == TypeOK /\ SeqsOK /\ ProcessIInv /\ TalkIInv /\ HeldIInv
-----------------------------------------------------------------------------
(* Stacks, and lines under way.                                            *)

\* Leaving the innermost expansion leaves a shorter stack of the same frames.
LEMMA PopProperties ==
  ASSUME NEW S, NEW s \in Seq(S), s # <<>>
  PROVE  /\ Pop(s) \in Seq(S) /\ Len(Pop(s)) = Len(s) - 1
         /\ \A i \in 1..(Len(s) - 1) : Pop(s)[i] = s[i]
<1>1. Len(s) \in Nat /\ Len(s) >= 1 /\ Pop(s) = SubSeq(s, 1, Len(s) - 1)
  BY DEF Pop, Front
<1> DEFINE n == Len(s) - 1
<1>2. n \in Nat /\ \A i \in 1..n : s[i] \in S
  BY <1>1
<1> HIDE DEF n
<1>3. /\ SubSeq(s, 1, n) \in Seq(S) /\ Len(SubSeq(s, 1, n)) = n
      /\ \A i \in 1..n : SubSeq(s, 1, n)[i] = s[i]
  BY <1>2
<1> QED
  BY <1>1, <1>3 DEF n

\* A line read counts for the innermost expansion, and the expansions stay.
LEMMA TopAskedProperties ==
  ASSUME stack \in Seq(Frames), stack # <<>>, Top.asked < MaxQueries
  PROVE  LET s == TopAsked(Top.asked + 1) IN
         /\ s \in Seq(Frames) /\ Len(s) = Len(stack)
         /\ \A i \in 1..Len(stack) : s[i].id = stack[i].id
<1> DEFINE n == Len(stack)
           top == [stack[n] EXCEPT !.asked = Top.asked + 1]
<1>1. n \in 1..Len(stack) /\ stack[n] \in Frames /\ Top = stack[n]
  BY DEF Top, Last
<1>2. top \in Frames /\ top.id = stack[n].id
  BY <1>1, SessionConstants DEF Frames
<1>3. TopAsked(Top.asked + 1) = [stack EXCEPT ![n] = top]
  BY <1>1 DEF TopAsked, Frames
<1> HIDE DEF top
<1> QED
  BY <1>1, <1>2, <1>3

\* The innermost expansion has a number.
LEMMA TopId ==
  ASSUME stack \in Seq(Frames), stack # <<>>
  PROVE  Len(stack) \in Nat \ {0} /\ stack[Len(stack)].id \in Nat
<1>1. Len(stack) \in Nat \ {0} /\ stack[Len(stack)] \in Frames
  OBVIOUS
<1> QED BY <1>1, SessionConstants DEF Frames

\* Where a request can be under way, and which.
LEMMA PeerTalks ==
  ASSUME SessionIInv, PeerUp
  PROVE  \/ Quiet
         \/ Live /\ cpos \in {"ball", "sendTiming"} /\ toEngine = <<>> /\ Silent
                 /\ Listens(Len(stack))
         \/ Live /\ cpos = "wait" /\ stack # <<>> /\ Waiting
         \/ Live /\ cpos = "timing" /\ Served("timing", "timing", Len(stack))
         \/ cpos = "parking" /\ Served("end", "ended", 0)
<1>1. \/ startPc \in {"helloResident", "helloOwn", "ok"}
      \/ Live \/ cpos = "parking"
  BY DEF PeerUp, SessionIInv, TypeOK, ProcessIInv, MineInUse
<1>2. cpos \in {"ball", "wait", "sendTiming", "timing", "parking"}
  BY DEF SessionIInv, TypeOK
<1> QED
  BY <1>1, <1>2 DEF SessionIInv, ProcessIInv, TalkOK, TalkIInv

\* What is under way to the engine says where the two sides stand.
LEMMA RequestUnderWay ==
  ASSUME SessionIInv, PeerUp, toEngine # <<>>
  PROVE  \/ /\ Live /\ cpos = "wait" /\ stack # <<>> /\ Silent /\ Listens(Len(stack) - 1)
            /\ \E f \in Files, text, settings \in BOOLEAN :
                 toEngine = <<Request(stack[Len(stack)].id, f, text, settings)>>
         \/ /\ Live /\ cpos = "wait" /\ stack # <<>> /\ Silent /\ Agree(Len(stack))
            /\ toEngine = <<Msg("a", stack[Len(stack)].id)>> /\ epos = "ask"
         \/ /\ Live /\ cpos = "timing" /\ Silent /\ Listens(Len(stack))
            /\ toEngine = <<Msg("timing", 0)>>
         \/ cpos = "parking" /\ Silent /\ Listens(0) /\ toEngine = <<Msg("end", 0)>>
  BY PeerTalks DEF Quiet, Waiting, Served

\* The macro runs only while the compiler waits for the innermost expansion.
LEMMA MacroRuns ==
  ASSUME SessionIInv, PeerUp, epos = "handle"
  PROVE  /\ Live /\ cpos = "wait" /\ stack # <<>> /\ toEngine = <<>> /\ Silent
         /\ Agree(Len(stack))
  BY PeerTalks DEF Quiet, Waiting, Served, Listens

-----------------------------------------------------------------------------
(* Each step keeps the handle, the start-up and the processes in order.    *)

\* Every step keeps the handle, the start-up and the processes in order.
LEMMA ProcessStep == SessionIInv /\ [Next]_vars => ProcessIInv'
<1> SUFFICES ASSUME SessionIInv, [Next]_vars PROVE ProcessIInv'
  OBVIOUS
<1> USE SessionConstants DEF SessionIInv, ProcessIInv
<1>1. CASE BeginRun
  BY <1>1 DEF BeginRun, procs, talk, wire, engine, TypeOK, HandleOK, TalkOK, FallBack,
      MineInUse, SlotParked, NoneLost, Live
<1>2. CASE StartEngine
  BY <1>2 DEF StartEngine, process, procs, sent, talk, wire, engine, TypeOK, HandleOK, TalkOK,
      FallBack, MineInUse, SlotParked, NoneLost, Live
<1>3. CASE TryDaemon
  BY <1>3 DEF TryDaemon, NewSession, process, sent, talk, wire, engine, TypeOK, HandleOK,
      TalkOK, FallBack, MineInUse, SlotParked, NoneLost, Live
<1>4. CASE TakeResident
  BY <1>4 DEF TakeResident, NewSession, process, sent, talk, wire, engine, TypeOK, HandleOK,
      TalkOK, FallBack, MineInUse, SlotParked, NoneLost, Live
<1>5. CASE HelloResident
  BY <1>5 DEF HelloResident, NewSession, process, sent, talk, wire, engine, TypeOK, HandleOK,
      TalkOK, FallBack, MineInUse, SlotParked, NoneLost, Live
<1>6. CASE SpawnOwn
  BY <1>6 DEF SpawnOwn, NewSession, process, sent, talk, TypeOK, HandleOK, TalkOK, FallBack,
      MineInUse, SlotParked, NoneLost, Live
<1>7. CASE HelloOwn
  BY <1>7 DEF HelloOwn, process, sent, talk, wire, engine, TypeOK, HandleOK, TalkOK, FallBack,
      MineInUse, SlotParked, NoneLost, Live
<1>8. CASE StartCancelled
  BY <1>8 DEF StartCancelled, process, procs, sent, talk, wire, engine, TypeOK, HandleOK,
      TalkOK, FallBack, MineInUse, SlotParked, NoneLost, Live
<1>9. CASE JoinEngine
  BY <1>9 DEF JoinEngine, process, procs, talk, wire, engine, TypeOK, HandleOK, TalkOK,
      FallBack, MineInUse, SlotParked, NoneLost, Live
<1>10. CASE ReadLine
  <2>1. UNCHANGED <<process, phase, handle, procs, sent>> /\ cpos = "wait" /\ stack # <<>>
    BY <1>10 DEF ReadLine, TalkOK
  <2>2. /\ cpos' \in {"ball", "wait", "sendTiming"}
        /\ cpos' = "wait" => stack' = TopAsked(Top.asked + 1)
    BY <1>10 DEF ReadLine
  <2>3. cpos' = "wait" => stack' # <<>>
    BY <2>1, <2>2 DEF TopAsked, SeqsOK
  <2> QED BY <2>1, <2>2, <2>3 DEF process, handle, procs, sent, HandleOK, TalkOK, FallBack,
      MineInUse, SlotParked, NoneLost, Live
<1>11. CASE TooManyLines
  BY <1>11 DEF TooManyLines, Poison, Kill, process, sent, engine, TypeOK, HandleOK, TalkOK,
      FallBack, MineInUse, SlotParked, NoneLost, Live
<1>12. CASE NoReply
  BY <1>12 DEF NoReply, Poison, Kill, process, sent, engine, TypeOK, HandleOK, TalkOK,
      FallBack, MineInUse, SlotParked, NoneLost, Live
<1>13. CASE Answer
  BY <1>13 DEF Answer, process, handle, procs, sent, engine, TypeOK, HandleOK, TalkOK,
      FallBack, MineInUse, SlotParked, NoneLost, Live
<1>14. CASE UnwindPoisoned
  BY <1>14 DEF UnwindPoisoned, process, handle, procs, sent, wire, engine, TypeOK, HandleOK,
      TalkOK, FallBack, MineInUse, SlotParked, NoneLost, Live
<1>15. CASE SendTiming
  BY <1>15 DEF SendTiming, process, handle, procs, sent, engine, TypeOK, HandleOK, TalkOK,
      FallBack, MineInUse, SlotParked, NoneLost, Live
<1>16. CASE ReadTiming
  <2>1. /\ cpos = "timing" /\ cpos' = "ball"
        /\ UNCHANGED <<process, phase, eng, startPc, cancelled, how, slot, daemonFailed>>
        /\ UNCHANGED <<sent, stack>>
    BY <1>16 DEF ReadTiming
  <2>2. CASE UNCHANGED <<poisoned, terminated, mine, alive, daemonUp>>
    BY <2>1, <2>2 DEF process, sent, HandleOK, TalkOK, FallBack, MineInUse, SlotParked,
        NoneLost, Live
  <2>3. CASE poisoned' = TRUE /\ terminated' = TRUE /\ Kill
    BY <2>1, <2>3 DEF Kill, process, sent, HandleOK, TalkOK, FallBack, MineInUse, SlotParked,
        NoneLost, Live
  <2> QED BY <1>16, <2>2, <2>3 DEF ReadTiming
<1>17. CASE EndTyping
  BY <1>17 DEF EndTyping, process, procs, sent, talk, wire, engine, TypeOK, HandleOK, TalkOK,
      FallBack, MineInUse, SlotParked, NoneLost, Live
<1>18. CASE DropPending
  BY <1>18 DEF DropPending, process, procs, sent, talk, wire, engine, TypeOK, HandleOK, TalkOK,
      FallBack, MineInUse, SlotParked, NoneLost, Live
<1>19. CASE Park
  BY <1>19 DEF Park, process, procs, sent, engine, TypeOK, HandleOK, TalkOK, FallBack,
      MineInUse, SlotParked, NoneLost, Live
<1>20. CASE ReadEnded
  BY <1>20 DEF ReadEnded, Kill, process, handle, sent, engine, TypeOK, HandleOK, TalkOK,
      FallBack, MineInUse, SlotParked, NoneLost, Live
<1>21. CASE CloseEngine
  BY <1>21 DEF CloseEngine, Kill, process, sent, talk, wire, engine, TypeOK, HandleOK, TalkOK,
      FallBack, MineInUse, SlotParked, NoneLost, Live
<1>22. CASE EndRun
  BY <1>22 DEF EndRun, process, handle, procs, sent, talk, wire, engine, TypeOK, HandleOK,
      TalkOK, FallBack, MineInUse, SlotParked, NoneLost, Live
<1>23. CASE ReadRequest
  BY <1>23 DEF ReadRequest, BeginExpand, process, handle, procs, sent, talk, engine, TypeOK,
      HandleOK, TalkOK, FallBack, MineInUse, SlotParked, NoneLost, Live
<1>24. CASE Ask
  BY <1>24 DEF Ask, process, handle, procs, sent, talk, TypeOK, HandleOK, TalkOK, FallBack,
      MineInUse, SlotParked, NoneLost, Live
<1>25. CASE Reply
  BY <1>25 DEF Reply, process, handle, procs, sent, talk, TypeOK, HandleOK, TalkOK, FallBack,
      MineInUse, SlotParked, NoneLost, Live
<1>26. CASE Log
  BY <1>26 DEF Log, process, handle, procs, sent, talk, engine, TypeOK, HandleOK, TalkOK,
      FallBack, MineInUse, SlotParked, NoneLost, Live
<1>27. CASE Dies
  <2>1. /\ UNCHANGED <<process, phase, handle, mine, slot, daemonFailed, sent, talk>>
        /\ alive' \subseteq alive /\ (daemonUp' => daemonUp)
    BY <1>27 DEF Dies
  <2> QED BY <2>1 DEF process, handle, sent, talk, HandleOK, TalkOK, FallBack, MineInUse,
      SlotParked, NoneLost, Live
<1>28. ASSUME NEW f \in Files, Expand(f) PROVE ProcessIInv'
  BY <1>28 DEF Expand, process, handle, procs, engine, TypeOK, HandleOK, TalkOK, FallBack,
      MineInUse, SlotParked, NoneLost, Live
<1>29. CASE UNCHANGED vars
  BY <1>29 DEF vars, process, handle, procs, sent, talk, wire, engine, TypeOK, HandleOK,
      TalkOK, FallBack, MineInUse, SlotParked, NoneLost, Live
<1> QED
  BY <1>1, <1>2, <1>3, <1>4, <1>5, <1>6, <1>7, <1>8, <1>9, <1>10, <1>11, <1>12, <1>13, <1>14,
      <1>15, <1>16, <1>17, <1>18, <1>19, <1>20, <1>21, <1>22, <1>23, <1>24, <1>25, <1>26, <1>27, <1>28, <1>29 DEF Next, StartThread, Compiler, EngineStep

-----------------------------------------------------------------------------
(* Types.  The parts of TypeOK.                                            *)

PlacesOK ==
  /\ run \in 0..MaxRuns /\ phase \in {"between", "typing", "ending"} /\ exps \in 0..MaxExps
  /\ eng \in {"none", "pending", "live", "failed"}
  /\ startPc \in {"idle", "daemon", "resident", "helloResident", "own", "helloOwn", "ok", "err"}
  /\ how \in {"none", "daemon", "resident", "own"}
  /\ cpos \in {"ball", "wait", "sendTiming", "timing", "parking"}
  /\ epos \in {"idle", "handle", "ask"} /\ late \in 0..MaxLate

FlagsOK ==
  /\ resident \in BOOLEAN /\ timing \in BOOLEAN /\ cancelled \in BOOLEAN /\ fresh \in BOOLEAN
  /\ daemonUp \in BOOLEAN /\ daemonFailed \in BOOLEAN /\ poisoned \in BOOLEAN
  /\ terminated \in BOOLEAN /\ settingsSent \in BOOLEAN /\ unknown \in BOOLEAN

ProcsOK == mine \in 0..MaxProcs /\ slot \in 0..MaxProcs /\ alive \subseteq 1..MaxProcs

TextsOK == sourcesSent \subseteq Files /\ eSources \subseteq Files /\ eSettings \in 0..MaxRuns

StackOK == stack \in Seq(Frames) /\ Len(stack) <= MaxDepth

\* The types of the model are those of its parts,
LEMMA TypeParts == SessionIInv => PlacesOK /\ FlagsOK /\ ProcsOK /\ TextsOK /\ StackOK
<1> SUFFICES ASSUME SessionIInv PROVE PlacesOK /\ FlagsOK /\ ProcsOK /\ TextsOK /\ StackOK
  OBVIOUS
<1>1. FlagsOK
  BY DEF SessionIInv, TypeOK, FlagsOK
<1>2. PlacesOK /\ ProcsOK /\ TextsOK
  BY DEF SessionIInv, TypeOK, PlacesOK, ProcsOK, TextsOK
<1> QED
  BY <1>1, <1>2 DEF SessionIInv, TypeOK, SeqsOK, StackOK

\* and the parts together are all of them.
LEMMA TypeWhole ==
  PlacesOK /\ FlagsOK /\ ProcsOK /\ TextsOK /\ StackOK => TypeOK
<1> SUFFICES ASSUME PlacesOK, FlagsOK, ProcsOK, TextsOK, StackOK PROVE TypeOK
  OBVIOUS
<1>1. {resident, timing, cancelled, fresh, daemonUp, daemonFailed, poisoned, terminated,
       settingsSent, unknown} \subseteq BOOLEAN
  BY DEF FlagsOK
<1>2. \A i \in 1..Len(stack) : stack[i] \in [id : 1..MaxExps, asked : 0..MaxQueries]
  <2>1. \A i \in 1..Len(stack) : stack[i] \in Frames
    BY DEF StackOK
  <2> QED BY <2>1 DEF Frames
<1> QED
  BY <1>1, <1>2 DEF PlacesOK, ProcsOK, TextsOK, StackOK, TypeOK

\* Where the run, the handle and the start-up thread are.
LEMMA PlacesStep == SessionIInv /\ [Next]_vars => PlacesOK'
<1> SUFFICES ASSUME PlacesOK, [Next]_vars PROVE PlacesOK'
  BY TypeParts
<1> USE SessionConstants
<1>1. CASE BeginRun
  BY <1>1 DEF BeginRun, procs, talk, wire, engine, PlacesOK
<1>2. CASE StartEngine
  BY <1>2 DEF StartEngine, process, procs, sent, talk, wire, engine, PlacesOK
<1>3. CASE TryDaemon
  BY <1>3 DEF TryDaemon, NewSession, process, sent, talk, wire, engine, PlacesOK
<1>4. CASE TakeResident
  BY <1>4 DEF TakeResident, NewSession, process, sent, talk, wire, engine, PlacesOK
<1>5. CASE HelloResident
  BY <1>5 DEF HelloResident, NewSession, process, sent, talk, wire, engine, PlacesOK
<1>6. CASE SpawnOwn
  BY <1>6 DEF SpawnOwn, NewSession, process, sent, talk, PlacesOK
<1>7. CASE HelloOwn
  BY <1>7 DEF HelloOwn, process, sent, talk, wire, engine, PlacesOK
<1>8. CASE StartCancelled
  BY <1>8 DEF StartCancelled, process, procs, sent, talk, wire, engine, PlacesOK
<1>9. CASE JoinEngine
  BY <1>9 DEF JoinEngine, process, procs, talk, wire, engine, PlacesOK
<1>10. CASE ReadLine
  BY <1>10 DEF ReadLine, process, handle, procs, sent, engine, PlacesOK
<1>11. CASE TooManyLines
  BY <1>11 DEF TooManyLines, Poison, Kill, process, sent, engine, PlacesOK
<1>12. CASE NoReply
  BY <1>12 DEF NoReply, Poison, Kill, process, sent, engine, PlacesOK
<1>13. CASE Answer
  BY <1>13 DEF Answer, process, handle, procs, sent, engine, PlacesOK
<1>14. CASE UnwindPoisoned
  BY <1>14 DEF UnwindPoisoned, process, handle, procs, sent, wire, engine, PlacesOK
<1>15. CASE SendTiming
  BY <1>15 DEF SendTiming, process, handle, procs, sent, engine, PlacesOK
<1>16. CASE ReadTiming
  BY <1>16 DEF ReadTiming, Kill, process, sent, engine, PlacesOK
<1>17. CASE EndTyping
  BY <1>17 DEF EndTyping, process, procs, sent, talk, wire, engine, PlacesOK
<1>18. CASE DropPending
  BY <1>18 DEF DropPending, process, procs, sent, talk, wire, engine, PlacesOK
<1>19. CASE Park
  BY <1>19 DEF Park, process, procs, sent, engine, PlacesOK
<1>20. CASE ReadEnded
  BY <1>20 DEF ReadEnded, Kill, process, handle, sent, engine, PlacesOK
<1>21. CASE CloseEngine
  BY <1>21 DEF CloseEngine, Kill, process, sent, talk, wire, engine, PlacesOK
<1>22. CASE EndRun
  BY <1>22 DEF EndRun, process, handle, procs, sent, talk, wire, engine, PlacesOK
<1>23. CASE ReadRequest
  BY <1>23 DEF ReadRequest, BeginExpand, process, handle, procs, sent, talk, engine, PlacesOK
<1>24. CASE Ask
  BY <1>24 DEF Ask, process, handle, procs, sent, talk, PlacesOK
<1>25. CASE Reply
  BY <1>25 DEF Reply, process, handle, procs, sent, talk, PlacesOK
<1>26. CASE Log
  BY <1>26 DEF Log, process, handle, procs, sent, talk, engine, PlacesOK
<1>27. CASE Dies
  BY <1>27 DEF Dies, process, handle, sent, talk, wire, engine, PlacesOK
<1>28. ASSUME NEW f \in Files, Expand(f) PROVE PlacesOK'
  BY <1>28 DEF Expand, process, handle, procs, engine, PlacesOK
<1>29. CASE UNCHANGED vars
  BY <1>29 DEF vars, process, handle, procs, sent, talk, wire, engine, PlacesOK
<1> QED
  BY <1>1, <1>2, <1>3, <1>4, <1>5, <1>6, <1>7, <1>8, <1>9, <1>10, <1>11, <1>12, <1>13, <1>14,
      <1>15, <1>16, <1>17, <1>18, <1>19, <1>20, <1>21, <1>22, <1>23, <1>24, <1>25, <1>26, <1>27, <1>28, <1>29 DEF Next, StartThread, Compiler, EngineStep

\* The flags of the handle, of the engine and of the run.
LEMMA FlagsStep == SessionIInv /\ [Next]_vars => FlagsOK'
<1> SUFFICES ASSUME FlagsOK, [Next]_vars PROVE FlagsOK'
  BY TypeParts
<1>1. CASE BeginRun
  BY <1>1 DEF BeginRun, procs, talk, wire, engine, FlagsOK
<1>2. CASE TryDaemon
  BY <1>2 DEF TryDaemon, NewSession, process, sent, talk, wire, engine, FlagsOK
<1>3. CASE TakeResident
  BY <1>3 DEF TakeResident, NewSession, process, sent, talk, wire, engine, FlagsOK
<1>4. CASE JoinEngine
  BY <1>4 DEF JoinEngine, process, procs, talk, wire, engine, FlagsOK
<1>5. CASE TooManyLines
  BY <1>5 DEF TooManyLines, Poison, Kill, process, sent, engine, FlagsOK
<1>6. CASE NoReply
  BY <1>6 DEF NoReply, Poison, Kill, process, sent, engine, FlagsOK
<1>7. CASE ReadTiming
  BY <1>7 DEF ReadTiming, Kill, process, sent, engine, FlagsOK
<1>8. CASE EndTyping
  BY <1>8 DEF EndTyping, process, procs, sent, talk, wire, engine, FlagsOK
<1>9. CASE Park
  BY <1>9 DEF Park, process, procs, sent, engine, FlagsOK
<1>10. CASE ReadEnded
  BY <1>10 DEF ReadEnded, Kill, process, handle, sent, engine, FlagsOK
<1>11. CASE CloseEngine
  BY <1>11 DEF CloseEngine, Kill, process, sent, talk, wire, engine, FlagsOK
<1>12. CASE ReadRequest
  BY <1>12 DEF ReadRequest, BeginExpand, process, handle, procs, sent, talk, engine, FlagsOK
<1>13. CASE Dies
  BY <1>13 DEF Dies, process, handle, sent, talk, wire, engine, FlagsOK
<1>14. CASE \E f \in Files : Expand(f)
  BY <1>14 DEF Expand, process, handle, procs, engine, FlagsOK
<1>15. CASE StartEngine \/ HelloResident \/ SpawnOwn \/ HelloOwn \/ StartCancelled \/ ReadLine
            \/ Answer \/ UnwindPoisoned
  BY <1>15 DEF StartEngine, HelloResident, NewSession, SpawnOwn, HelloOwn, StartCancelled,
      ReadLine, Answer, UnwindPoisoned, process, handle, procs, sent, talk, wire, engine,
        FlagsOK
<1>16. CASE SendTiming \/ DropPending \/ EndRun \/ Ask \/ Reply \/ Log
  BY <1>16 DEF SendTiming, DropPending, EndRun, Ask, Reply, Log, process, handle, procs, sent,
      talk, wire, engine, FlagsOK
<1>17. CASE UNCHANGED vars
  BY <1>17 DEF vars, process, handle, procs, sent, talk, wire, engine, FlagsOK
<1> QED
  BY <1>1, <1>2, <1>3, <1>4, <1>5, <1>6, <1>7, <1>8, <1>9, <1>10, <1>11, <1>12, <1>13, <1>14,
      <1>15, <1>16, <1>17 DEF Next, StartThread, Compiler, EngineStep

\* What has been sent and what the engine holds.
LEMMA TextsStep == SessionIInv /\ [Next]_vars => TextsOK'
<1> SUFFICES ASSUME SessionIInv, TextsOK, PlacesOK, [Next]_vars PROVE TextsOK'
  BY TypeParts
<1> USE SessionConstants
<1>1. CASE BeginRun
  BY <1>1 DEF BeginRun, procs, talk, wire, engine, TextsOK
<1>2. CASE TryDaemon
  BY <1>2 DEF TryDaemon, NewSession, process, sent, talk, wire, engine, TextsOK
<1>3. CASE TakeResident
  BY <1>3 DEF TakeResident, NewSession, process, sent, talk, wire, engine, TextsOK
<1>4. CASE HelloResident
  BY <1>4 DEF HelloResident, NewSession, process, sent, talk, wire, engine, TextsOK
<1>5. CASE SpawnOwn
  BY <1>5 DEF SpawnOwn, NewSession, process, sent, talk, TextsOK
<1>6. CASE ReadRequest
  <2>1. \A m : toEngine # <<>> /\ m = Head(toEngine) /\ m.t = "expand" => m.file \in Files
    <3> SUFFICES ASSUME toEngine # <<>>, Head(toEngine).t = "expand"
                 PROVE  Head(toEngine).file \in Files
      OBVIOUS
    <3> QED BY <1>6, RequestUnderWay DEF ReadRequest, Request, Msg
  <2>2. /\ UNCHANGED sourcesSent /\ run \in 0..MaxRuns
        /\ eSources' \subseteq Files /\ eSettings' \in {eSettings, run}
    BY <1>6, <2>1 DEF ReadRequest, BeginExpand, sent, engine, TextsOK, PlacesOK
  <2> QED BY <2>2 DEF TextsOK
<1>7. CASE \E f \in Files : Expand(f)
  BY <1>7 DEF Expand, process, handle, procs, engine, TextsOK
<1>8. CASE StartEngine \/ HelloOwn \/ StartCancelled \/ JoinEngine \/ ReadLine \/ TooManyLines
            \/ NoReply \/ Answer
  BY <1>8 DEF StartEngine, HelloOwn, StartCancelled, JoinEngine, ReadLine, TooManyLines,
      Poison, Kill, NoReply, Answer, process, handle, procs, sent, talk, wire, engine, TextsOK
<1>9. CASE UnwindPoisoned \/ SendTiming \/ ReadTiming \/ EndTyping \/ DropPending \/ Park
            \/ ReadEnded \/ CloseEngine
  BY <1>9 DEF UnwindPoisoned, SendTiming, ReadTiming, Kill, EndTyping, DropPending, Park,
      ReadEnded, CloseEngine, process, handle, procs, sent, talk, wire, engine, TextsOK
<1>10. CASE EndRun \/ Ask \/ Reply \/ Log \/ Dies
  BY <1>10 DEF EndRun, Ask, Reply, Log, Dies, process, handle, procs, sent, talk, wire, engine,
      TextsOK
<1>11. CASE UNCHANGED vars
  BY <1>11 DEF vars, process, handle, procs, sent, talk, wire, engine, TextsOK
<1> QED
  BY <1>1, <1>2, <1>3, <1>4, <1>5, <1>6, <1>7, <1>8, <1>9, <1>10, <1>11 DEF Next, StartThread,
      Compiler, EngineStep

\* There is a name for the JVM that is spawned: no other is running.
LEMMA NewProcFree ==
  ASSUME SessionIInv, startPc \in {"resident", "own"}, slot = 0
  PROVE  NewProc \in 1..MaxProcs
<1>1. mine = 0
  BY DEF SessionIInv, ProcessIInv, MineInUse, HandleOK, TalkOK, Live
<1>2. alive = {}
  BY <1>1, TypeParts DEF SessionIInv, ProcessIInv, NoneLost, ProcsOK
<1>3. 1 \in 1..MaxProcs
  BY SessionConstants
<1> QED
  BY <1>2, <1>3 DEF NewProc

\* The JVMs of the process.
LEMMA ProcsStep == SessionIInv /\ [Next]_vars => ProcsOK'
<1> SUFFICES ASSUME SessionIInv, ProcsOK, [Next]_vars PROVE ProcsOK'
  BY TypeParts
<1>1. 0 \in 0..MaxProcs
  BY SessionConstants
<1>2. ASSUME mine' \in {mine, 0}, slot' \in {slot, mine}, alive' \subseteq alive PROVE ProcsOK'
  BY <1>1, <1>2 DEF ProcsOK
<1>3. CASE TakeResident
  <2>1. slot = 0 => NewProc \in 1..MaxProcs
    BY <1>3, NewProcFree DEF TakeResident
  <2>2. slot' = 0 /\ mine' \in {slot, IF slot = 0 THEN NewProc ELSE slot}
        /\ (mine' = 0 => alive' = alive) /\ alive' \subseteq alive \cup {mine'}
    BY <1>3, <2>1 DEF TakeResident, ProcsOK
  <2> QED BY <1>1, <2>1, <2>2 DEF ProcsOK
<1>4. CASE SpawnOwn
  <2>1. NewProc \in 1..MaxProcs
    BY <1>4, NewProcFree DEF SpawnOwn, SessionIInv, ProcessIInv, FallBack
  <2>2. slot' = slot /\ mine' = NewProc /\ alive' = alive \cup {NewProc}
    BY <1>4 DEF SpawnOwn
  <2> HIDE DEF NewProc
  <2> QED BY <2>1, <2>2 DEF ProcsOK
<1>5. CASE HelloResident \/ HelloOwn \/ TooManyLines \/ NoReply \/ ReadTiming \/ ReadEnded
           \/ CloseEngine \/ Dies
  <2>1. mine' \in {mine, 0} /\ slot' \in {slot, mine} /\ alive' \subseteq alive
    BY <1>5 DEF HelloResident, HelloOwn, TooManyLines, NoReply, ReadTiming, ReadEnded,
        CloseEngine,
                Dies, Poison, Kill
  <2> QED BY <1>2, <2>1
<1>6. CASE BeginRun \/ StartEngine \/ TryDaemon \/ StartCancelled \/ JoinEngine \/ ReadLine
           \/ Answer \/ UnwindPoisoned \/ SendTiming \/ EndTyping \/ DropPending \/ Park
           \/ EndRun \/ ReadRequest \/ Ask \/ Reply \/ Log \/ (\E f \in Files : Expand(f))
           \/ UNCHANGED vars
  BY <1>6 DEF BeginRun, StartEngine, TryDaemon, StartCancelled, JoinEngine, ReadLine, Answer,
      UnwindPoisoned, SendTiming, EndTyping, DropPending, Park, EndRun, ReadRequest, Ask,
        Reply, Log, Expand, vars, procs, ProcsOK
<1> QED
  BY <1>3, <1>4, <1>5, <1>6 DEF Next, StartThread, Compiler, EngineStep

\* The expansions under way in the compiler.
LEMMA StackStep == SessionIInv /\ [Next]_vars => StackOK'
<1> SUFFICES ASSUME SessionIInv, StackOK, [Next]_vars PROVE StackOK'
  BY TypeParts
<1>1. ASSUME stack # <<>>, stack' = Pop(stack) PROVE StackOK'
  BY <1>1, PopProperties, SessionConstants DEF StackOK
<1>2. ASSUME NEW f \in Files, Expand(f) PROVE StackOK'
  <2>1. [id |-> exps + 1, asked |-> 0] \in Frames
    BY <1>2, TypeParts, SessionConstants DEF Expand, Frames, PlacesOK
  <2> QED BY <1>2, <2>1, SessionConstants DEF Expand, StackOK
<1>3. CASE ReadLine
  <2>1. stack # <<>>
    BY <1>3 DEF ReadLine, SessionIInv, ProcessIInv, TalkOK
  <2>2. CASE stack' = Pop(stack)
    BY <1>1, <2>1, <2>2
  <2>3. CASE stack' = TopAsked(Top.asked + 1) /\ Top.asked < MaxQueries
    BY <2>1, <2>3, TopAskedProperties DEF StackOK
  <2> QED BY <1>3, <2>2, <2>3 DEF ReadLine
<1>4. CASE TooManyLines \/ NoReply \/ UnwindPoisoned
  <2>1. stack' = stack \/ (stack # <<>> /\ stack' = Pop(stack))
    BY <1>4 DEF TooManyLines, NoReply, UnwindPoisoned, Poison
  <2> QED BY <1>1, <2>1 DEF StackOK
<1>5. CASE BeginRun \/ StartEngine \/ TryDaemon \/ TakeResident \/ HelloResident \/ SpawnOwn
           \/ HelloOwn \/ StartCancelled \/ JoinEngine \/ Answer \/ SendTiming \/ ReadTiming
           \/ EndTyping \/ DropPending \/ Park \/ ReadEnded \/ CloseEngine \/ EndRun
           \/ ReadRequest \/ Ask \/ Reply \/ Log \/ Dies \/ UNCHANGED vars
  BY <1>5 DEF BeginRun, StartEngine, TryDaemon, TakeResident, HelloResident, SpawnOwn,
      HelloOwn, StartCancelled, JoinEngine, Answer, SendTiming, ReadTiming, EndTyping,
        DropPending, Park, ReadEnded, CloseEngine, EndRun, ReadRequest, Ask, Reply, Log, Dies,
        vars, talk, StackOK
<1> QED
  BY <1>2, <1>3, <1>4, <1>5 DEF Next, StartThread, Compiler, EngineStep

\* Every step keeps the types.
LEMMA TypeStep == SessionIInv /\ [Next]_vars => TypeOK'
<1> SUFFICES ASSUME SessionIInv, [Next]_vars PROVE TypeOK'
  OBVIOUS
<1>1. PlacesOK' /\ FlagsOK' /\ ProcsOK' /\ TextsOK' /\ StackOK'
  BY PlacesStep, FlagsStep, ProcsStep, TextsStep, StackStep
<1>2. {resident, timing, cancelled, fresh, daemonUp, daemonFailed, poisoned, terminated,
       settingsSent, unknown}' \subseteq BOOLEAN
  BY <1>1 DEF FlagsOK
<1>3. \A i \in 1..Len(stack') : stack'[i] \in [id : 1..MaxExps, asked : 0..MaxQueries]
  <2>1. \A i \in 1..Len(stack') : stack'[i] \in Frames
    BY <1>1 DEF StackOK
  <2> QED BY <2>1 DEF Frames
<1> QED
  BY <1>1, <1>2, <1>3 DEF PlacesOK, ProcsOK, TextsOK, StackOK, TypeOK
-----------------------------------------------------------------------------
(* The conversation: one lemma for what each kind of step does to a line.  *)

\* A line is written after those that are under way.
LEMMA AppendLine ==
  ASSUME SeqsOK, NEW m \in Lines, toCompiler' = Append(toCompiler, m)
  PROVE  /\ toCompiler' \in Seq(Lines)
         /\ m.t = "log" => (Silent => Silent') /\ \A k, id : Says(k, id) => Says(k, id)'
         /\ m.t # "log" /\ Silent => Says({m.t}, m.id)'
<1>1. /\ toCompiler' \in Seq(Lines) /\ Len(toCompiler') = Len(toCompiler) + 1
      /\ Len(toCompiler) \in Nat /\ toCompiler \in Seq(Lines)
      /\ \A i \in 1..Len(toCompiler) : toCompiler'[i] = toCompiler[i]
      /\ toCompiler'[Len(toCompiler) + 1] = m
  BY DEF SeqsOK
<1>2. /\ DOMAIN toCompiler = 1..Len(toCompiler)
      /\ DOMAIN toCompiler' = 1..(Len(toCompiler) + 1)
  BY <1>1
<1>3. ASSUME m.t = "log", Silent PROVE Silent'
  BY <1>1, <1>2, <1>3 DEF Silent
<1>4. ASSUME m.t = "log", NEW k, NEW id, Says(k, id) PROVE Says(k, id)'
  BY <1>1, <1>2, <1>4 DEF Says
<1>5. ASSUME m.t # "log", Silent PROVE Says({m.t}, m.id)'
  BY <1>1, <1>2, <1>5 DEF Says, Silent
<1> QED
  BY <1>1, <1>3, <1>4, <1>5

\* The first line under way is read, and the others remain.
LEMMA ReadFirst ==
  ASSUME SeqsOK, toCompiler # <<>>, toCompiler' = Tail(toCompiler)
  PROVE  /\ toCompiler' \in Seq(Lines) /\ Head(toCompiler) \in Lines
         /\ Silent => Head(toCompiler).t = "log" /\ Silent'
         /\ Head(toCompiler).t = "log" => \A k, id : "log" \notin k /\ Says(k, id) => Says(k, id)'
         /\ Head(toCompiler).t # "log" => \A k, id : Says(k, id) =>
              Silent' /\ Head(toCompiler).t \in k /\ Head(toCompiler).id = id
<1>1. /\ toCompiler' \in Seq(Lines) /\ Len(toCompiler') = Len(toCompiler) - 1
      /\ Len(toCompiler) \in Nat \ {0} /\ Head(toCompiler) = toCompiler[1]
      /\ Head(toCompiler) \in Lines
      /\ \A i \in 1..(Len(toCompiler) - 1) : toCompiler'[i] = toCompiler[i + 1]
  BY DEF SeqsOK
<1>2. /\ DOMAIN toCompiler = 1..Len(toCompiler)
      /\ DOMAIN toCompiler' = 1..(Len(toCompiler) - 1)
  BY <1>1 DEF SeqsOK
<1>3. ASSUME Silent PROVE Head(toCompiler).t = "log" /\ Silent'
  BY <1>1, <1>2, <1>3 DEF Silent
<1>4. ASSUME Head(toCompiler).t = "log", NEW k, NEW id, "log" \notin k, Says(k, id)
      PROVE  Says(k, id)'
  <2>1. PICK i \in 1..Len(toCompiler) :
          /\ toCompiler[i].t \in k /\ toCompiler[i].id = id
          /\ \A j \in 1..Len(toCompiler) : j # i => toCompiler[j].t = "log"
    BY <1>2, <1>4 DEF Says
  <2>2. i # 1 /\ i - 1 \in 1..(Len(toCompiler) - 1) /\ toCompiler'[i - 1] = toCompiler[i]
    BY <1>1, <1>4, <2>1
  <2>3. \A j \in 1..(Len(toCompiler) - 1) : j # i - 1 => toCompiler'[j].t = "log"
    BY <1>1, <2>1
  <2> QED BY <1>2, <2>1, <2>2, <2>3 DEF Says
<1>5. ASSUME Head(toCompiler).t # "log", NEW k, NEW id, Says(k, id)
      PROVE  Silent' /\ Head(toCompiler).t \in k /\ Head(toCompiler).id = id
  <2>1. PICK i \in 1..Len(toCompiler) :
          /\ toCompiler[i].t \in k /\ toCompiler[i].id = id
          /\ \A j \in 1..Len(toCompiler) : j # i => toCompiler[j].t = "log"
    BY <1>2, <1>5 DEF Says
  <2>2. i = 1
    BY <1>1, <1>5, <2>1
  <2> QED BY <1>1, <1>2, <2>1, <2>2 DEF Silent
<1> QED
  BY <1>1, <1>3, <1>4, <1>5

\* What does not touch the conversation leaves it as it is.
LEMMA TalkKept ==
  ASSUME UNCHANGED <<stack, wire, estack, epos, active>>
  PROVE  /\ SeqsOK => SeqsOK'
         /\ (Silent' <=> Silent) /\ (Quiet' <=> Quiet) /\ (Waiting' <=> Waiting)
         /\ \A n : Listens(n)' <=> Listens(n)
         /\ \A r, a, n : Served(r, a, n)' <=> Served(r, a, n)
  BY DEF wire, SeqsOK, Silent, Quiet, Waiting, Says, Agree, Listens, Served

\* A new session is quiet.
LEMMA NewSessionQuiet == NewSession => Quiet' /\ (SeqsOK /\ UNCHANGED stack => SeqsOK')
  BY DEF NewSession, Quiet, Silent, SeqsOK

\* What is under way after a step, from how the compiler, the start-up and the
\* processes stand then.
LEMMA TalkStep == SessionIInv /\ [Next]_vars => SeqsOK' /\ TalkIInv'
<1> SUFFICES ASSUME SessionIInv, [Next]_vars PROVE SeqsOK' /\ TalkIInv'
  OBVIOUS
<1>0. ProcessIInv' /\ StackOK'
  BY ProcessStep, StackStep
<1>1. SeqsOK /\ stack \in Seq(Frames)
  BY DEF SessionIInv, SeqsOK
<1>2. /\ ~Live => cpos \in {"ball", "parking"}
      /\ cpos = "parking" => ~Live
      /\ Live => startPc = "idle" /\ slot = 0
      /\ ~Live /\ phase = "typing" /\ ~poisoned => eng # "live"
  BY DEF SessionIInv, TypeOK, ProcessIInv, TalkOK, HandleOK, SlotParked, Live
<1>3. CASE BeginRun \/ StartEngine \/ StartCancelled \/ HelloOwn \/ EndTyping \/ CloseEngine
           \/ EndRun \/ Dies \/ UNCHANGED vars
  <2>1. UNCHANGED <<stack, wire, estack, epos, active>> /\ cpos' = cpos /\ slot' = slot
    BY <1>3 DEF BeginRun, StartEngine, StartCancelled, HelloOwn, EndTyping, CloseEngine, EndRun,
                Dies, vars, procs, talk, wire, engine
  <2>2. /\ Live' => Live
        /\ startPc' \in {"helloResident", "helloOwn", "ok"} =>
             startPc \in {"helloResident", "helloOwn", "ok"}
    BY <1>3 DEF BeginRun, StartEngine, StartCancelled, HelloOwn, EndTyping, CloseEngine, EndRun,
                Dies, vars, handle, Live
  <2>3. /\ SeqsOK' /\ (Silent' <=> Silent) /\ (Quiet' <=> Quiet) /\ (Waiting' <=> Waiting)
        /\ \A n : Listens(n)' <=> Listens(n)
        /\ \A r, a, n : Served(r, a, n)' <=> Served(r, a, n)
    BY <1>1, <2>1, TalkKept
  <2>4. stack' = stack /\ toEngine' = toEngine
    BY <2>1 DEF wire
  <2> QED BY <2>1, <2>2, <2>3, <2>4 DEF SessionIInv, TalkIInv
<1>4. CASE JoinEngine \/ DropPending
  <2>1. UNCHANGED <<stack, wire, estack, epos, active>> /\ cpos' = cpos /\ slot' = slot
    BY <1>4 DEF JoinEngine, DropPending, procs, talk, wire, engine
  <2>2. startPc' = "idle" /\ (Live' => Quiet)
    BY <1>4 DEF JoinEngine, DropPending, Live, SessionIInv, TalkIInv
  <2>3. cpos = "ball" /\ stack = <<>>
    BY <1>4, <1>2 DEF JoinEngine, DropPending, Live, SessionIInv, ProcessIInv, TalkOK
  <2>4. Quiet => toEngine = <<>> /\ Silent /\ Listens(0)
    BY DEF Quiet, Listens, Agree
  <2>5. Len(stack') = 0
    BY <2>1, <2>3
  <2> QED BY <1>1, <2>1, <2>2, <2>3, <2>4, <2>5, TalkKept DEF SessionIInv, TalkIInv, wire
<1>5. CASE TryDaemon \/ TakeResident \/ HelloResident \/ SpawnOwn
  <2>1. UNCHANGED <<stack, cpos>> /\ ~Live' /\ cpos = "ball"
    BY <1>5, <1>2 DEF TryDaemon, TakeResident, HelloResident, SpawnOwn, talk, Live, SessionIInv,
                ProcessIInv, HandleOK, TalkOK
  <2>2. \/ NewSession
        \/ /\ UNCHANGED <<wire, engine>>
           /\ \/ startPc' \notin {"helloResident", "helloOwn", "ok"} /\ slot' = slot
              \/ slot # 0
    BY <1>5 DEF TryDaemon, TakeResident, HelloResident, SpawnOwn
  <2>3. CASE NewSession
    BY <1>1, <2>1, <2>3, NewSessionQuiet DEF TalkIInv
  <2>4. CASE UNCHANGED <<wire, engine>> /\ slot # 0
    BY <1>1, <2>1, <2>4, TalkKept DEF SessionIInv, TalkIInv, engine
  <2>5. CASE /\ UNCHANGED <<wire, engine>> /\ slot' = slot
             /\ startPc' \notin {"helloResident", "helloOwn", "ok"}
    BY <1>1, <2>1, <2>5, TalkKept DEF SessionIInv, TalkIInv, engine
  <2> QED BY <2>2, <2>3, <2>4, <2>5
<1>6. CASE TooManyLines \/ NoReply
  <2>1. Live
    BY <1>6 DEF TooManyLines, NoReply, SessionIInv, ProcessIInv, TalkOK
  <2>2. ~Live' /\ cpos' = "ball" /\ UNCHANGED <<startPc, slot, estack>> /\ toCompiler' = <<>>
    BY <1>6 DEF TooManyLines, NoReply, Poison, Live, engine
  <2> QED BY <1>0, <1>1, <1>2, <2>1, <2>2 DEF TalkIInv, SeqsOK, StackOK
<1>7. CASE UnwindPoisoned
  <2>1. ~Live /\ ~Live' /\ UNCHANGED <<cpos, startPc, slot, wire, estack, epos>> /\ cpos = "ball"
    BY <1>7 DEF UnwindPoisoned, Live, handle, procs, engine, SessionIInv, ProcessIInv, HandleOK
  <2>2. Quiet' <=> Quiet
    BY <2>1 DEF Quiet, Silent, wire
  <2> QED BY <1>0, <1>1, <2>1, <2>2 DEF SessionIInv, TalkIInv, SeqsOK, StackOK, wire
<1>8. CASE Log
  <2>1. UNCHANGED <<stack, cpos, toEngine, engine, startPc, slot>> /\ (Live' <=> Live)
    BY <1>8 DEF Log, talk, handle, procs, Live
  <2>2. Msg("log", 0) \in Lines /\ Msg("log", 0).t = "log"
    BY DEF Lines, Kinds, Msg
  <2>3. /\ toCompiler' \in Seq(Lines) /\ (Silent => Silent')
        /\ \A k, id : Says(k, id) => Says(k, id)'
    BY <1>1, <1>8, <2>2, AppendLine DEF Log
  <2>4. \A n : Agree(n)' <=> Agree(n)
    BY <2>1 DEF Agree, engine
  <2>5. \A n : Listens(n)' <=> Listens(n)
    BY <2>1, <2>4 DEF Listens, engine
  <2>6. Quiet => Quiet'
    BY <2>1, <2>3 DEF Quiet, engine
  <2>7. Waiting => Waiting'
    BY <2>1, <2>3, <2>4, <2>5 DEF Waiting, engine
  <2>8. \A r, a, n : Served(r, a, n) => Served(r, a, n)'
    BY <2>1, <2>3, <2>5 DEF Served
  <2> QED BY <1>1, <2>1, <2>3, <2>5, <2>6, <2>7, <2>8
            DEF SessionIInv, TalkIInv, SeqsOK, engine
<1>9. ASSUME NEW f \in Files, Expand(f) PROVE SeqsOK' /\ TalkIInv'
  <2>1. Live /\ Live' /\ cpos = "ball" /\ cpos' = "wait" /\ UNCHANGED <<startPc, slot>>
    BY <1>2, <1>9 DEF Expand, Live, handle, procs
  <2>2. toEngine = <<>> /\ Silent /\ Listens(Len(stack))
    BY <2>1 DEF SessionIInv, TalkIInv
  <2>3. /\ stack' = Append(stack, [id |-> exps + 1, asked |-> 0])
        /\ toEngine' = <<Request(exps + 1, f, f \notin sourcesSent, ~settingsSent)>>
        /\ UNCHANGED <<toCompiler, estack, epos, active>>
    BY <1>9, <2>2 DEF Expand, engine
  <2>4. /\ Len(stack') = Len(stack) + 1 /\ Len(stack) \in Nat
        /\ \A i \in 1..Len(stack) : stack'[i] = stack[i]
        /\ stack'[Len(stack')].id = exps + 1
    BY <1>1, <2>3
  <2>5. Silent' /\ Listens(Len(stack) - 1)'
    <3>1. Len(stack') - 1 = Len(stack)
      BY <2>4
    <3> QED BY <2>2, <2>3, <2>4, <3>1 DEF Silent, Listens, Agree
  <2>6. (f \notin sourcesSent) \in BOOLEAN /\ (~settingsSent) \in BOOLEAN
    OBVIOUS
  <2>7. Waiting'
    BY <2>3, <2>4, <2>5, <2>6 DEF Waiting
  <2> QED BY <1>0, <1>1, <1>2, <2>1, <2>3, <2>7 DEF TalkIInv, SeqsOK, StackOK
<1>10. CASE ReadLine
  <2>1. Live /\ Live' /\ cpos = "wait" /\ stack # <<>> /\ UNCHANGED <<startPc, slot>>
    BY <1>10 DEF ReadLine, Live, handle, procs, SessionIInv, ProcessIInv, TalkOK
  <2>2. Waiting /\ UNCHANGED <<toEngine, estack, epos, active>>
    BY <1>10, <2>1 DEF ReadLine, SessionIInv, TalkIInv, engine
  <2>3. toCompiler # <<>> /\ toCompiler' = Tail(toCompiler)
    BY <1>10 DEF ReadLine
  <2> DEFINE m == Head(toCompiler)
             n == Len(stack)
             id == stack[n].id
  <2>4. n \in Nat /\ n >= 1
    BY <1>1, <2>1
  <2>5. CASE m.t = "log"
    <3>1. /\ stack' = TopAsked(Top.asked + 1) /\ Top.asked < MaxQueries /\ cpos' = "wait"
      BY <1>10, <2>5 DEF ReadLine
    <3>2. /\ stack' \in Seq(Frames) /\ Len(stack') = n
          /\ \A i \in 1..n : stack'[i].id = stack[i].id
      BY <1>1, <2>1, <3>1, TopAskedProperties
    <3>3. \A k \in {n, n - 1} : (Agree(k)' <=> Agree(k)) /\ (Listens(k)' <=> Listens(k))
      BY <2>2, <2>4, <3>2 DEF Agree, Listens
    <3>4. /\ toCompiler' \in Seq(Lines) /\ (Silent => Silent')
          /\ \A k, i : "log" \notin k /\ Says(k, i) => Says(k, i)'
      BY <1>1, <2>3, <2>5, ReadFirst
    <3>5. stack'[Len(stack')].id = id /\ n \in {n, n - 1} /\ n - 1 \in {n, n - 1}
      BY <2>4, <3>2
    <3>6. Waiting'
      BY <2>2, <3>2, <3>3, <3>4, <3>5 DEF Waiting
    <3> QED BY <1>0, <1>1, <1>2, <2>1, <2>2, <3>1, <3>4, <3>6 DEF TalkIInv, SeqsOK, StackOK
  <2>6. CASE m.t = "q"
    <3>1. /\ stack' = TopAsked(Top.asked + 1) /\ Top.asked < MaxQueries /\ cpos' = "ball"
      BY <1>10, <2>6 DEF ReadLine
    <3>2. /\ stack' \in Seq(Frames) /\ Len(stack') = n
          /\ \A i \in 1..n : stack'[i].id = stack[i].id
      BY <1>1, <2>1, <3>1, TopAskedProperties
    <3>3. ~Silent /\ ~Says({"ok", "err"}, id) /\ toCompiler' \in Seq(Lines)
          /\ (Says({"q"}, id) => Silent')
      BY <1>1, <2>3, <2>6, ReadFirst
    <3>4. toEngine = <<>> /\ Silent' /\ Agree(n) /\ epos = "ask"
      BY <2>2, <3>3 DEF Waiting
    <3>5. Listens(Len(stack))'
      BY <2>2, <2>4, <3>2, <3>4 DEF Listens, Agree
    <3> QED BY <1>0, <1>1, <1>2, <2>1, <2>2, <3>1, <3>3, <3>4, <3>5 DEF TalkIInv, SeqsOK,
        StackOK
  <2>7. CASE m.t \notin {"log", "q"}
    <3>1. stack' = Pop(stack) /\ cpos' \in {"ball", "sendTiming"}
      BY <1>10, <2>7 DEF ReadLine
    <3>2. Len(stack') = n - 1 /\ \A i \in 1..(n - 1) : stack'[i] = stack[i]
      BY <1>1, <2>1, <3>1, PopProperties
    <3>3. ~Silent /\ ~Says({"q"}, id) /\ toCompiler' \in Seq(Lines)
          /\ (Says({"ok", "err"}, id) => Silent')
      BY <1>1, <2>3, <2>7, ReadFirst
    <3>4. toEngine = <<>> /\ Silent' /\ Listens(n - 1)
      BY <2>2, <3>3 DEF Waiting
    <3>5. Listens(Len(stack))'
      BY <2>2, <2>4, <3>2, <3>4 DEF Listens, Agree
    <3> QED BY <1>0, <1>1, <1>2, <2>1, <2>2, <3>1, <3>3, <3>4, <3>5 DEF TalkIInv, SeqsOK,
        StackOK
  <2> QED BY <2>5, <2>6, <2>7
<1>11. CASE Answer
  <2>1. Live /\ Live' /\ cpos = "ball" /\ cpos' = "wait" /\ stack # <<>>
        /\ UNCHANGED <<startPc, slot, stack, toCompiler, estack, epos, active>>
    BY <1>2, <1>11 DEF Answer, Live, handle, procs, engine, SessionIInv, ProcessIInv, TalkOK
  <2>2. toEngine = <<>> /\ Silent /\ Listens(Len(stack))
    BY <2>1 DEF SessionIInv, TalkIInv
  <2>3. Len(stack) \in Nat \ {0} /\ toEngine' = <<Msg("a", stack[Len(stack)].id)>>
    BY <1>1, <1>11, <2>1, <2>2 DEF Answer, Top, Last
  <2>4. Silent' /\ Agree(Len(stack))' /\ epos' = "ask"
    BY <2>1, <2>2, <2>3 DEF Silent, Listens, Agree
  <2>5. Waiting'
    BY <2>1, <2>3, <2>4 DEF Waiting
  <2> QED BY <1>1, <1>2, <2>1, <2>5 DEF TalkIInv, SeqsOK
<1>12. CASE SendTiming
  <2>1. Live /\ Live' /\ cpos = "sendTiming" /\ cpos' = "timing"
        /\ UNCHANGED <<startPc, slot, stack, toCompiler, estack, epos, active>>
    BY <1>12 DEF SendTiming, Live, handle, procs, engine, SessionIInv, ProcessIInv, TalkOK
  <2>2. toEngine = <<>> /\ Silent /\ Listens(Len(stack))
    BY <2>1 DEF SessionIInv, TalkIInv
  <2>3. toEngine' = <<Msg("timing", 0)>>
    BY <1>12, <2>2 DEF SendTiming
  <2>4. Served("timing", "timing", Len(stack))'
    BY <2>1, <2>2, <2>3 DEF Served, Silent, Listens, Agree
  <2> QED BY <1>1, <1>2, <2>1, <2>4 DEF TalkIInv, SeqsOK
<1>13. CASE ReadTiming
  <2>1. Live /\ cpos' = "ball" /\ UNCHANGED <<startPc, slot, stack, estack, epos, active>>
    BY <1>13 DEF ReadTiming, engine, SessionIInv, ProcessIInv, TalkOK
  <2>2. Served("timing", "timing", Len(stack)) /\ toCompiler # <<>>
    BY <1>13 DEF ReadTiming, SessionIInv, TalkIInv
  <2>3. CASE Head(toCompiler).t = "timing"
    <3>1. toCompiler' = Tail(toCompiler) /\ toEngine' = toEngine
      BY <1>13, <2>3 DEF ReadTiming
    <3>2. ~Silent /\ toCompiler' \in Seq(Lines) /\ (Says({"timing"}, 0) => Silent')
      BY <1>1, <2>2, <2>3, <3>1, ReadFirst
    <3>3. toEngine' = <<>> /\ Silent' /\ Listens(Len(stack))'
      BY <2>1, <2>2, <3>1, <3>2 DEF Served, Listens, Agree
    <3> QED BY <1>1, <1>2, <2>1, <3>2, <3>3 DEF TalkIInv, SeqsOK
  <2>4. CASE Head(toCompiler).t # "timing"
    <3>1. toCompiler' = <<>> /\ ~Live'
      BY <1>13, <2>4 DEF ReadTiming, Live
    <3> QED BY <1>1, <1>2, <2>1, <3>1 DEF TalkIInv, SeqsOK
  <2> QED BY <2>3, <2>4
<1>14. CASE Park
  <2>1. Live /\ ~Live' /\ cpos = "ball" /\ cpos' = "parking" /\ stack = <<>>
        /\ UNCHANGED <<startPc, slot, stack, toCompiler, estack, epos, active>>
    BY <1>14 DEF Park, Live, procs, engine, SessionIInv, TypeOK, ProcessIInv, TalkOK
  <2>2. toEngine = <<>> /\ Silent /\ Listens(0)
    BY <2>1 DEF SessionIInv, TalkIInv
  <2>3. toEngine' = <<Msg("end", 0)>>
    BY <1>14, <2>2 DEF Park
  <2>4. Served("end", "ended", 0)'
    BY <2>1, <2>2, <2>3 DEF Served, Silent, Listens, Agree
  <2> QED BY <1>1, <1>2, <2>1, <2>4 DEF TalkIInv, SeqsOK
<1>15. CASE ReadEnded
  <2>1. /\ ~Live' /\ cpos' = "ball" /\ startPc' = "idle" /\ slot = 0 /\ toCompiler' = <<>>
        /\ UNCHANGED <<stack, toEngine, estack, epos, active>>
    BY <1>15 DEF ReadEnded, Live, handle, engine, SessionIInv, ProcessIInv, TalkOK, HandleOK,
                SlotParked
  <2>2. Served("end", "ended", 0)
    BY <1>15 DEF ReadEnded, SessionIInv, TalkIInv
  <2>3. ASSUME slot' # 0 PROVE Quiet'
    <3>1. toCompiler # <<>> /\ Head(toCompiler).t = "ended"
      BY <1>15, <2>1, <2>3 DEF ReadEnded
    <3>2. ~Silent
      BY <1>1, <3>1 DEF Silent, SeqsOK
    <3> QED BY <1>1, <2>1, <2>2, <3>2 DEF Served, Quiet, Silent, Listens, Agree, SeqsOK
  <2> QED BY <1>1, <2>1, <2>3 DEF TalkIInv, SeqsOK
<1>16. CASE ReadRequest
  <2> DEFINE n == Len(stack)
             id == stack[n].id
  <2>1. /\ PeerUp /\ toEngine # <<>> /\ toEngine' = Tail(toEngine) /\ epos \in {"idle", "ask"}
        /\ UNCHANGED <<stack, cpos, startPc, slot>> /\ (Live' <=> Live)
    BY <1>16 DEF ReadRequest, talk, handle, procs, Live
  <2>2. CASE /\ Live /\ cpos = "wait" /\ stack # <<>> /\ Silent /\ Listens(n - 1)
             /\ \E f \in Files, text, settings \in BOOLEAN :
                  toEngine = <<Request(id, f, text, settings)>>
    <3>1. PICK f \in Files, text \in BOOLEAN, settings \in BOOLEAN :
            toEngine = <<Request(id, f, text, settings)>>
      BY <2>2
    <3>2. toEngine' = <<>> /\ Head(toEngine) = Request(id, f, text, settings)
      BY <2>1, <3>1
    <3>3. BeginExpand(Request(id, f, text, settings))
      BY <1>16, <3>2 DEF ReadRequest, Request
    <3>4. n \in Nat \ {0} /\ id \in Nat
      BY <1>1, <2>2, TopId
    <3>5. CASE estack' = Append(estack, id) /\ epos' = "handle" /\ active' = id
               /\ toCompiler' = toCompiler
      <4>1. estack' \in Seq(Nat) /\ Len(estack) = n - 1 /\ estack \in Seq(Nat)
        BY <1>1, <2>2, <3>4, <3>5 DEF SeqsOK, Listens, Agree
      <4>2. Agree(n)' /\ Silent'
        BY <2>1, <2>2, <3>4, <3>5, <4>1 DEF Listens, Agree, Silent
      <4>3. Waiting'
        BY <2>1, <3>2, <3>5, <4>2 DEF Waiting
      <4> QED BY <1>1, <1>2, <2>1, <2>2, <3>5, <4>1, <4>3 DEF TalkIInv, SeqsOK
    <3>6. CASE toCompiler' = Append(toCompiler, Msg("err", id))
               /\ UNCHANGED <<estack, epos, active>>
      <4>1. Msg("err", id) \in Lines /\ Msg("err", id).t = "err" /\ Msg("err", id).id = id
        BY <3>4 DEF Msg, Lines, Kinds
      <4>2. toCompiler' \in Seq(Lines) /\ Says({"err"}, id)'
        BY <1>1, <2>1, <2>2, <3>6, <4>1, AppendLine
      <4>3. Says({"ok", "err"}, id)' /\ Listens(n - 1)'
        BY <2>1, <2>2, <3>6, <4>2 DEF Says, Listens, Agree
      <4>4. Waiting'
        BY <2>1, <3>2, <4>3 DEF Waiting
      <4> QED BY <1>1, <1>2, <2>1, <2>2, <3>6, <4>2, <4>4 DEF TalkIInv, SeqsOK
    <3> QED BY <3>3, <3>5, <3>6 DEF BeginExpand, Request, Frame
  <2>3. CASE /\ Live /\ cpos = "wait" /\ stack # <<>> /\ Silent /\ Agree(n)
             /\ toEngine = <<Msg("a", id)>> /\ epos = "ask"
    <3>1. toEngine' = <<>> /\ epos' = "handle" /\ UNCHANGED <<estack, active, toCompiler>>
      BY <1>16, <2>1, <2>3 DEF ReadRequest, Msg
    <3>2. Waiting'
      BY <2>1, <2>3, <3>1 DEF Waiting, Agree, Silent
    <3> QED BY <1>1, <1>2, <2>1, <2>3, <3>1, <3>2 DEF TalkIInv, SeqsOK
  <2>4. CASE /\ Live /\ cpos = "timing" /\ Silent /\ Listens(n)
             /\ toEngine = <<Msg("timing", 0)>>
    <3>1. toEngine' = <<>> /\ toCompiler' = Append(toCompiler, Msg("timing", 0))
          /\ UNCHANGED <<estack, epos, active>>
      BY <1>16, <2>1, <2>4 DEF ReadRequest, Msg, engine
    <3>2. Msg("timing", 0) \in Lines /\ Msg("timing", 0).t = "timing" /\ Msg("timing", 0).id = 0
      BY DEF Msg, Lines, Kinds
    <3>3. toCompiler' \in Seq(Lines) /\ Says({"timing"}, 0)'
      BY <1>1, <2>4, <3>1, <3>2, AppendLine
    <3>4. Served("timing", "timing", Len(stack))'
      BY <2>1, <2>4, <3>1, <3>3 DEF Served, Listens, Agree
    <3> QED BY <1>1, <1>2, <2>1, <2>4, <3>1, <3>3, <3>4 DEF TalkIInv, SeqsOK
  <2>5. CASE cpos = "parking" /\ Silent /\ Listens(0) /\ toEngine = <<Msg("end", 0)>>
    <3>1. toEngine' = <<>> /\ toCompiler' = Append(toCompiler, Msg("ended", 0))
          /\ UNCHANGED <<estack, epos, active>>
      BY <1>16, <2>1, <2>5 DEF ReadRequest, Msg, engine
    <3>2. Msg("ended", 0) \in Lines /\ Msg("ended", 0).t = "ended" /\ Msg("ended", 0).id = 0
      BY DEF Msg, Lines, Kinds
    <3>3. toCompiler' \in Seq(Lines) /\ Says({"ended"}, 0)'
      BY <1>1, <2>5, <3>1, <3>2, AppendLine
    <3>4. Served("end", "ended", 0)'
      BY <2>1, <2>5, <3>1, <3>3 DEF Served, Listens, Agree
    <3>5. slot = 0 /\ startPc = "idle"
      BY <2>5 DEF SessionIInv, ProcessIInv, SlotParked, TalkOK, HandleOK
    <3> QED BY <1>1, <1>2, <2>1, <2>5, <3>1, <3>3, <3>4, <3>5 DEF TalkIInv, SeqsOK
  <2> QED BY <2>1, <2>2, <2>3, <2>4, <2>5, RequestUnderWay
<1>17. CASE Ask
  <2> DEFINE n == Len(stack)
             id == stack[n].id
  <2>1. /\ Live /\ cpos = "wait" /\ stack # <<>> /\ toEngine = <<>> /\ Silent /\ Agree(n)
        /\ UNCHANGED <<stack, cpos, startPc, slot, toEngine, estack, active>> /\ Live'
        /\ epos' = "ask" /\ toCompiler' = Append(toCompiler, Msg("q", ETop))
    BY <1>17, MacroRuns DEF Ask, talk, handle, procs, Live
  <2>2. n \in Nat \ {0} /\ id \in Nat /\ ETop = id
    BY <1>1, <2>1, TopId DEF ETop, Last, Agree
  <2>3. Msg("q", id) \in Lines /\ Msg("q", id).t = "q" /\ Msg("q", id).id = id
    BY <2>2 DEF Msg, Lines, Kinds
  <2>4. toCompiler' \in Seq(Lines) /\ Says({"q"}, id)'
    BY <1>1, <2>1, <2>2, <2>3, AppendLine
  <2>5. Waiting'
    BY <2>1, <2>4 DEF Waiting, Agree, Says
  <2> QED BY <1>1, <1>2, <2>1, <2>4, <2>5 DEF TalkIInv, SeqsOK
<1>18. CASE Reply
  <2> DEFINE n == Len(stack)
             id == stack[n].id
  <2>1. /\ Live /\ cpos = "wait" /\ stack # <<>> /\ toEngine = <<>> /\ Silent /\ Agree(n)
        /\ UNCHANGED <<stack, cpos, startPc, slot, toEngine>> /\ Live'
    BY <1>18, MacroRuns DEF Reply, talk, handle, procs, Live
  <2>2. n \in Nat \ {0} /\ id \in Nat /\ active = id /\ Len(estack) = n /\ estack # <<>>
    BY <1>1, <2>1, TopId DEF Agree, SeqsOK
  <2>3. Msg("ok", id) \in Lines /\ Msg("ok", id).t = "ok" /\ Msg("ok", id).id = id
    BY <2>2 DEF Msg, Lines, Kinds
  <2>4. toCompiler' \in Seq(Lines) /\ Says({"ok"}, id)'
    BY <1>1, <1>18, <2>1, <2>2, <2>3, AppendLine DEF Reply
  <2>5. /\ estack' \in Seq(Nat) /\ Len(estack') = n - 1
        /\ \A i \in 1..(n - 1) : estack'[i] = estack[i]
    BY <1>1, <1>18, <2>2, PopProperties DEF Reply, SeqsOK
  <2>6. /\ epos' = (IF n - 1 = 0 THEN "idle" ELSE "ask")
        /\ n - 1 > 0 => active' = estack'[n - 1]
    BY <1>18, <2>2, <2>5 DEF Reply, Last
  <2>7. Listens(n - 1)'
    BY <2>1, <2>2, <2>5, <2>6 DEF Listens, Agree
  <2>8. Waiting'
    BY <2>1, <2>4, <2>7 DEF Waiting, Says
  <2> QED BY <1>1, <1>2, <2>1, <2>4, <2>5, <2>8 DEF TalkIInv, SeqsOK
<1> QED
  BY <1>3, <1>4, <1>5, <1>6, <1>7, <1>8, <1>9, <1>10, <1>11, <1>12, <1>13, <1>14, <1>15, <1>16,
     <1>17, <1>18 DEF Next, StartThread, Compiler, EngineStep

-----------------------------------------------------------------------------
(* What the compiler leaves out, the engine holds.                         *)

\* One line under way to the engine.
LEMMA OneRequest ==
  ASSUME NEW m, toEngine' = <<m>>
  PROVE  toEngine' # <<>> /\ {toEngine'[i] : i \in DOMAIN toEngine'} = {m}
  OBVIOUS

\* Every step keeps what the engine holds and was told in step with what the
\* compiler takes it to hold.
LEMMA HeldStep == SessionIInv /\ [Next]_vars => HeldIInv'
<1> SUFFICES ASSUME SessionIInv, [Next]_vars PROVE HeldIInv'
  OBVIOUS
<1>1. HeldIInv /\ HandleOK /\ TalkOK
  BY DEF SessionIInv, ProcessIInv
<1>2. ASSUME ~Live', unknown' = unknown PROVE HeldIInv'
  BY <1>1, <1>2 DEF HeldIInv
<1>3. ASSUME UNCHANGED <<run, unknown, toEngine, sourcesSent, settingsSent, eSources, eSettings>>,
             Live' => Live, stack' # <<>> => stack # <<>>
      PROVE  HeldIInv'
  BY <1>1, <1>3 DEF HeldIInv
<1>4. CASE BeginRun \/ StartEngine \/ TooManyLines \/ NoReply \/ Park \/ ReadEnded
           \/ CloseEngine \/ EndRun \/ UnwindPoisoned
  <2>1. ~Live' /\ unknown' = unknown
    BY <1>1, <1>4 DEF BeginRun, StartEngine, TooManyLines, NoReply, Park, ReadEnded, CloseEngine,
                      EndRun, UnwindPoisoned, Poison, Live, handle, engine, HandleOK, TalkOK
  <2> QED BY <1>2, <2>1
<1>5. CASE TryDaemon \/ TakeResident \/ HelloResident \/ SpawnOwn \/ HelloOwn \/ StartCancelled
  <2>1. eng' = eng /\ startPc # "idle" /\ unknown' = unknown
    BY <1>5 DEF TryDaemon, TakeResident, HelloResident, SpawnOwn, HelloOwn, StartCancelled,
                NewSession, engine
  <2>2. ~Live'
    BY <1>1, <2>1 DEF HandleOK, Live
  <2> QED BY <1>2, <2>1, <2>2
<1>6. CASE EndTyping \/ Dies \/ Log \/ Ask \/ Reply \/ UNCHANGED vars
  <2>1. UNCHANGED <<run, unknown, toEngine, sourcesSent, settingsSent, eSources, eSettings>>
        /\ stack' = stack /\ eng' = eng /\ terminated' = terminated
    BY <1>6 DEF EndTyping, Dies, Log, Ask, Reply, vars, process, handle, sent, talk, wire, engine
  <2> QED BY <1>3, <2>1 DEF Live
<1>7. CASE ReadLine
  <2>1. UNCHANGED <<run, unknown, toEngine, sourcesSent, settingsSent, eSources, eSettings>>
        /\ eng' = eng /\ terminated' = terminated /\ cpos = "wait"
    BY <1>7 DEF ReadLine, process, handle, sent, engine
  <2>2. stack # <<>>
    BY <1>1, <2>1 DEF TalkOK
  <2> QED BY <1>3, <2>1, <2>2 DEF Live
<1>8. CASE ReadTiming
  <2>1. CASE Head(toCompiler).t = "timing"
    <3>1. UNCHANGED <<run, unknown, toEngine, sourcesSent, settingsSent, eSources, eSettings>>
          /\ stack' = stack /\ eng' = eng /\ terminated' = terminated
      BY <1>8, <2>1 DEF ReadTiming, process, sent, engine
    <3> QED BY <1>3, <3>1 DEF Live
  <2>2. CASE Head(toCompiler).t # "timing"
    BY <1>2, <1>8, <2>2 DEF ReadTiming, Live, engine
  <2> QED BY <2>1, <2>2
<1>9. CASE JoinEngine \/ DropPending
  <2>1. eng = "pending" /\ (Live' => startPc = "ok")
        /\ UNCHANGED <<stack, toEngine, unknown, sourcesSent>>
    BY <1>9 DEF JoinEngine, DropPending, Live, sent, talk, wire, engine
  <2>2. sourcesSent = {} /\ ~settingsSent /\ stack = <<>>
    BY <1>1, <2>1 DEF HandleOK, TalkOK
  <2>3. startPc = "ok" => toEngine = <<>>
    BY DEF SessionIInv, TalkIInv, Quiet
  <2>4. Live' => toEngine' = <<>> /\ {toEngine'[i] : i \in DOMAIN toEngine'} = {}
    BY <2>1, <2>3
  <2>5. ~settingsSent'
    <3>1. settingsSent' = FALSE \/ settingsSent' = settingsSent
      BY <1>9 DEF JoinEngine, DropPending, sent
    <3> QED BY <2>2, <3>1, Zenon
  <2>6. ~unknown' /\ sourcesSent' = {} /\ stack' = <<>>
    BY <1>1, <2>1, <2>2 DEF HeldIInv
  <2> QED BY <2>4, <2>5, <2>6 DEF HeldIInv
<1>10. ASSUME NEW f \in Files, Expand(f) PROVE HeldIInv'
  <2> DEFINE m == Request(exps + 1, f, f \notin sourcesSent, ~settingsSent)
  <2>1. Live /\ toEngine = <<>>
    <3>1. Live
      BY <1>1, <1>10 DEF Expand, Live, HandleOK
    <3> QED BY <1>10, <3>1 DEF Expand, SessionIInv, TalkIInv
  <2>2. /\ toEngine' = <<m>> /\ sourcesSent' = sourcesSent \cup {f} /\ settingsSent' = TRUE
        /\ UNCHANGED <<run, unknown, eSources, eSettings>>
    BY <1>10, <2>1 DEF Expand, process, engine
  <2>3. sourcesSent \subseteq eSources /\ (settingsSent => eSettings = run) /\ ~unknown
    BY <1>1, <2>1 DEF HeldIInv
  <2>4. m.t = "expand" /\ m.file = f /\ (m.text <=> f \notin sourcesSent)
        /\ (m.settings <=> ~settingsSent)
    BY DEF Request
  <2> HIDE DEF m
  <2>5. toEngine' # <<>> /\ {toEngine'[i] : i \in DOMAIN toEngine'} = {m}
    BY <2>2, OneRequest
  <2> QED BY <2>2, <2>3, <2>4, <2>5 DEF HeldIInv
<1>11. CASE Answer \/ SendTiming
  <2>1. Live /\ toEngine = <<>>
    <3>1. Live
      BY <1>1, <1>11 DEF Answer, SendTiming, Live, HandleOK, TalkOK
    <3> QED BY <1>11, <3>1 DEF Answer, SendTiming, SessionIInv, TalkIInv
  <2>2. PICK m : toEngine' = <<m>> /\ m.t # "expand"
    BY <1>11, <2>1 DEF Answer, SendTiming, Msg
  <2>3. UNCHANGED <<run, stack, unknown, sourcesSent, settingsSent, eSources, eSettings>>
    BY <1>11 DEF Answer, SendTiming, process, sent, engine
  <2>4. /\ sourcesSent \subseteq eSources /\ (settingsSent => eSettings = run) /\ ~unknown
        /\ stack # <<>> => settingsSent
    BY <1>1, <2>1 DEF HeldIInv
  <2>5. toEngine' # <<>> /\ {toEngine'[i] : i \in DOMAIN toEngine'} = {m}
    BY <2>2, OneRequest
  <2> QED BY <2>2, <2>3, <2>4, <2>5 DEF HeldIInv
<1>12. CASE ReadRequest
  <2>1. /\ PeerUp /\ toEngine # <<>> /\ toEngine' = Tail(toEngine)
        /\ UNCHANGED <<run, stack, sourcesSent, settingsSent>> /\ (Live' <=> Live)
    BY <1>12 DEF ReadRequest, process, talk, handle, sent, Live
  <2>2. CASE /\ Live
             /\ \E f \in Files, text, settings \in BOOLEAN :
                  toEngine = <<Request(stack[Len(stack)].id, f, text, settings)>>
    <3>1. PICK f \in Files, text \in BOOLEAN, settings \in BOOLEAN :
            toEngine = <<Request(stack[Len(stack)].id, f, text, settings)>>
      BY <2>2
    <3> DEFINE m == Request(stack[Len(stack)].id, f, text, settings)
    <3>2. m.t = "expand" /\ m.file = f /\ m.text = text /\ m.settings = settings
      BY DEF Request
    <3>3. Head(toEngine) = m /\ toEngine' = <<>> /\ m \in {toEngine[i] : i \in DOMAIN toEngine}
      BY <2>1, <3>1
    <3>4. BeginExpand(m)
      BY <1>12, <3>2, <3>3 DEF ReadRequest
    <3> HIDE DEF m
    <3>5. /\ ~unknown /\ sourcesSent \subseteq eSources \cup {m.file}
          /\ m.text \/ m.file \in eSources
          /\ m.settings \/ eSettings = run
          /\ stack # <<>> => settingsSent
      BY <1>1, <2>2, <3>2, <3>3 DEF HeldIInv
    <3>6. unknown' = unknown /\ sourcesSent \subseteq eSources' /\ eSettings' = run
      BY <3>4, <3>5 DEF BeginExpand
    <3>7. {toEngine'[i] : i \in DOMAIN toEngine'} = {}
      BY <3>3
    <3> QED BY <2>1, <3>5, <3>6, <3>7 DEF HeldIInv
  <2>3. CASE /\ Live
             /\ \/ toEngine = <<Msg("a", stack[Len(stack)].id)>>
                \/ toEngine = <<Msg("timing", 0)>>
    <3>1. PICK m : toEngine = <<m>> /\ m.t \in {"a", "timing"}
      BY <2>3 DEF Msg
    <3>2. Head(toEngine) = m /\ toEngine' = <<>> /\ m \in {toEngine[i] : i \in DOMAIN toEngine}
      BY <2>1, <3>1
    <3>3. UNCHANGED <<unknown, eSources, eSettings>>
      BY <1>12, <3>1, <3>2 DEF ReadRequest, engine
    <3>4. /\ ~unknown /\ sourcesSent \subseteq eSources /\ (settingsSent => eSettings = run)
          /\ stack # <<>> => settingsSent
      BY <1>1, <2>3, <3>1, <3>2 DEF HeldIInv
    <3>5. {toEngine'[i] : i \in DOMAIN toEngine'} = {}
      BY <3>2
    <3> QED BY <2>1, <3>3, <3>4, <3>5 DEF HeldIInv
  <2>4. CASE cpos = "parking" /\ toEngine = <<Msg("end", 0)>>
    <3>1. ~Live'
      BY <1>1, <2>1, <2>4 DEF TalkOK, Live
    <3>2. unknown' = unknown
      BY <1>12, <2>4 DEF ReadRequest, Msg, engine
    <3> QED BY <1>2, <3>1, <3>2
  <2> QED BY <2>1, <2>2, <2>3, <2>4, RequestUnderWay
<1> QED
  BY <1>4, <1>5, <1>6, <1>7, <1>8, <1>9, <1>10, <1>11, <1>12
     DEF Next, StartThread, Compiler, EngineStep

-----------------------------------------------------------------------------
(* The theorems.                                                           *)

\* The first run begins with nothing sent, asked or started.
LEMMA SessionInit == Init => SessionIInv
<1> SUFFICES ASSUME Init PROVE SessionIInv
  OBVIOUS
<1>1. TypeOK
  <2>1. {resident, timing, cancelled, fresh, daemonUp, daemonFailed, poisoned, terminated,
         settingsSent, unknown} \subseteq BOOLEAN
    BY DEF Init
  <2>2. Len(stack) = 0
    BY DEF Init
  <2> QED BY <2>1, <2>2, SessionConstants DEF Init, TypeOK
<1>2. SeqsOK
  BY DEF Init, SeqsOK
<1>3. ProcessIInv
  BY DEF Init, ProcessIInv, HandleOK, TalkOK, FallBack, MineInUse, SlotParked, NoneLost, Live
<1>4. TalkIInv
  BY DEF Init, TalkIInv, Live
<1>5. HeldIInv
  BY DEF Init, HeldIInv, Live
<1> QED BY <1>1, <1>2, <1>3, <1>4, <1>5 DEF SessionIInv

\* The invariant of a compiler process and its engine: how far the start-up,
\* the conversation and the processes are tells what is under way on the wire,
\* which expansions the engine has open and what it holds (MacroEngine and
\* ScalaRsMacroEngine together).
THEOREM SessionInvariant == Spec => []SessionIInv
<1>1. SessionIInv /\ [Next]_vars => SessionIInv'
  BY ProcessStep, TypeStep, TalkStep, HeldStep DEF SessionIInv
<1> QED BY SessionInit, <1>1, PTL DEF Spec

\* Every variable keeps its type, and no expansion is read more lines from than
\* MAX_ENGINE_QUERIES (converse_with).
THEOREM SessionTypes == Spec => []TypeOK
<1>1. SessionIInv => TypeOK
  BY DEF SessionIInv
<1> QED BY SessionInvariant, <1>1, PTL

\* No JVM is lost: what runs is in use or parked, and between runs only the
\* parked one is left (PendingEngine, terminate_once).
THEOREM NoJvmLost == Spec => []NoEngineLeak
<1>1. ASSUME SessionIInv PROVE NoEngineLeak
  <2>1. alive \subseteq {slot, mine}
    BY <1>1 DEF SessionIInv, ProcessIInv, NoneLost
  <2>2. 0 \notin alive
    BY <1>1, SessionConstants DEF SessionIInv, TypeOK
  <2>3. phase = "between" => mine = 0
    BY <1>1 DEF SessionIInv, ProcessIInv, HandleOK, TalkOK, MineInUse
  <2> QED BY <2>1, <2>2, <2>3 DEF NoEngineLeak
<1> QED BY SessionInvariant, <1>1, PTL

\* A parked engine has nothing under way but what macros' threads print
\* (park_resident).
THEOREM ParkedIsClean == Spec => []ParkedClean
<1>1. ASSUME SessionIInv PROVE ParkedClean
  <2>1. slot \in alive => slot # 0
    BY <1>1, SessionConstants DEF SessionIInv, TypeOK
  <2> QED BY <1>1, <2>1 DEF SessionIInv, TalkIInv, Quiet, Silent, ParkedClean, Replies
<1> QED BY SessionInvariant, <1>1, PTL

\* The engine never lacks a text it is referred to, and a macro runs under the
\* settings of its own run (elide_sent_settings, fill_source_text).
THEOREM LeftOutIsHeld == Spec => []SourceKnown
<1>1. ASSUME SessionIInv PROVE SourceKnown
  <2>1. ASSUME epos = "handle", PeerUp PROVE eSettings = run
    BY <1>1, <2>1, MacroRuns DEF SessionIInv, HeldIInv
  <2> QED BY <1>1, <2>1 DEF SessionIInv, HeldIInv, SourceKnown
<1> QED BY SessionInvariant, <1>1, PTL

\* How many lines other than log lines are under way.
LEMMA RepliesCounted ==
  /\ Silent => Replies = {}
  /\ \A k, id : "log" \notin k /\ Says(k, id) =>
       \E i : Replies = {i} /\ toCompiler[i].id = id
<1>1. Silent => Replies = {}
  BY DEF Silent, Replies
<1>2. ASSUME NEW k, NEW id, "log" \notin k, Says(k, id)
      PROVE  \E i : Replies = {i} /\ toCompiler[i].id = id
  <2>1. PICK i \in DOMAIN toCompiler :
          /\ toCompiler[i].t \in k /\ toCompiler[i].id = id
          /\ \A j \in DOMAIN toCompiler : j # i => toCompiler[j].t = "log"
    BY <1>2 DEF Says
  <2>2. Replies = {i}
    BY <1>2, <2>1 DEF Replies
  <2> QED BY <2>1, <2>2
<1> QED BY <1>1, <1>2

\* The two sides of a conversation stay in step, also when expansions nest
\* inside queries (converse_with and ScalaRsMacroEngine.query).
THEOREM StaysInStep == Spec => []InStep
<1>1. ASSUME SessionIInv, phase = "typing", eng = "live", ~poisoned
      PROVE  /\ Len(toEngine) + Cardinality(Replies) <= 1
             /\ cpos = "ball" => toEngine = <<>> /\ Replies = {} /\ estack = Ids
             /\ cpos = "wait" => \A i \in Replies : toCompiler[i].id = Top.id
  <2>1. /\ Live /\ cpos \in {"ball", "wait", "sendTiming", "timing"}
        /\ cpos = "wait" => stack # <<>> /\ Top = stack[Len(stack)]
    BY <1>1 DEF SessionIInv, TypeOK, ProcessIInv, HandleOK, TalkOK, Live, Top, Last
  <2>2. Cardinality({}) = 0 /\ \A i : Cardinality({i}) = 1
    BY FS_EmptySet, FS_Singleton
  <2>3. Len(<<>>) = 0 /\ \A m : Len(<<m>>) = 1
    OBVIOUS
  <2>4. ASSUME Len(toEngine) <= 1, Len(toEngine) \in Nat, Silent
        PROVE  Replies = {} /\ Len(toEngine) + Cardinality(Replies) <= 1
    BY <2>2, <2>4, RepliesCounted
  <2>5. ASSUME toEngine = <<>>, NEW k, NEW id, "log" \notin k, Says(k, id)
        PROVE  /\ Len(toEngine) + Cardinality(Replies) <= 1
               /\ \A i \in Replies : toCompiler[i].id = id
    <3>1. PICK i : Replies = {i} /\ toCompiler[i].id = id
      BY <2>5, RepliesCounted
    <3>2. Len(toEngine) = 0 /\ Cardinality(Replies) = 1
      BY <2>2, <2>3, <2>5, <3>1
    <3> QED BY <3>1, <3>2
  <2>6. CASE cpos \in {"ball", "sendTiming"}
    <3>1. toEngine = <<>> /\ Silent /\ Agree(Len(stack))
      BY <1>1, <2>1, <2>6 DEF SessionIInv, TalkIInv, Listens
    <3>2. estack = Ids
      BY <1>1, <3>1 DEF SessionIInv, SeqsOK, Agree, Ids
    <3> QED BY <2>3, <2>4, <2>6, <3>1, <3>2
  <2>7. CASE cpos = "wait"
    <3>1. Waiting
      BY <1>1, <2>7 DEF SessionIInv, TalkIInv
    <3>2. CASE Silent
      <4>1. Len(toEngine) <= 1 /\ Len(toEngine) \in Nat
        <5>1. toEngine = <<>> \/ \E m : toEngine = <<m>>
          BY <3>1 DEF Waiting
        <5>2. Len(toEngine) = 0 \/ Len(toEngine) = 1
          BY <2>3, <5>1
        <5>3. \A k : k = 0 \/ k = 1 => k <= 1 /\ k \in Nat
          OBVIOUS
        <5> QED BY <5>2, <5>3
      <4> QED BY <2>4, <2>7, <3>2, <4>1
    <3>3. CASE toEngine = <<>> /\ Says({"q"}, Top.id)
      BY <2>5, <2>7, <3>3
    <3>4. CASE toEngine = <<>> /\ Says({"ok", "err"}, Top.id)
      BY <2>5, <2>7, <3>4
    <3> QED BY <2>1, <2>7, <3>1, <3>2, <3>3, <3>4 DEF Waiting
  <2>8. CASE cpos = "timing"
    <3>1. Served("timing", "timing", Len(stack))
      BY <1>1, <2>8 DEF SessionIInv, TalkIInv
    <3>2. CASE toEngine = <<Msg("timing", 0)>> /\ Silent
      BY <2>3, <2>4, <2>8, <3>2
    <3>3. CASE toEngine = <<>> /\ Says({"timing"}, 0)
      BY <2>5, <2>8, <3>3
    <3> QED BY <3>1, <3>2, <3>3 DEF Served
  <2> QED BY <2>1, <2>6, <2>7, <2>8
<1>2. SessionIInv => InStep
  BY <1>1 DEF InStep
<1> QED BY SessionInvariant, <1>2, PTL
=============================================================================
