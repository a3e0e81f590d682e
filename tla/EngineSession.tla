---------------------------- MODULE EngineSession ----------------------------
(***************************************************************************)
(* The macro engine as one compiler process sees it: the typer's handle on *)
(* the engine (expand.rs, MacroEngine), the background start-up with its   *)
(* fall-backs (shared daemon, resident JVM, JVM of its own), and the       *)
(* conversation with the engine, in which an expansion may stop to ask     *)
(* scala-rs a question, and answering it may expand another macro on the   *)
(* same engine.  Runs follow one another as __compile_batch runs them.     *)
(*                                                                         *)
(* A line is abstracted to its kind and the expansion it belongs to; an    *)
(* expansion to a number and the source file of its call.  The daemon is   *)
(* here only the far end of a session: MacroDaemon models its inside.      *)
(***************************************************************************)
EXTENDS Integers, Sequences, FiniteSets, SequencesExt

CONSTANTS
  Files,        \* the run's source files
  MaxRuns,      \* bound: compilations of the process
  MaxExps,      \* bound: macro applications of a run
  MaxDepth,     \* MAX_EXPANSION_DEPTH: nesting of expansions
  MaxQueries,   \* MAX_ENGINE_QUERIES: lines one expansion may send before its reply
  MaxProcs,     \* names for engine JVMs that are alive at one time
  MaxLate       \* bound: lines a macro's background thread prints, at any time

ASSUME SessionConstants ==
  /\ MaxRuns \in Nat /\ MaxExps \in Nat /\ MaxDepth \in Nat /\ MaxQueries \in Nat
  /\ MaxProcs \in Nat \ {0} /\ MaxLate \in Nat

VARIABLES
  resident,      \* RESIDENT_ENGINE_ENABLED: the process is __compile_batch
  timing,        \* macro timing is on: "(timing)" follows every expansion
  run,           \* number of the run
  phase,         \* "between" runs, "typing", or "ending" (the typer is dropped)
  eng,           \* Typer.macro_engine and macro_engine_pending/_error
  exps,          \* expansions the run has asked for
  startPc,       \* the thread that starts the engine
  cancelled,     \* its cancellation flag
  fresh,         \* the resident JVM was spawned by this start-up
  how,           \* what the engine is: "daemon", "resident" or "own"
  mine,          \* the JVM of the engine or of the start-up, 0 if none
  slot,          \* RESIDENT_ENGINE: the parked JVM, 0 if none
  alive,         \* engine JVMs (not the daemon) that are running
  daemonUp,      \* the daemon end of a daemon session is there
  daemonFailed,  \* RESIDENT_DAEMON_FAILED
  poisoned, terminated,
  settingsSent, sourcesSent,   \* what this run has sent to its engine
  stack,         \* the compiler's open expansions, innermost last
  cpos,          \* the compiler: it has the ball, or waits for a line
  toEngine, toCompiler,        \* the two directions of the wire
  estack, epos,  \* the engine's open expansions, and where it is
  active,        \* the expansion whose per-expansion statics are loaded
  eSettings, eSources,         \* settings (by run) and texts the engine holds
  unknown,       \* the engine has replied that a source "was never sent"
  late           \* lines printed by background threads

process  == <<resident, timing, run>>
handle   == <<eng, startPc, cancelled, fresh, how, poisoned, terminated>>
procs    == <<mine, slot, alive, daemonUp, daemonFailed>>
sent     == <<settingsSent, sourcesSent>>
talk     == <<stack, cpos>>
wire     == <<toEngine, toCompiler>>
engine   == <<estack, epos, active, eSettings, eSources, unknown>>
vars     == <<process, phase, exps, handle, procs, sent, talk, wire, engine, late>>

Msg(t, id) == [t |-> t, id |-> id]
Request(id, f, text, settings) ==
  [t |-> "expand", id |-> id, file |-> f, text |-> text, settings |-> settings]
Pop(s) == Front(s)

PeerUp == IF how = "daemon" THEN daemonUp ELSE mine \in alive
NewProc == CHOOSE p \in 1..MaxProcs : p \notin alive

Init ==
  /\ resident \in BOOLEAN /\ timing \in BOOLEAN
  /\ run = 0 /\ phase = "between" /\ exps = 0
  /\ eng = "none" /\ startPc = "idle" /\ cancelled = FALSE /\ fresh = FALSE
  /\ how = "none" /\ mine = 0 /\ slot = 0 /\ alive = {} /\ daemonUp = FALSE
  /\ daemonFailed = FALSE /\ poisoned = FALSE /\ terminated = FALSE
  /\ settingsSent = FALSE /\ sourcesSent = {}
  /\ stack = <<>> /\ cpos = "ball"
  /\ toEngine = <<>> /\ toCompiler = <<>>
  /\ estack = <<>> /\ epos = "idle" /\ active = 0 /\ eSettings = 0 /\ eSources = {}
  /\ unknown = FALSE /\ late = 0

-----------------------------------------------------------------------------
(* Starting the engine: PendingEngine, start_prepared_engine.              *)

BeginRun ==
  /\ phase = "between" /\ run < MaxRuns
  /\ run' = run + 1 /\ phase' = "typing" /\ exps' = 0
  /\ eng' = "none" /\ startPc' = "idle" /\ cancelled' = FALSE
  /\ how' = "none" /\ poisoned' = FALSE /\ terminated' = FALSE
  /\ settingsSent' = FALSE /\ sourcesSent' = {}
  /\ UNCHANGED <<resident, timing, fresh, procs, talk, wire, engine, late>>

\* In the background before the first expansion, or at the first expansion.
StartEngine ==
  /\ phase = "typing" /\ eng = "none"
  /\ eng' = "pending" /\ startPc' = "daemon"
  /\ UNCHANGED <<process, phase, exps, cancelled, fresh, how, poisoned, terminated, procs, sent,
                 talk, wire, engine, late>>

\* A new JVM, or resetRun at the start of a session.
NewSession == /\ toEngine' = <<>> /\ toCompiler' = <<>> /\ estack' = <<>> /\ epos' = "idle"
              /\ active' = 0 /\ eSettings' = 0 /\ eSources' = {} /\ UNCHANGED unknown

\* A session of the shared daemon, unless it has failed this process before.
TryDaemon ==
  /\ startPc = "daemon"
  /\ \/ /\ ~daemonFailed /\ ~cancelled
        /\ startPc' = "ok" /\ how' = "daemon" /\ daemonUp' = TRUE
        /\ NewSession
        /\ UNCHANGED daemonFailed
     \/ /\ ~daemonFailed
        /\ daemonFailed' = (IF cancelled THEN daemonFailed ELSE resident)
        /\ startPc' = (IF resident THEN "resident" ELSE "own")
        /\ UNCHANGED <<how, daemonUp, wire, engine>>
     \/ /\ daemonFailed
        /\ startPc' = (IF resident THEN "resident" ELSE "own")
        /\ UNCHANGED <<how, daemonUp, daemonFailed, wire, engine>>
  /\ UNCHANGED <<process, phase, exps, eng, cancelled, fresh, poisoned, terminated, mine,
                 slot, alive, sent, talk, late>>

\* start_resident_session takes the parked JVM, kills one that is no use (its
\* process ended, or it was started for another runtime) and spawns another.
TakeResident ==
  /\ startPc = "resident" /\ ~cancelled
  /\ slot' = 0
  /\ \/ /\ slot # 0 /\ slot \in alive
        /\ mine' = slot /\ fresh' = FALSE
        /\ UNCHANGED <<alive, wire, engine>>
     \/ /\ mine' = (IF slot = 0 THEN NewProc ELSE slot)
        /\ alive' = alive \cup {mine'} /\ fresh' = TRUE
        /\ NewSession
  /\ startPc' = "helloResident"
  /\ UNCHANGED <<process, phase, exps, eng, cancelled, how, poisoned, terminated, daemonUp,
                 daemonFailed, sent, talk, late>>

\* "(start ...)" and its first answer.  Anything but "(ready)" -- and a line
\* that is waiting already is not it -- kills the JVM; only a fresh JVM's
\* start-up can be cancelled.
HelloResident ==
  /\ startPc = "helloResident"
  /\ \/ /\ mine \in alive /\ toCompiler = <<>>
        /\ startPc' = "ok" /\ how' = "resident" /\ NewSession
        /\ UNCHANGED <<mine, alive>>
     \/ /\ startPc' = (IF cancelled THEN "err" ELSE "own")
        /\ (mine \in alive /\ toCompiler = <<>>) => fresh
        /\ alive' = alive \ {mine} /\ mine' = 0
        /\ UNCHANGED <<how, wire, engine>>
  /\ UNCHANGED <<process, phase, exps, eng, cancelled, fresh, poisoned, terminated, slot,
                 daemonUp, daemonFailed, sent, talk, late>>

\* A JVM of its own, whose start-up can fail or be cancelled at the hello.
SpawnOwn ==
  /\ startPc = "own" /\ ~cancelled
  /\ mine' = NewProc /\ alive' = alive \cup {NewProc}
  /\ startPc' = "helloOwn" /\ NewSession
  /\ UNCHANGED <<process, phase, exps, eng, cancelled, fresh, how, poisoned, terminated, slot,
                 daemonUp, daemonFailed, sent, talk, late>>

HelloOwn ==
  /\ startPc = "helloOwn"
  /\ \/ /\ mine \in alive /\ ~cancelled
        /\ startPc' = "ok" /\ how' = "own"
        /\ UNCHANGED <<mine, alive>>
     \/ /\ startPc' = "err"
        /\ alive' = alive \ {mine} /\ mine' = 0
        /\ UNCHANGED how
  /\ UNCHANGED <<process, phase, exps, eng, cancelled, fresh, poisoned, terminated, slot,
                 daemonUp, daemonFailed, sent, talk, wire, engine, late>>

\* check_startup_cancelled, before anything is spawned.
StartCancelled ==
  /\ cancelled /\ startPc \in {"resident", "own"}
  /\ startPc' = "err"
  /\ UNCHANGED <<process, phase, exps, eng, cancelled, fresh, how, poisoned, terminated, procs,
                 sent, talk, wire, engine, late>>

\* The first expansion joins the start-up: an engine, or an error that is kept
\* for the rest of the run.
JoinEngine ==
  /\ phase = "typing" /\ eng = "pending" /\ startPc \in {"ok", "err"}
  /\ eng' = (IF startPc = "ok" THEN "live" ELSE "failed")
  /\ startPc' = "idle"
  /\ settingsSent' = (IF startPc = "ok" THEN FALSE ELSE settingsSent)
  /\ UNCHANGED <<process, phase, exps, cancelled, fresh, how, poisoned, terminated, procs,
                 sourcesSent, talk, wire, engine, late>>

-----------------------------------------------------------------------------
(* The compiler's side of a conversation: converse, converse_with.         *)

\* Kill what the engine runs in; a daemon session only loses its socket here.
Kill == /\ alive' = alive \ {mine} /\ mine' = 0 /\ daemonUp' = FALSE

\* send refuses a poisoned engine; otherwise the request goes out with the
\* text of its file and the settings, unless this run has sent them.
Expand(f) ==
  /\ phase = "typing" /\ eng = "live" /\ cpos = "ball" /\ ~poisoned
  /\ Len(stack) < MaxDepth /\ exps < MaxExps
  /\ exps' = exps + 1
  /\ stack' = Append(stack, [id |-> exps + 1, asked |-> 0])
  /\ cpos' = "wait"
  /\ toEngine' = Append(toEngine, Request(exps + 1, f, f \notin sourcesSent, ~settingsSent))
  /\ sourcesSent' = sourcesSent \cup {f} /\ settingsSent' = TRUE
  /\ UNCHANGED <<process, phase, handle, procs, toCompiler, engine, late>>

\* Any failure of a conversation poisons and terminates the engine, once, and
\* the innermost expansion ends with an error.
Poison ==
  /\ poisoned' = TRUE
  /\ stack' = (IF stack = <<>> THEN stack ELSE Pop(stack)) /\ cpos' = "ball"
  /\ terminated' = TRUE
  /\ IF terminated THEN UNCHANGED <<mine, alive, daemonUp>> ELSE Kill
  /\ toEngine' = <<>> /\ toCompiler' = <<>>
  /\ UNCHANGED <<process, phase, exps, eng, startPc, cancelled, fresh, how, slot, daemonFailed,
                 sent, engine, late>>

Top == Last(stack)
TopAsked(n) == [stack EXCEPT ![Len(stack)].asked = n]

\* Mutant: an answered question does not count towards the limit.
ReadLineUncounted ==
  /\ cpos = "wait" /\ toCompiler # <<>> /\ ~poisoned
  /\ LET m == Head(toCompiler) IN
       \/ /\ m.t \in {"log", "q"}
          /\ cpos' = (IF m.t = "q" THEN "ball" ELSE "wait")
          /\ UNCHANGED stack
       \/ /\ m.t \notin {"log", "q"}
          /\ stack' = Pop(stack)
          /\ cpos' = (IF timing THEN "sendTiming" ELSE "ball")
  /\ toCompiler' = Tail(toCompiler)
  /\ UNCHANGED <<process, phase, exps, handle, procs, sent, toEngine, engine, late>>

\* Mutant: the limit lets one line too many through.
ReadLineOneMore ==
  /\ cpos = "wait" /\ toCompiler # <<>> /\ ~poisoned
  /\ LET m == Head(toCompiler) IN
       \/ /\ m.t \in {"log", "q"} /\ Top.asked <= MaxQueries
          /\ stack' = TopAsked(Top.asked + 1)
          /\ cpos' = (IF m.t = "q" THEN "ball" ELSE "wait")
       \/ /\ m.t \notin {"log", "q"}
          /\ stack' = Pop(stack)
          /\ cpos' = (IF timing THEN "sendTiming" ELSE "ball")
  /\ toCompiler' = Tail(toCompiler)
  /\ UNCHANGED <<process, phase, exps, handle, procs, sent, toEngine, engine, late>>

\* A "(log ...)" line is printed and counted; a "(q ...)" line is counted and
\* gives the compiler the ball; any other line is the reply.
ReadLine ==
  /\ cpos = "wait" /\ toCompiler # <<>> /\ ~poisoned
  /\ LET m == Head(toCompiler) IN
       \/ /\ m.t \in {"log", "q"} /\ Top.asked < MaxQueries
          /\ stack' = TopAsked(Top.asked + 1)
          /\ cpos' = (IF m.t = "q" THEN "ball" ELSE "wait")
       \/ /\ m.t \notin {"log", "q"}
          /\ stack' = Pop(stack)
          /\ cpos' = (IF timing THEN "sendTiming" ELSE "ball")
  /\ toCompiler' = Tail(toCompiler)
  /\ UNCHANGED <<process, phase, exps, handle, procs, sent, toEngine, engine, late>>

\* The expansion that asks too much is cut off.
TooManyLines ==
  /\ cpos = "wait" /\ toCompiler # <<>> /\ ~poisoned
  /\ Head(toCompiler).t \in {"log", "q"} /\ Top.asked >= MaxQueries
  /\ Poison

\* The budget ran out, or the engine is gone.
NoReply ==
  /\ cpos \in {"wait", "timing"} /\ toCompiler = <<>>
  /\ Poison

\* The compiler has worked out the answer, and whatever that expanded is done.
Answer ==
  /\ phase = "typing" /\ cpos = "ball" /\ stack # <<>> /\ ~poisoned
  /\ toEngine' = Append(toEngine, Msg("a", Top.id))
  /\ cpos' = "wait"
  /\ UNCHANGED <<process, phase, exps, handle, procs, sent, stack, toCompiler, engine, late>>

\* A nested expansion poisoned the engine: the outer ones fail as they send.
UnwindPoisoned ==
  /\ cpos = "ball" /\ stack # <<>> /\ poisoned
  /\ stack' = Pop(stack)
  /\ UNCHANGED <<process, phase, exps, handle, procs, sent, cpos, wire, engine, late>>

\* engine_timing: one more request and its reply, also inside a query.
SendTiming ==
  /\ cpos = "sendTiming"
  /\ toEngine' = Append(toEngine, Msg("timing", 0)) /\ cpos' = "timing"
  /\ UNCHANGED <<process, phase, exps, handle, procs, sent, stack, toCompiler, engine, late>>

\* A reply that is not "(timing ...)" ends the conversation like any failure,
\* but no expansion: the one that was timed is over.
ReadTiming ==
  /\ cpos = "timing" /\ toCompiler # <<>>
  /\ \/ /\ Head(toCompiler).t = "timing"
        /\ cpos' = "ball" /\ toCompiler' = Tail(toCompiler)
        /\ UNCHANGED <<toEngine, poisoned, terminated, mine, alive, daemonUp>>
     \/ /\ Head(toCompiler).t # "timing"
        /\ poisoned' = TRUE /\ terminated' = TRUE /\ Kill /\ cpos' = "ball"
        /\ toEngine' = <<>> /\ toCompiler' = <<>>
  /\ UNCHANGED <<process, phase, exps, eng, startPc, cancelled, fresh, how, slot, daemonFailed,
                 sent, stack, engine, late>>

-----------------------------------------------------------------------------
(* The end of a run: the typer and with it the engine handle is dropped.   *)

EndTyping ==
  /\ phase = "typing" /\ cpos = "ball" /\ stack = <<>>
  /\ phase' = "ending" /\ cancelled' = TRUE
  /\ UNCHANGED <<process, exps, eng, startPc, fresh, how, poisoned, terminated, procs, sent,
                 talk, wire, engine, late>>

\* Mutant: the start-up is joined and its result forgotten.
DropPendingForgets ==
  /\ phase = "ending" /\ eng = "pending" /\ startPc \in {"ok", "err"}
  /\ eng' = "failed" /\ startPc' = "idle"
  /\ UNCHANGED <<process, phase, exps, cancelled, fresh, how, poisoned, terminated, procs, sent,
                 talk, wire, engine, late>>

\* An unused start-up is joined; what it made is dropped like an engine.
DropPending ==
  /\ phase = "ending" /\ eng = "pending" /\ startPc \in {"ok", "err"}
  /\ eng' = (IF startPc = "ok" THEN "live" ELSE "failed") /\ startPc' = "idle"
  /\ UNCHANGED <<process, phase, exps, cancelled, fresh, how, poisoned, terminated, procs, sent,
                 talk, wire, engine, late>>

\* Mutant: the engine is handed back without waiting for "(ended)".
ParkUnconfirmed ==
  /\ phase = "ending" /\ eng = "live" /\ ~terminated /\ how = "resident"
  /\ terminated' = TRUE
  /\ toEngine' = Append(toEngine, Msg("end", 0))
  /\ slot' = mine /\ mine' = 0
  /\ UNCHANGED <<process, phase, exps, eng, startPc, cancelled, fresh, how, poisoned, alive, daemonUp,
                 daemonFailed, sent, talk, toCompiler, engine, late>>

\* terminate_once: a healthy resident engine is asked to end its session ...
Park ==
  /\ phase = "ending" /\ eng = "live" /\ ~terminated /\ how = "resident"
  /\ terminated' = TRUE
  /\ toEngine' = Append(toEngine, Msg("end", 0)) /\ cpos' = "parking"
  /\ UNCHANGED <<process, phase, exps, eng, startPc, cancelled, fresh, how, poisoned, procs,
                 sent, stack, toCompiler, engine, late>>

\* ... and goes back to the slot if "(ended)" is the very next line and
\* nothing is buffered behind it; otherwise it is killed.
ReadEnded ==
  /\ cpos = "parking"
  /\ \/ /\ toCompiler # <<>> /\ Head(toCompiler).t = "ended" /\ Tail(toCompiler) = <<>>
        /\ slot = 0
        /\ slot' = mine /\ mine' = 0 /\ toCompiler' = <<>>
        /\ UNCHANGED <<alive, daemonUp>>
     \/ /\ toCompiler # <<>> => Head(toCompiler).t # "ended" \/ Tail(toCompiler) # <<>>
        /\ Kill /\ toCompiler' = <<>>
        /\ UNCHANGED slot
  /\ cpos' = "ball"
  /\ UNCHANGED <<process, phase, exps, handle, daemonFailed, sent, stack, toEngine, engine, late>>

\* ... any other engine is killed, or its session closed.
CloseEngine ==
  /\ phase = "ending" /\ eng = "live" /\ ~terminated /\ how # "resident"
  /\ terminated' = TRUE /\ Kill
  /\ UNCHANGED <<process, phase, exps, eng, startPc, cancelled, fresh, how, poisoned, slot,
                 daemonFailed, sent, talk, wire, engine, late>>

EndRun ==
  /\ phase = "ending" /\ cpos = "ball" /\ eng # "pending" /\ (eng = "live" => terminated)
  /\ phase' = "between"
  /\ UNCHANGED <<process, exps, handle, procs, sent, talk, wire, engine, late>>

-----------------------------------------------------------------------------
(* The engine: handle, expand, query (ScalaRsMacroEngine).                 *)

Frame(m) == m.id
ETop == Last(estack)

\* Mutant: expand looks for the implementation first, and a class that is not
\* found leaves the text of the file unregistered.
BeginExpandLate(m) ==
  \/ /\ eSettings' = (IF m.settings THEN run ELSE eSettings)
     /\ toCompiler' = Append(toCompiler, Msg("err", m.id))
     /\ UNCHANGED <<estack, epos, active, eSources, unknown>>
  \/ /\ eSettings' = (IF m.settings THEN run ELSE eSettings)
     /\ eSources' = (IF m.text THEN eSources \cup {m.file} ELSE eSources)
     /\ unknown' = (unknown \/ ~(m.text \/ m.file \in eSources))
     /\ estack' = Append(estack, Frame(m)) /\ epos' = "handle" /\ active' = m.id
     /\ UNCHANGED toCompiler

\* expand registers the settings and the text first; a request that names a
\* text the engine does not hold is answered with an error.
BeginExpand(m) ==
  /\ eSettings' = (IF m.settings THEN run ELSE eSettings)
  /\ eSources' = (IF m.text THEN eSources \cup {m.file} ELSE eSources)
  /\ IF m.text \/ m.file \in eSources
     THEN /\ estack' = Append(estack, Frame(m)) /\ epos' = "handle" /\ active' = m.id
          /\ UNCHANGED <<toCompiler, unknown>>
     ELSE /\ unknown' = TRUE
          /\ toCompiler' = Append(toCompiler, Msg("err", m.id))
          /\ UNCHANGED <<estack, epos, active>>

\* The session loop, and the same requests while a query waits for its answer.
ReadRequest ==
  /\ PeerUp /\ epos \in {"idle", "ask"} /\ toEngine # <<>>
  /\ LET m == Head(toEngine) IN
       \/ m.t = "expand" /\ BeginExpand(m)
       \/ /\ m.t = "timing"
          /\ toCompiler' = Append(toCompiler, Msg("timing", 0))
          /\ UNCHANGED engine
       \/ /\ m.t = "a" /\ epos = "ask"
          /\ epos' = "handle"
          /\ UNCHANGED <<estack, active, eSettings, eSources, unknown, toCompiler>>
       \/ /\ m.t = "end" /\ epos = "idle"
          /\ toCompiler' = Append(toCompiler, Msg("ended", 0))
          /\ UNCHANGED engine
  /\ toEngine' = Tail(toEngine)
  /\ UNCHANGED <<process, phase, exps, handle, procs, sent, talk, late>>

Ask ==
  /\ PeerUp /\ epos = "handle"
  /\ toCompiler' = Append(toCompiler, Msg("q", ETop)) /\ epos' = "ask"
  /\ UNCHANGED <<process, phase, exps, handle, procs, sent, talk, toEngine, estack, active, eSettings,
                 eSources, unknown, late>>

\* Mutant: a nested expansion leaves its own statics loaded.
ReplyKeepsStatics ==
  /\ PeerUp /\ epos = "handle"
  /\ toCompiler' = Append(toCompiler, Msg("ok", active))
  /\ estack' = Pop(estack)
  /\ epos' = (IF Len(estack) = 1 THEN "idle" ELSE "ask")
  /\ UNCHANGED <<process, phase, exps, handle, procs, sent, talk, toEngine, active, eSettings, eSources,
                 unknown, late>>

\* The reply is serialised from the loaded statics; a nested one hands them
\* back to the expansion whose query is waiting (ExpansionFrame.restore).
Reply ==
  /\ PeerUp /\ epos = "handle"
  /\ toCompiler' = Append(toCompiler, Msg("ok", active))
  /\ estack' = Pop(estack)
  /\ epos' = (IF Len(estack) = 1 THEN "idle" ELSE "ask")
  /\ active' = (IF Len(estack) = 1 THEN active ELSE Last(Pop(estack)))
  /\ UNCHANGED <<process, phase, exps, handle, procs, sent, talk, toEngine, eSettings, eSources,
                 unknown, late>>

\* A macro, or a thread it left behind, prints.
Log ==
  /\ late < MaxLate /\ (PeerUp \/ slot \in alive)
  /\ late' = late + 1
  /\ toCompiler' = Append(toCompiler, Msg("log", 0))
  /\ UNCHANGED <<process, phase, exps, handle, procs, sent, talk, toEngine, engine>>

\* The engine process, or the daemon, dies.
Dies ==
  /\ \/ \E p \in {mine, slot} \cap alive : alive' = alive \ {p} /\ UNCHANGED daemonUp
     \/ daemonUp /\ daemonUp' = FALSE /\ UNCHANGED alive
  /\ UNCHANGED <<process, phase, exps, handle, mine, slot, daemonFailed, sent, talk, wire, engine, late>>

-----------------------------------------------------------------------------
StartThread == TryDaemon \/ TakeResident \/ HelloResident \/ SpawnOwn \/ HelloOwn \/ StartCancelled

Compiler ==
  \/ JoinEngine \/ ReadLine \/ TooManyLines \/ NoReply \/ Answer \/ UnwindPoisoned
  \/ SendTiming \/ ReadTiming \/ EndTyping \/ DropPending \/ Park \/ ReadEnded \/ CloseEngine \/ EndRun

EngineStep == ReadRequest \/ Ask \/ Reply

Next ==
  \/ BeginRun \/ StartEngine \/ StartThread \/ Compiler \/ EngineStep
  \/ \E f \in Files : Expand(f)
  \/ Log \/ Dies

\* The compiler and its start-up thread run; nothing is assumed of the engine,
\* which may stop at any point.
Fairness == WF_vars(StartThread) /\ WF_vars(Compiler)

Spec == Init /\ [][Next]_vars
FairSpec == Spec /\ Fairness

-----------------------------------------------------------------------------
(* Properties.                                                             *)

Ids == [i \in 1..Len(stack) |-> stack[i].id]
\* Where there is more than a log line under way to the compiler.
Replies == {i \in DOMAIN toCompiler : toCompiler[i].t # "log"}

\* Every variable has its type, and no expansion has been read more lines from
\* than MAX_ENGINE_QUERIES (converse_with).
TypeOK ==
  /\ run \in 0..MaxRuns /\ phase \in {"between", "typing", "ending"} /\ exps \in 0..MaxExps
  /\ eng \in {"none", "pending", "live", "failed"}
  /\ startPc \in {"idle", "daemon", "resident", "helloResident", "own", "helloOwn", "ok", "err"}
  /\ how \in {"none", "daemon", "resident", "own"}
  /\ mine \in 0..MaxProcs /\ slot \in 0..MaxProcs /\ alive \subseteq 1..MaxProcs
  /\ {resident, timing, cancelled, fresh, daemonUp, daemonFailed, poisoned, terminated, settingsSent, unknown}
       \subseteq BOOLEAN
  /\ sourcesSent \subseteq Files /\ eSources \subseteq Files /\ eSettings \in 0..MaxRuns
  /\ Len(stack) <= MaxDepth
  /\ \A i \in 1..Len(stack) : stack[i] \in [id : 1..MaxExps, asked : 0..MaxQueries]
  /\ cpos \in {"ball", "wait", "sendTiming", "timing", "parking"}
  /\ epos \in {"idle", "handle", "ask"} /\ late \in 0..MaxLate

\* The two sides stay in step (converse_with and query): apart from log lines
\* at most one line is under way, whoever has the ball sees both stacks of
\* expansions agree, and a question or a reply always concerns the expansion
\* the compiler waits for, also when expansions nest inside queries.
InStep ==
  phase = "typing" /\ eng = "live" /\ ~poisoned =>
    /\ Len(toEngine) + Cardinality(Replies) <= 1
    /\ cpos = "ball" => toEngine = <<>> /\ Replies = {} /\ estack = Ids
    /\ cpos = "wait" => \A i \in Replies : toCompiler[i].id = Top.id

\* Leaving out what "this run has sent" is safe (elide_sent_settings,
\* fill_source_text): the engine never lacks a source text it is referred to,
\* and expands under the settings of this very run, whichever JVM serves it.
SourceKnown ==
  /\ ~unknown
  /\ epos = "handle" /\ PeerUp /\ phase = "typing" => eSettings = run

\* No engine JVM is lost: each that runs is the one in use or the parked one,
\* and between runs only the parked one is left, however the start-up was
\* cancelled, fell back or failed (PendingEngine, terminate_once).
NoEngineLeak ==
  /\ alive \subseteq {slot, mine}
  /\ phase = "between" => alive \subseteq {slot}

\* A parked engine waits for a new session with nothing under way but the
\* output of threads that macros left running (park_resident).
ParkedClean ==
  slot \in alive => estack = <<>> /\ epos = "idle" /\ toEngine = <<>> /\ Replies = {}

\* Every run ends, whatever the engine does or fails to do: the budget and the
\* query limit end each conversation, the cancelled start-up is joined.
RunEnds == (phase = "typing") ~> (phase = "between")
=============================================================================
