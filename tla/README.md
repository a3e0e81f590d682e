# Verification of scala-rs

scala-rs compiles Scala 2.13 to JVM class files. Most of it is a sequential
function from trees to trees, whose reference is scalac and whose tests are
differential. A smaller part is not sequential at all: macro implementations
run in a JVM that several compiler processes share, compilers race to find or
start that JVM, an expansion may call back into the typer in the middle of a
request, a batch process hands its engine from one compilation to the next, and
class files are written by threads while the compile that may still fail goes on.
That part is hard to test, and it is what these modules model first. Inside one
process they model the places where state outlives the step that wrote it: caches
kept from run to run, signatures completed on demand, and the few algorithms that
have a definition of their own to be compared with.

## 1. The system

### Parts, their state and operations

| Part | Source | State | Operations |
|---|---|---|---|
| span | `crates/span` | line tables, diagnostics | locate, report |
| lexer, parser | `crates/lexer`, `crates/parser` | mode stack, token position | tokenize, parse |
| pickle | `crates/pickle` | entry tables, cached full names | decode, encode names, read signatures |
| typer | `crates/typer/src` | symbols, linearization cache, scopes, completion marks, caches of archives and class files | type units, search implicits, complete signatures, lower trees |
| macro engine client | `crates/typer/src/expand.rs` | engine handle, pending start-up, parked resident JVM, what was already sent | start, converse, poison, park, terminate |
| daemon discovery | `crates/cli/src/main.rs`, `expand.rs` | endpoint file, lock, Unix socket path, cached endpoint path | probe, spawn, publish, stop |
| macro daemon | `crates/typer/java/ScalaRsMacroEngine.java` | semaphore, static streams, `engineSince`, listeners | accept, session, reject, watchdog, idle exit, shutdown |
| engine cache | `expand.rs` `compile_engine` | directory of the engine's classes | compile, publish |
| engine runtime | `ScalaRsMacroEngine.java` | class loaders, mirrors, per-expansion statics | reset a run, expand, query |
| backend | `crates/backend` | constant pools, code buffers | generate, pickle |
| driver | `crates/driver` | write pool, emitted classes | compile, write, discard, rewrite |
| cli | `crates/cli` | batch requests | compile, `__compile_batch`, `__macro_endpoint` |

### How they interact

```
 compiler process                                         daemon JVM (shared)
 typer --- start thread ---> __macro_endpoint --spawn--> runDaemon
   |            |             flock, endpoint file         TCP acceptor (main)
   |            +--- Unix socket, else TCP --------------> Unix acceptor
   |  (expand) ->                                          worker per connection
   |  <- (query) / (answer) ->   one line at a time        static in/out, permit
   |  <- reply                                             watchdog
   |
   +--- or over pipes: a resident JVM (batch) or a JVM of the run's own
 driver --- chunks ---> writer threads ---> output directory
```

### What is hard, and what makes it right

* **One session, static streams.** The daemon's workers share `in`, `out` and
  `engineSince`. Right means: one session at a time, its lines go to its own
  compiler, a rejected worker disturbs nobody, an orphaned session ends.
* **Taking turns.** An expansion suspends in a query, and answering it may expand
  another macro on the same engine. Right means: each reply is for the expansion
  that waits for it; every conversation ends by a budget or a limit.
* **Sharing an engine over runs.** Settings and source texts that "this run has
  sent" are left out. Right means: the engine holds them, for this run; a parked
  engine has nothing under way; no JVM outlives its process's need of it.
* **Discovery.** Files found by path outlive the daemon that wrote them. Right
  means: one daemon at a time, a leaving daemon spares its successor.
* **Writing in the background.** Right means: success is a complete tree, a
  rejected compile leaves nothing that can be removed, order is that of a sequential compile.
* **Caches** of engine classes, class loaders and archives are validated by stamps
  and published by renames. Right means: what is found is what is on disk now, what
  is published is whole, what was missing is looked for again, a limit is a limit.
* **Answers remembered while the question changes.** Linearizations are kept while
  parents are still being added and names still being resolved; inferred types are
  completed by whoever needs them first, some of them too early. Right means: nothing
  provisional is kept, no error is lost, no cycle goes unreported or without end.
* **Algorithms with a reference.** The exhaustiveness solver against truth tables, the
  signature codec against the identity, the captures of lifted methods against the
  calls that must be served.

`PROJECT.json` lists every part (`components`) and every hazard at its line.

## 2. Modules

| Module | Models | Checked by |
|---|---|---|
| `MacroDaemon` | the daemon's threads and its compilers' ends of the connections | `daemon_*` |
| `MacroDaemonProofs` | theorems about `MacroDaemon` | TLAPS |
| `EngineSession` | the engine as one compiler process sees it | `session` |
| `EngineSessionProofs` | theorems about `EngineSession` | TLAPS |
| `DaemonEndpoint` | finding, starting, stopping daemons | `endpoint`, `endpoint_interrupt` |
| `DaemonEndpointProofs` | theorems about `DaemonEndpoint` | TLAPS |
| `ClassWriter` | the driver's write pool | `writer`, `writer_spared` |
| `ClassTree` | abstract: what a compile promises of its output directory | refined by `ClassWriter` |
| `ClassWriterProofs` | theorems about `ClassWriter`, the refinement included | TLAPS |
| `EngineCache` | `start_engine`, `compile_engine`: compiling and publishing the engine | `parts`, `EngineClassesProofs` |
| `RuntimeLoaders` | `ClassPath`, `RuntimeLoader`, `resetRun`: class loaders kept between runs | `parts`, `EngineClassesProofs` |
| `Linearization` | `lin.rs` `linearize` and `LinCache` of `symbol.rs` | `parts`, `AlgorithmProofs` |
| `InheritanceCycles` | `inheritance_cycle`, `check_inheritance_cycle` | `parts` |
| `LazySig` | `lazysig.rs` across the passes of `typecheck_units` | `parts`, `lazysig_kept` |
| `PatmatSolver` | `warn_patmat_logic.rs`: formulas and their clauses | `parts` |
| `ModelSearch` | its second half: the models of a set of clauses | `parts` (through `PatmatSolver`), `AlgorithmProofs` |
| `LiftCaptures` | `lift_template`, `close_over_callees` of `lambda_lift.rs` | `parts`, `AlgorithmProofs` |
| `SignatureCodec` | `codec.rs`, the constants of a signature, and the way back | `parts`, `CompiledClassesProofs` |
| `ResidentCaches` | the caches of `javaclass.rs` a resident process keeps | `parts`, `CompiledClassesProofs` |
| `EngineClassesProofs` | theorems about `EngineCache` and `RuntimeLoaders` | TLAPS |
| `CompiledClassesProofs` | theorems about `SignatureCodec` and `ResidentCaches` | TLAPS |
| `AlgorithmProofs` | theorems about `Linearization`, `ModelSearch` and `LiftCaptures` | TLAPS |
| `Loops` | a loop over a sequence as a fold (`Fold`), used by `Linearization` and `SignatureCodec` | with them |
| `LoopTheorems` | induction over sequences, and what a fold does with one element more | TLAPS |
| `MCParts` | the nine parts, from `EngineCache` to `ResidentCaches`, side by side | `parts` |

The three macro modules meet at the session. `DaemonEndpoint` ends where a
session begins; `MacroDaemon` models its inside with the far ends of several
compilers; `EngineSession` models one compiler over all its sessions and takes of
the daemon only that it answers, asks, dies or stays silent. `EngineCache` comes
before all of them (no engine starts without its classes), `RuntimeLoaders` is inside
the engine at the start of each run. The last nine modules share no variable:
`MCParts` lets a behaviour work on one of them, chosen at the start, so that one run
answers for all.

Definitions whose comment begins "Mutant:" are altered forms of the definition
after them. They are part of no specification; each is a plausible slip in the
code, and substituting it makes TLC find the property violated.

### MacroDaemon

`client[c]` is the compiler of connection `c` (`start_direct_daemon_engine`,
`MacroEngine::send`, `converse_with`, `terminate_once`), `srv[c]` the worker thread
of `runDaemonSession` that serves it. `holders` are the workers whose local
`acquired` is true, `permits` the semaphore, `inOwner` and `outOwner` the static
streams. `mainPc` is the TCP accept loop of `runDaemon`, which is also the way out,
`unixPc` the Unix acceptor. Reading the first line belongs to the acceptor
(`ReadStart`), with a timeout on TCP only (`StartTimesOut`). `since` is the age of
`engineSince`: `Tick` advances it and it saturates at `WatchdogLimit`. What a macro
prints is `log` lines on the static `out`, between a request and its answer, up to
`MaxLogs` of them unread. `strayed` records the connections on which a worker that is
not theirs has printed its error.

Each pair of accesses to shared statics that another thread can come between is
two actions: test and exit of the watchdog (`WatchdogFires`, `WatchdogExits`), the
idle test and the steps out (`LeaveIdle`, `CloseUnix`, `DropEndpoint`, `ExitIdle`),
acquire and redirect (`TryAcquire`, `TakeStreams`), a printed line and the clearing
of the clock behind it (a session is "printed" or "asking" in between, and may be
condemned there although its compiler has the line), the finally clause and the
release (`CloseSession`, `Release`). `BrokenPipe` says whether writing to a
connection whose peer has closed it raises an error: it depends on how much the
socket has buffered. `MayLoop` lets a macro not terminate.

### EngineSession

`phase` is the run (a `__compile_batch` process has several), `eng` the typer's
`macro_engine`/`macro_engine_pending`, `startPc` the start-up thread with its
fall-backs daemon, resident, own. `stack` holds the compiler's nested expansions
with the lines read so far for each, `estack` the engine's; `active` is the
expansion whose statics are loaded. `settingsSent` and `sourcesSent` belong to the
compiler's handle, `eSettings` and `eSources` to the engine. `Log` is a line printed
by a macro or by a thread it left running, at any time; `Dies` the loss of a JVM.
`resident` and `timing` are fixed by the initial state, so one run covers a one-shot
and a batch process, with and without macro timing.

### DaemonEndpoint

`cpc[c]` is a compiler together with its `__macro_endpoint` helper: lock, read the
file, probe, spawn, poll. `dpc[d]` is a daemon from boot through bind, publication
and service to the steps that close its listeners and delete its files. A file is
the daemon that wrote it, a daemon its process, port and token. `ProbeTimesOut` (the
100 ms probe fails on a daemon that runs) and `KilledStarting` (the helper is killed
while its daemon starts) are faults that can be switched on.

### ClassWriter and ClassTree

`pc` is `compile_paths_unreported` from the first unit on, `pending`, `jobs`, `done`
the chunks before the pool starts, in its queue and finished, `rx` the lock on the
shared receiver, which a writer holds while it waits. A class is a unit and an index,
a file whose version it holds: none, an earlier build's, a truncated one, this run's,
or this run's second version (`Rewrite`, for classes whose fields others read).
`poolMin` is chosen in the initial state: 64 in the code, small here, so that the
same units stay below it or reach it early or late.

`stuck` are the files that `discard` could not remove; it ignores the error and goes on.

`ClassTree` says what is promised: files appear in any order, success only over a
complete tree, a withdrawn compile leaves only what was there before, or less, and the
files that could not be removed.

### EngineCache

`upc[u]` is a compiler in `start_engine` and `compile_engine`: look for a valid main
class, write the source, run javac, rename the staging directory, or, when the shared
directory is there without its classes, move them in one by one with the main class
last. A temporary-file sweep removes files at any time and a daemon's endpoint
directory keeps the directory from disappearing; compilers are killed and fail at every
step. `MainClassLast`: a valid main class means that its helpers are there too, unless
the sweep took them afterwards. `OkMeansPublished`: a compiler told Ok saw such a main
class, and one that has published an engine itself found all of it there. Neither says
that the engine runs. `valid_engine_class` looks at the main class alone, so that a
directory from which the sweep took a helper counts as an engine until the main class goes
too; the comment at `expand.rs:795`, "Published helper directories are complete and
immutable.", does not hold of it.

### RuntimeLoaders

`pool` is `runtimeLoaders`, each loader with the classes it has defined, their stamps and
digests and the classes it did not find. `ResetRun` chooses a loader by `Compatible`,
forgets the misses that may now be hits and evicts; a `forgetMissing` that fails may have
forgotten some. Other programs rewrite class files and archives at any time, also between
the read of a class file's bytes and of its stamp (`torn` marks a class so loaded), and
also without a change of the stamp (`WriteUnseen`; `under` is what a file has held under
its present stamp). `ReusedUnchanged`: those of a reused loader's classes that still
resolve on the new classpath come from the files it gives, with contents these have had
under their present stamp, or were torn. `MissesForgotten`: nothing that has appeared
stays missing.

`docs/usage.md:99-102` says more than the code does: "while every class it already loaded
still resolves to the same, unchanged class file". `compatible` passes over a class that
resolves to nothing (Java 396), also one that was deleted from a directory still on the
classpath, and the comment above it excuses only entries that the classpath lacks
altogether. A torn class, or one rewritten under its stamp, is taken for unchanged.

### Linearization and InheritanceCycles

A parent clause names its class outright or through the scopes; `scope` changes without
moving `graphGen`. The recursion of `Lin::lin` is a stack of visits (`walk`): each has its
class, the parents it has not asked about, what the others were folded to, and whether a
cycle or a loose name has touched it (the two counters of the code, which are only ever
compared with what they were when the visit began). One step is one parent of the innermost
visit: known (`TakeKnown`), on the path (`TakeOnPath`), or a visit of its own (`Descend`,
`Return`). The walk has the symbol table to itself, as in the code. Every answer, after any
sequence of questions, mutations and scope changes, must be a linearization of the present
graph (`AnswersRight`: every class above, once, and without a cycle exactly what SLS 5.1.2
defines), and what is in the cache must not depend on a cycle or a loose name
(`RememberedSettled`).

In `InheritanceCycles` each template asks for the cycle it
reaches; all must name the same one (`CycleNamed`), and although each
report cuts an edge before the next template asks, a program with a cycle is always
rejected (`CyclicRejected`).

### LazySig

`prog` is a program of definitions with the references of their bodies, `opening` the
import or the parent argument that one of its templates begins with; `pass` and `cursor`
are where `typecheck_units` is: the two sweeps of the header pass, the signature pass, its
second round for what the first put off, and the bodies. `typer` holds the tables of
`lazysig.rs`: types, pending and in-progress marks, provisional completions and
diagnostics. Completion is recursive and one step, as in the single thread of the code. An
import is typed again by every pass, and completes what it needs in each; a parent's
argument does so in the signature pass and with the bodies.

`CyclesReported`: a cycle among inferred types is reported as one. `AcceptedWhole`: errors
are reported, and a program with neither errors nor cycles is accepted without a
complaint, with a type for every definition. Both except what the signature pass completes
for good (`kept`), and the first also the members on which a completion that was taken
back left `<error>` (`stale`). The exceptions are needed. `ErrorsReported` claims the
errors without one, and `lazysig_kept` refutes it. And a cycle can be lost: for `val d =
e; def e = { d; 1 }; import d._` the signature pass completes `d`, and on the way `e`,
which meets the cycle. The report is taken back with `d`'s completion, but `e`, a block,
has a type and stays, so that the next completion of `d` finds no cycle and the program is
accepted. The comment at `lazysig.rs:510-513` expects the body pass to report it.

### PatmatSolver and ModelSearch

Formulas over a few symbols are simplified and turned into clauses with auxiliary literals
(`PatmatSolver`), whose models are then searched for by DPLL with an explicit stack, one
step at a time (`ModelSearch`, which knows nothing of formulas). The clauses are a set:
which one the code's list has first decides the order of the models only, so that the first
unit and the first clause are any. Truth tables are the
reference (`ModelsExact`): each model found satisfies the formula as it was given, no
assignment is covered twice, and when the enumeration ends before its budget every
satisfying assignment is covered.

### LiftCaptures, SignatureCodec, ResidentCaches

`LiftCaptures` steps through the fixpoint loop method by method. `CapturesRight`: when it
ends a method has, as parameters and each once, every local its callees need
(`CallsServed`), and only locals that are in scope where it is (`CapturesInScope`).
`SignatureCodec` encodes, splits, joins and decodes a pickle (`SignatureSurvives`: nothing
is lost and no constant is longer than its two-byte length can say). `ResidentCaches` has
the archive indexes with their eviction and the class caches with their common budget:
counters never fall below what is kept (`BudgetsKept`), and no answer is older than the
change that gave the file the stamp its lookup saw (`AnswersFresh`).

A file's stamp there is not its version: a change in the same instant as the one before
may leave the stamp as it was. The second stat of `list_directory` is a step of its own,
and does not help with such a change: the comment at `javaclass.rs:350-351` wants a
directory "read again next time" that changed "in the same instant", but an unchanged
stamp is what lets the listing be kept, and answered until the next change that shows.

## 3. Runs

| Run | Expect | Shows |
|---|---|---|
| `daemon_safety` | pass | one session (`SessionExclusion`), its own streams (`OwnStreams`), turns that are kept unless another worker's error comes between (`TurnTaking`), a watchdog that fires on no session that waits for scala-rs (`WatchdogSpares`), with output of macros, looping macros, broken pipes, kills and timeouts |
| `daemon_live` | pass | with broken pipes and without loops: a start line is answered (`StartAnswered`), an orphan gives the permit back (`OrphanReleased`) |
| `daemon_stray` | violation | a rejected worker whose compiler hung up prints `(err ...)` on the running session's stream (`StaysInStep`) |
| `daemon_watchdog` | violation | a rejected worker clears `engineSince`; the orphan loops for ever (`OrphanReleased`) |
| `daemon_idle_kill` | violation | a session that starts after the idle test dies with the JVM (`IdleExitSparesSessions`) |
| `session` | pass | `InStep`, `SourceKnown`, `NoEngineLeak`, `ParkedClean`, `RunEnds` |
| `endpoint` | pass | `OneDaemon`, `SuccessorSpared`, `StopReaches`, `AskEnds` |
| `endpoint_interrupt` | violation | a helper killed between spawn and publication leaves a daemon nobody finds (`OneDaemon`) |
| `writer` | pass | `Complete`, `PushOrder`, `NothingLeft`, `JoinEnds`, and `Refines`: the pool implements `ClassTree` |
| `writer_spared` | violation | after a failed write, `discard` deletes an earlier build's file the run never wrote (`OthersSpared`) |
| `parts` | pass | the properties named with the nine modules in section 2, each over one part |
| `lazysig_kept` | violation | a member completed for a parent constructor's argument during the signature pass keeps its body, and its error is dropped with the argument's (`ErrorsReported`) |

The violations are disagreements between the code and its comments or docs; the
findings in `PROJECT.json` quote both. `TurnTaking` is what is left of `StaysInStep`,
and `daemon_live` states what the daemon guarantees as long as macros end. Four smaller
disagreements have no run of their own; they are exceptions of properties that hold, and
section 2 describes each: swept helpers (`EngineCache`), loaders with classes that are gone
or torn (`RuntimeLoaders`), lost cycles (`LazySig`), changes within one instant
(`ResidentCaches`).

### Bounds, and why they are enough

* Two compilers are enough for every conflict over one permit and one pair of static
  streams: a third is told busy like the second. Two requests let a late line of the first
  meet the second. One unread line of output (`MaxLogs`) stands before a query, a reply or
  nothing; `daemon_live` has none, to stay small. The compilers are symmetric in
  `daemon_safety`, which has no liveness property.
* `IdleLimit` 1 and `WatchdogLimit` 2 ticks: expired or not, and expired just after the
  clock was set. A tick may fall anywhere.
* `session`: two runs (first and next owner of a resident engine), three expansions and
  depth three (a query of a query), two source files (sent, not sent), two lines per
  expansion (below and at the limit), two late lines.
* `endpoint`: two compilers and two daemons: a daemon and its successor. Two rounds let a
  cached path go stale; one poll separates a start-up in time from a late one.
* `writer`: four units of 2, 1, 0 and 1 classes, two writers, pool minima of 2 (the first
  unit starts the pool), 3 (a later one does) and 5 (never); any set of files may refuse
  to be removed.
* `parts`, cache: two compilers that race, two helpers (a partial directory has one of
  them), two builds each (before and after a sweep). Loaders: one directory and one
  archive (stamped apart or together), two class files, two contents, a pool of two (full,
  and evicting), three runs, two writes (there, and changed while it is loaded or later).
* `parts`, linearization and cycles: three classes with up to two parents make diamonds
  and overlapping cycles; one loose name; a diamond to begin with, which two mutations
  turn into cycles of two and of three, with the cache filled before, between and after.
  Signatures: three definitions with two references (chains, cycles of two,
  self-reference), at most one with a written type and one whose body is not plain, and an
  import or a parent argument that needs any of them, in a template that holds all of them
  or the last.
* `parts`, solver: three symbols, and six for the ladder form of at-most-one; a budget of
  five models, reached by some formulas and not by others. Lifting: three methods in every
  nesting, one read and three calls (cycles of three).
* `parts`, codec: pickles of up to eight bytes (a whole group of seven and one more) of 0,
  127 and 255; constants of four bytes, so that a zero falls on every place of the limit.
  Caches: two archives, which fit the limit together only while both are small, a class
  file, a listing, two rewrites, four lookups.

`CHECK_DEADLOCK FALSE` is set because compiles, sessions and daemons end, and so does
each of the parts. No liveness is stated of the parts: each is a loop bounded by its
input.

### Fairness

* `daemon_live`: weak fairness of each compiler's reactions, of each worker together
  with its macro, of the acceptors, the watchdog and the clock: threads the operating
  system schedules. A compiler is not obliged to send a request, to give up, or to
  die. `MayLoop` is FALSE in `daemon_live` and TRUE in `daemon_watchdog`.
* `session`: weak fairness of the compiler and of its start-up thread only. Nothing is
  assumed of the engine: `RunEnds` rests on budgets and limits alone.
* `endpoint`: weak fairness of the compilers with their helpers; daemons may take any
  time at every step.
* `writer`: weak fairness of the compile and of every writer thread.

## 4. Proofs

Every theorem is about the specification TLC checks, for every value of the constants that
the module's named ASSUME allows. No theorem assumes more than that but the three that say
so: they exclude two faults that the code does not handle, of which one refutes the
property in a run and the other is listed as a hazard.

| Module | Theorem | Property | Hypothesis |
|---|---|---|---|
| `MacroDaemonProofs` | `TypeCorrect`, `OneSession`, `StreamsOwned` | `TypeOK`, `SessionExclusion`, `OwnStreams` | |
| | `WatchdogSparesWaiting` | `WatchdogSpares` | |
| | `TakesTurns` | `TurnTaking` | |
| `EngineSessionProofs` | `SessionTypes`, `NoJvmLost`, `ParkedIsClean` | `TypeOK`, `NoEngineLeak`, `ParkedClean` | |
| | `LeftOutIsHeld`, `StaysInStep` | `SourceKnown`, `InStep` | |
| `DaemonEndpointProofs` | `EndpointTypes` | `TypeOK` | |
| | `OneDaemonAtATime`, `LeavesSuccessor`, `StopReachesIt` | `OneDaemon`, `SuccessorSpared`, `StopReaches` | `~ProbeTimesOut`, `~KilledStarting` |
| `ClassWriterProofs` | `SuccessIsComplete`, `WithdrawnLeavesNothing` | `Complete`, `NothingLeft` | |
| | `GivesBackInOrder`, `WriterTypes` | `PushOrder`, `TypeOK` | |
| | `Implements` | `Refines` | |
| `EngineClassesProofs` | `PublishedWhole`, `OkIsPublished` | `MainClassLast`, `OkMeansPublished` | |
| | `ReusesUnchanged` | `ReusedUnchanged` | |
| | `ForgetsMisses` | `MissesForgotten` | |
| `CompiledClassesProofs` | `AnswersAreFresh`, `BudgetsAreKept` | `AnswersFresh`, `BudgetsKept` | |
| | `SignatureAlwaysSurvives` | `SignatureSurvives` | |
| `AlgorithmProofs` | `AnswersAreRight`, `RememberedAreSettled` | `AnswersRight`, `RememberedSettled` | |
| | `CapturesClosed` | `CapturesRight` | |
| | `ModelsAreModels` | `ModelsSatisfy`, `ModelsDisjoint` | |
| | `NoModelMissed` | `ModelsCover` | |

**`MacroDaemonProofs`**. Exclusion is not inductive: a worker that is past the acquire
might, as far as exclusion says, not be a holder. `HolderPlace` ties a worker's place to
its `acquired`: inside the session it has acquired, and one that has acquired is inside or
in its finally clause. A worker then takes the permit only when nobody is inside, and the
streams change only when the permit has just been taken. `TypeOK` is split by the group of
variables it speaks of, with one lemma per group. `WatchdogSpares` follows from
`ClockStopped`, which needs exclusion: the clock is one static field, and only the holder
of the permit sets it. `TurnTaking` follows from `Turns`: the places of the two ends
together say which lines are under way on a connection: at most one that calls for an
answer, and the macro's output before it. A connection on which another worker has printed
its error (`strayed`) is out of step for good and exempt, as `daemon_stray` shows it must
be.

**`EngineSessionProofs`**. `SessionIInv` has three parts that need one another.
`ProcessIInv` says which JVM is there from where the handle and the start-up thread are, so
that no step forgets one. `TalkIInv` says how far the two stacks of expansions agree: up to
the one line that is under way, and that line says what is missing. `HeldIInv` says that
what a run has sent is held by the engine or is in the request under way. The assumption
`MaxProcs \in Nat \ {0}` bounds how many JVMs a behaviour may start.

**`DaemonEndpointProofs`**. While a helper holds the lock the endpoint file changes only
from what it has read to nothing, or to its own child (`FileIsStill`); a daemon that is not
published is some helper's child (`StartIsWatched`) and one that serves has the file
(`EndpointKept`). A helper that finds no daemon may then start one, as there is none. Both
hypotheses are necessary: with either fault there can be a daemon that no file names
(`endpoint_interrupt` is the case of the helper), and TLC finds each of the three
properties violated when either constant is TRUE.

**`ClassWriterProofs`**. The inductive invariant accounts for every chunk: a unit with
classes that has been emitted is waiting, queued, with a writer, or done
(`Accounted`); while no write has failed, what a writer is past and what is done is on
disk (`Progress`); what is on disk has been through a writer (`Untouched`); a writer
leaves only when the queue is closed and empty (`Exits`); and the phase of the compile
says which of these are in use (`Phases`). When all writers have exited a chunk can
only be done, which gives both results, and each step is then a step of `ClassTree`: the
withdrawal removes every file of the run that is not `stuck`, and leaves a stuck one as it
is.
The non-empty set of writers is needed: with none, join would return at once. For the
order, `OrderIInv` says that the chunks on their way have the numbers below `nextSeq`, each
in one place (`QueueApart`, `HeldApart`, `DoneApart`), and that larger units have larger
numbers (`Numbered`). When all are done their numbers are those of 0 to `Len(done) - 1`, by
counting, so the stable sort of `join` puts every chunk at its number (`SortOrders`).

**`EngineClassesProofs`**. Of the cache: a compiler that moves classes in one by one
relies on the ones it has moved. `Moved` says that these are fresh, which the sweep leaves
alone, so that when only the main class is left the helpers are there.

Of the loaders: what a loader records of a class file is among what the file has held under
the recorded stamp for as long as it has that stamp, and a new stamp is one that nothing was
recorded with (`TrueOf`); comparing stamps is then comparing contents, up to what a stamp
cannot tell. A class in an archive is safe while it is loaded because the archive was opened
when the class was found (`FoundOpened`). The misses of a loader's mirror are among those that
`forgetMissing` is asked to undo (`MissesKnown`).

**`CompiledClassesProofs`**. Of the caches: every entry, kept or on its way, was stamped
before it was read (`ReadLater`), and an entry is used only when its stamp is the lookup's;
so it has the change that the stamp stands for, and later ones that kept the stamp it may
miss.
A sum of sizes is the cardinality of a set of numbered bytes (`ByteSet`), so that what one
step adds or removes is a matter of disjoint unions. The archives' counter is exact; that of
the classes is an upper bound, because entries that are replaced or evicted are not
subtracted from it, and it falls only together with everything it counts (`Clear`). The
eviction takes the least recently used archives until there is room; that such a set exists
is shown by taking a largest one.

Of the codec: every loop is a fold. Induction over its input is possible here because the
predicate is a set: the lengths for which a claim fails have a least one, if any
(`SeqInduction`). The decoder follows the encoder by one byte: of the last byte written it
has the low bits, and the encoder still owes the high ones (`HalfwayStep`), which are
found in the low bits of the next seven-bit byte. The chunks are each within their limit
and make, one after the other, the string that was split; a zero, two bytes in modified
UTF-8, is never cut in two because the split is between chars.

**`AlgorithmProofs`**. Of the linearization: `LinIInv` has three parts. What is known, in the
memo or published, is right, settled, and known of everything above it as well (`EntriesOK`).
A visit has folded the answers about the parents behind it (`Folded`), in the order of SLS
5.1.2 if its class is not above itself, and whatever it has collected has its parents there
too, unless it is on the path to the visit (`Covered`): that is why cutting a cycle short
loses the order and never a class, for the path of the first visit is empty when it answers.
And the class of each visit is above those of the visits around it (`StackOK`), so that
meeting a class of the path again proves a cycle. The definition of SLS 5.1.2 is a fold to a
depth that is enough (`DeepEnough`, by counting the classes above a class), and nothing else
satisfies its equation on a set of classes with all that is above them (`OnlyOne`). That is
what a change of scope needs: the parents of the known classes stay, so their entries still
satisfy the equation, in a graph that may differ everywhere else. The theorems are about any
number of classes, any first parents and any mutations.

Of the search for models: the assignment of a frame can always be completed to a
valuation, since the clauses left do not mention its variables, and any such valuation
that satisfies the clauses left satisfies all of them (`FrameOK`). As long as the clauses
can be satisfied, those left in some frame can (`Alive`). It is not true that every
valuation survives in a frame: assigning a pure literal loses those that deny it, but
turning its variable round in one keeps every clause satisfied. A blocking clause names
symbols only, so that the next model differs from each earlier one in a symbol
(`BlockedOK`). These two theorems are about any set of clauses, of any size and over any
variables; TLC checks the same search for the clauses of formulas, in `ModelsExact`, which
has `ModelsDisjoint` as a part.

Of the lifted methods: as long as nothing has grown in a round, the methods it has passed
are served (`RoundServed`), so a round that changes nothing has served all. Captures stay in
scope since what encloses a callee encloses its caller, or is the caller
(`NamedFromInside`).

### Only model-checked

* Everything under fairness, which the prover does not do: `StartAnswered`,
  `OrphanReleased`, `RunEnds`, `AskEnds`, `JoinEnds`.
* What recursive operators compute; the prover has no SMT backend where one is declared:
  `CycleNamed` and `CyclicRejected` (the search of `InheritanceCycles`), `CyclesReported`
  and `AcceptedWhole` (the completion of `LazySig`), and of `ModelsExact` that the clauses
  of `PatmatSolver` say what the formula says.

## 5. Not modelled

* The content of typing, lowering and code generation: no abstraction of it is smaller
  than the code, and its reference is scalac. It is most of the repository's 237 thousand
  lines, so the modules cover a small share of them, the share whose correctness is not a
  comparison with scalac's output. What an expansion or an answer says is abstracted to
  which expansion it belongs to.
* Lexer, parser, spans, constant folding, name mangling: functions of their input without
  a state that outlives a call, or tables that a model would restate.
* Of `LazySig`: results of overridden members, type aliases, defaults, block-local
  definitions, further rounds of the header pass, more than one import or parent argument
  in a program. Of `RuntimeLoaders`: an archive that is packed again with its stamp
  unchanged, for which the engine would go on with the copy it has open. Of
  `PatmatSolver`: how a match becomes a formula. Of `ResidentCaches`: memo tables of a
  single run.
* Wire syntax and its size limits, log texts, timing reports, hashes, permissions and
  ownership checks of directories, Windows paths.
* `__macro_proxy`, a byte copier, and `write_emitted`, a fork-join without a queue.
* A foreign process on a dead daemon's port: a port stands for its daemon.

## 6. Plan

Done: every module of section 2, and the proofs of section 4, which cover every invariant and
action property that does not rest on a recursive operator or on fairness. Left: the search of
`InheritanceCycles`, which would have to be written as steps over an explicit stack, as the
walk of `Linearization` is, before anything can be proved of it; the completion of `LazySig`;
and that the clauses of `PatmatSolver` say what the formula says.
