----------------------------- MODULE MacroDaemon -----------------------------
(***************************************************************************)
(* The shared macro daemon: one engine JVM (ScalaRsMacroEngine --daemon)   *)
(* that every compiler on the machine connects to.  Two acceptor threads   *)
(* (TCP, which is the main thread, and Unix-domain) read the first line of *)
(* a connection and hand it to a worker thread; a semaphore of one permit  *)
(* lets one worker hold a session, the others are told "(busy)".  The      *)
(* session uses STATIC streams `in' and `out', and a STATIC clock          *)
(* `engineSince' that a watchdog thread reads.                             *)
(*                                                                         *)
(* A connection is named by the compiler run that opens it.  The wire is   *)
(* modelled line by line; what a line says is abstracted to its kind, the  *)
(* session that wrote it and the request it answers.  Time is abstracted   *)
(* to ages that a Tick advances and that saturate at their limit.          *)
(***************************************************************************)
EXTENDS Integers, Sequences

CONSTANTS
  Conns,            \* the compiler runs that use the daemon, one connection each
  NoConn,           \* no connection: a static stream that was never set
  Families,         \* socket families in use: without "unix" the JDK has no Unix sockets
  MaxRequests,      \* bound: expansions one run asks for
  MaxLogs,          \* bound: lines of a macro's output that wait to be read
  IdleLimit,        \* ticks in the three idle minutes after which the daemon leaves
  WatchdogLimit,    \* ticks in the ten minutes a macro may compute silently
  MayLoop,          \* may a macro implementation fail to terminate?
  BrokenPipe        \* may writing to a connection its peer closed raise an error?

ASSUME DaemonConstants ==
  /\ NoConn \notin Conns
  /\ Families \subseteq {"unix", "tcp"}
  /\ MaxRequests \in Nat
  /\ MaxLogs \in Nat
  /\ IdleLimit \in Nat \ {0}
  /\ WatchdogLimit \in Nat \ {0}
  /\ MayLoop \in BOOLEAN
  /\ BrokenPipe \in BOOLEAN

VARIABLES
  client,      \* client[c]: where the compiler of connection c is
  kind,        \* kind[c]: the socket family it connected through
  reqs,        \* reqs[c]: how many requests it has sent
  stop,        \* stop[c]: its "(shutdown token)" connection, queued or not
  toServer,    \* toServer[c]: lines written by the compiler, not yet read
  toClient,    \* toClient[c]: lines written by the daemon, not yet read
  srv,         \* srv[c]: where the daemon's thread for connection c is
  permits,     \* the semaphore's available permits
  holders,     \* the workers whose local `acquired' is true
  inOwner,     \* the connection the static `in' reads
  outOwner,    \* the connection the static `out' writes
  strayed,     \* history: the connections another worker's error was printed on
  since,       \* age of engineSince, 0 while it is 0 (waiting for scala-rs)
  watch,       \* the watchdog thread: asleep, or past its test and exiting
  mainPc,      \* the main thread: TCP accept loop, then the way out
  unixPc,      \* the Unix-domain acceptor thread
  idle,        \* age of the local `idle' of the accept loop
  probes,      \* liveness probes of __macro_endpoint waiting in the TCP backlog
  endpoint,    \* the endpoint file is published
  exit         \* how the JVM ended, "no" while it runs

clientVars == <<client, kind, reqs, stop>>
wire       == <<toServer, toClient>>
streams    == <<inOwner, outOwner, strayed>>
session    == <<permits, holders, streams>>
accept     == <<mainPc, unixPc, idle, probes, endpoint>>
vars       == <<clientVars, wire, srv, session, since, watch, accept, exit>>

\* The kinds of a line: what the daemon writes, and what a compiler writes.
Line(k, from, n) == [kind |-> k, from |-> from, n |-> n]
Lines == [kind : {"ready", "busy", "query", "reply", "log", "err", "start", "expand", "answer"},
          from : Conns, n : 0..MaxRequests]

Up       == exit = "no"
\* A session that has printed "(ready)", a reply or a query is on its way to
\* awaitScalaRs ("printed", "asking") and then blocked there ("await", "ask").
Serving  == {"printed", "await", "handle", "loop", "asking", "ask"}
HasPeer  == {"connected", "starting", "ready", "waiting", "asked", "poisoned"}
Open(c)  == client[c] \in HasPeer
\* Print a line on c's socket; a PrintStream swallows the error of a closed one.
Println(c, line) ==
  toClient' = IF c \in Conns /\ Open(c) /\ srv[c] \notin {"closed", "done"}
              THEN [toClient EXCEPT ![c] = Append(@, line)] ELSE toClient
\* The compiler reads end-of-file once the daemon's side is closed and drained.
AtEof(c) == toClient[c] = <<>> /\ (~Up \/ srv[c] \in {"closed", "done"})

Init ==
  /\ client = [c \in Conns |-> "absent"]
  /\ kind = [c \in Conns |-> "unix"]
  /\ reqs = [c \in Conns |-> 0]
  /\ stop = [c \in Conns |-> "no"]
  /\ toServer = [c \in Conns |-> <<>>]
  /\ toClient = [c \in Conns |-> <<>>]
  /\ srv = [c \in Conns |-> "none"]
  /\ permits = 1
  /\ holders = {}
  /\ inOwner = NoConn
  /\ outOwner = NoConn
  /\ strayed = {}
  /\ since = 0
  /\ watch = "sleep"
  /\ mainPc = "accept"
  /\ unixPc = IF "unix" \in Families THEN "accept" ELSE "closed"
  /\ idle = 0
  /\ probes = 0
  /\ endpoint = TRUE
  /\ exit = "no"

-----------------------------------------------------------------------------
(* The compiler's side: expand.rs.                                         *)

\* The endpoint helper checks that the daemon is alive by connecting over
\* TCP and hanging up.  A resident compiler that cached the path skips it.
Probe ==
  /\ Up /\ endpoint /\ probes = 0
  /\ probes' = 1
  /\ UNCHANGED <<clientVars, wire, srv, session, since, watch, mainPc, unixPc, idle,
                 endpoint, exit>>

\* Read the endpoint, connect over the Unix socket if it is there and over TCP
\* otherwise (or when SCALA_RS_MACRO_FORCE_TCP is set).
Connect(c) ==
  /\ client[c] = "absent" /\ srv[c] = "none" /\ Up /\ endpoint
  /\ \E k \in Families :
       /\ k = "unix" => unixPc # "closed"
       /\ kind' = [kind EXCEPT ![c] = k]
  /\ client' = [client EXCEPT ![c] = "connected"]
  /\ srv' = [srv EXCEPT ![c] = "backlog"]
  /\ UNCHANGED <<reqs, stop, wire, session, since, watch, accept, exit>>

\* Write "(start token entry...)".
SendStart(c) ==
  /\ client[c] = "connected"
  /\ client' = [client EXCEPT ![c] = "starting"]
  /\ toServer' = [toServer EXCEPT ![c] = Append(@, Line("start", c, 0))]
  /\ UNCHANGED <<kind, reqs, stop, toClient, srv, session, since, watch, accept, exit>>

\* The first line decides: only "(ready)" opens the engine; anything else,
\* and end-of-file, makes the compiler drop the socket and use an engine of
\* its own.
ReadHello(c) ==
  /\ client[c] = "starting"
  /\ \/ /\ toClient[c] # <<>>
        /\ client' = [client EXCEPT ![c] = IF Head(toClient[c]).kind = "ready"
                                           THEN "ready" ELSE "gone"]
        /\ toClient' = [toClient EXCEPT ![c] = Tail(@)]
     \/ /\ AtEof(c)
        /\ client' = [client EXCEPT ![c] = "gone"]
        /\ UNCHANGED toClient
  /\ UNCHANGED <<kind, reqs, stop, toServer, srv, session, since, watch, accept, exit>>

\* A start-up that is cancelled, or runs into the start-up deadline, drops the
\* socket; it never stops the daemon.
AbandonStart(c) ==
  /\ client[c] \in {"connected", "starting"}
  /\ client' = [client EXCEPT ![c] = "gone"]
  /\ UNCHANGED <<kind, reqs, stop, wire, srv, session, since, watch, accept, exit>>

SendRequest(c) ==
  /\ client[c] = "ready" /\ reqs[c] < MaxRequests
  /\ reqs' = [reqs EXCEPT ![c] = @ + 1]
  /\ toServer' = [toServer EXCEPT ![c] = Append(@, Line("expand", c, reqs[c] + 1))]
  /\ client' = [client EXCEPT ![c] = "waiting"]
  /\ UNCHANGED <<kind, stop, toClient, srv, session, since, watch, accept, exit>>

\* One line from the engine: a line of the macro's output is printed and the
\* wait goes on, a query is answered, anything else is the reply.
AfterLine(k) == CASE k = "log" -> "waiting" [] k = "query" -> "asked" [] OTHER -> "ready"

\* End-of-file is a protocol failure, which poisons the engine.
ReadReply(c) ==
  /\ client[c] = "waiting"
  /\ \/ /\ toClient[c] # <<>>
        /\ client' = [client EXCEPT ![c] = AfterLine(Head(toClient[c]).kind)]
        /\ toClient' = [toClient EXCEPT ![c] = Tail(@)]
     \/ /\ AtEof(c)
        /\ client' = [client EXCEPT ![c] = "poisoned"]
        /\ UNCHANGED toClient
  /\ UNCHANGED <<kind, reqs, stop, toServer, srv, session, since, watch, accept, exit>>

AnswerQuery(c) ==
  /\ client[c] = "asked"
  /\ client' = [client EXCEPT ![c] = "waiting"]
  /\ toServer' = [toServer EXCEPT ![c] = Append(@, Line("answer", c, reqs[c]))]
  /\ UNCHANGED <<kind, reqs, stop, toClient, srv, session, since, watch, accept, exit>>

\* The expansion's time budget ran out while the engine had the ball.
TimeOut(c) ==
  /\ client[c] = "waiting"
  /\ client' = [client EXCEPT ![c] = "poisoned"]
  /\ UNCHANGED <<kind, reqs, stop, wire, srv, session, since, watch, accept, exit>>

\* A poisoned engine stops the whole daemon, over a connection of its own, and
\* then closes the session's socket; a healthy one only closes the socket.
Terminate(c) ==
  /\ client[c] \in {"ready", "poisoned"}
  /\ client' = [client EXCEPT ![c] = "gone"]
  /\ stop' = [stop EXCEPT ![c] = IF client[c] = "poisoned" /\ Up
                                 THEN (IF kind[c] = "unix" /\ unixPc # "closed"
                                       THEN "unix" ELSE "tcp")
                                 ELSE @]
  /\ UNCHANGED <<kind, reqs, wire, srv, session, since, watch, accept, exit>>

\* The compiler process is killed: its sockets close, whatever it was doing.
Killed(c) ==
  /\ Open(c)
  /\ client' = [client EXCEPT ![c] = "gone"]
  /\ UNCHANGED <<kind, reqs, stop, wire, srv, session, since, watch, accept, exit>>

-----------------------------------------------------------------------------
(* The acceptor threads: runDaemon and startDaemonSession.                 *)

\* A connection of the TCP backlog: the idle clock restarts, and the thread
\* goes on to read the first line.
AcceptTcp(c) ==
  /\ Up /\ mainPc = "accept" /\ srv[c] = "backlog" /\ kind[c] = "tcp"
  /\ mainPc' = "reading" /\ idle' = 0
  /\ srv' = [srv EXCEPT ![c] = "first"]
  /\ UNCHANGED <<clientVars, wire, session, since, watch, unixPc, probes, endpoint, exit>>

\* A probe has hung up already: its first line is end-of-file.
AcceptProbe ==
  /\ Up /\ mainPc = "accept" /\ probes > 0
  /\ probes' = 0 /\ idle' = 0
  /\ UNCHANGED <<clientVars, wire, srv, session, since, watch, mainPc, unixPc, endpoint, exit>>

\* The Unix acceptor never touches the idle clock.
AcceptUnix(c) ==
  /\ Up /\ unixPc = "accept" /\ srv[c] = "backlog" /\ kind[c] = "unix"
  /\ unixPc' = "reading"
  /\ srv' = [srv EXCEPT ![c] = "first"]
  /\ UNCHANGED <<clientVars, wire, session, since, watch, mainPc, idle, probes, endpoint, exit>>

\* The acceptor has read the first line of c (or its end-of-file) and loops.
AcceptorLoops(c) ==
  /\ mainPc' = IF kind[c] = "tcp" THEN "accept" ELSE mainPc
  /\ unixPc' = IF kind[c] = "unix" /\ unixPc = "reading" THEN "accept" ELSE unixPc

\* Mutant: the worker redirects the static streams before it has the permit.
ReadStartTakesStreams(c) ==
  /\ Up /\ srv[c] = "first" /\ toServer[c] # <<>>
  /\ toServer' = [toServer EXCEPT ![c] = Tail(@)]
  /\ srv' = [srv EXCEPT ![c] = "acquire"]
  /\ inOwner' = c /\ outOwner' = c
  /\ AcceptorLoops(c)
  /\ UNCHANGED <<clientVars, toClient, permits, holders, strayed, since, watch, idle, probes,
                 endpoint, exit>>

ReadStart(c) ==
  /\ Up /\ srv[c] = "first"
  /\ \/ /\ toServer[c] # <<>>
        /\ toServer' = [toServer EXCEPT ![c] = Tail(@)]
        /\ srv' = [srv EXCEPT ![c] = "acquire"]
     \/ /\ toServer[c] = <<>> /\ ~Open(c)
        /\ srv' = [srv EXCEPT ![c] = "done"]
        /\ UNCHANGED toServer
  /\ AcceptorLoops(c)
  /\ UNCHANGED <<clientVars, toClient, session, since, watch, idle, probes, endpoint, exit>>

\* Only an accepted TCP socket has a read timeout for its first line.
StartTimesOut(c) ==
  /\ Up /\ srv[c] = "first" /\ kind[c] = "tcp" /\ toServer[c] = <<>>
  /\ srv' = [srv EXCEPT ![c] = "done"]
  /\ AcceptorLoops(c)
  /\ UNCHANGED <<clientVars, wire, session, since, watch, idle, probes, endpoint, exit>>

\* "(shutdown token)": System.exit(0) on the acceptor thread.
AcceptShutdown(c) ==
  /\ Up
  /\ \/ stop[c] = "tcp" /\ mainPc = "accept"
     \/ stop[c] = "unix" /\ unixPc = "accept"
  /\ exit' = "shutdown"
  /\ UNCHANGED <<clientVars, wire, srv, session, since, watch, accept>>

\* An accept that timed out finds the permit free and the idle clock run out.
LeaveIdle ==
  /\ Up /\ mainPc = "accept" /\ probes = 0
  /\ \A c \in Conns : ~(srv[c] = "backlog" /\ kind[c] = "tcp") /\ stop[c] # "tcp"
  /\ permits = 1 /\ idle = IdleLimit
  /\ mainPc' = "closeUnix"
  /\ UNCHANGED <<clientVars, wire, srv, session, since, watch, unixPc, idle, probes, endpoint,
                 exit>>

\* Close the Unix listener and delete its path; what is in its backlog is reset.
CloseUnix ==
  /\ Up /\ mainPc = "closeUnix"
  /\ mainPc' = "dropEndpoint" /\ unixPc' = "closed"
  /\ srv' = [c \in Conns |-> IF srv[c] = "backlog" /\ kind[c] = "unix" THEN "done" ELSE srv[c]]
  /\ stop' = [c \in Conns |-> IF stop[c] = "unix" THEN "no" ELSE stop[c]]
  /\ UNCHANGED <<client, kind, reqs, wire, session, since, watch, idle, probes, endpoint,
                 exit>>

DropEndpoint ==
  /\ Up /\ mainPc = "dropEndpoint"
  /\ mainPc' = "exit" /\ endpoint' = FALSE
  /\ UNCHANGED <<clientVars, wire, srv, session, since, watch, unixPc, idle, probes, exit>>

\* runDaemon returns: the workers are daemon threads and die with the JVM.
ExitIdle ==
  /\ Up /\ mainPc = "exit"
  /\ exit' = "idle"
  /\ UNCHANGED <<clientVars, wire, srv, session, since, watch, accept>>

-----------------------------------------------------------------------------
(* The worker threads: runDaemonSession.                                   *)

TryAcquire(c) ==
  /\ Up /\ srv[c] = "acquire" /\ permits > 0
  /\ permits' = permits - 1 /\ holders' = holders \cup {c}
  /\ srv' = [srv EXCEPT ![c] = "open"]
  /\ UNCHANGED <<clientVars, wire, streams, since, watch, accept, exit>>

\* Mutant: the worker waits for the permit without a time limit.
AcquireNeverTimesOut(c) == FALSE

\* The permit stayed taken for the second the worker waits.
AcquireTimesOut(c) ==
  /\ Up /\ srv[c] = "acquire" /\ permits = 0
  /\ srv' = [srv EXCEPT ![c] = "reject"]
  /\ UNCHANGED <<clientVars, wire, session, since, watch, accept, exit>>

\* Mutant: "(busy)" is printed on the static out.
RejectOnStaticOut(c) ==
  /\ Up /\ srv[c] = "reject"
  /\ Println(outOwner, Line("busy", c, 0))
  /\ srv' = [srv EXCEPT ![c] = "closing"]
  /\ UNCHANGED <<clientVars, toServer, session, since, watch, accept, exit>>

\* Write "(busy)".  On a connection the compiler has already closed the write
\* may raise, and the catch clause then prints an "(err ...)" line on the
\* STATIC out, whoever that belongs to.
RejectBusy(c) ==
  /\ Up /\ srv[c] = "reject"
  /\ \/ /\ Open(c)
        /\ Println(c, Line("busy", c, 0))
        /\ UNCHANGED strayed
     \/ /\ ~Open(c)
        /\ UNCHANGED <<toClient, strayed>>
     \/ /\ ~Open(c) /\ BrokenPipe
        /\ Println(outOwner, Line("err", c, 0))
        /\ strayed' = strayed \cup {outOwner}
  /\ srv' = [srv EXCEPT ![c] = "closing"]
  /\ UNCHANGED <<clientVars, toServer, permits, holders, inOwner, outOwner, since, watch, accept,
                 exit>>

\* The session takes the static streams.
TakeStreams(c) ==
  /\ Up /\ srv[c] = "open"
  /\ inOwner' = c /\ outOwner' = c
  /\ srv' = [srv EXCEPT ![c] = "reset"]
  /\ UNCHANGED <<clientVars, wire, permits, holders, strayed, since, watch, accept, exit>>

\* resetRun, then "(ready)"; if it throws, an "(err ...)" line and the end.
ResetRun(c) ==
  /\ Up /\ srv[c] = "reset"
  /\ \/ /\ Println(outOwner, Line("ready", c, 0))
        /\ srv' = [srv EXCEPT ![c] = "printed"]
     \/ /\ Println(outOwner, Line("err", c, 0))
        /\ srv' = [srv EXCEPT ![c] = "closing"]
  /\ UNCHANGED <<clientVars, toServer, session, since, watch, accept, exit>>

\* Mutant: the clock keeps running while scala-rs has the ball.
AwaitKeepsClock(c) ==
  /\ Up /\ srv[c] \in {"printed", "asking"}
  /\ srv' = [srv EXCEPT ![c] = IF @ = "asking" THEN "ask" ELSE "await"]
  /\ UNCHANGED <<clientVars, wire, session, since, watch, accept, exit>>

\* awaitScalaRs stops the clock, some time after the line went out, and blocks.
AwaitScalaRs(c) ==
  /\ Up /\ srv[c] \in {"printed", "asking"}
  /\ srv' = [srv EXCEPT ![c] = IF @ = "asking" THEN "ask" ELSE "await"]
  /\ since' = 0
  /\ UNCHANGED <<clientVars, wire, session, watch, accept, exit>>

\* awaitScalaRs returns in the session loop and restarts the clock: with a
\* request, or with the end-of-file that ends the session.
ReadRequest(c) ==
  /\ Up /\ srv[c] = "await"
  /\ \/ /\ toServer[inOwner] # <<>>
        /\ toServer' = [toServer EXCEPT ![inOwner] = Tail(@)]
        /\ srv' = [srv EXCEPT ![c] = "handle"]
     \/ /\ toServer[inOwner] = <<>> /\ ~Open(inOwner)
        /\ srv' = [srv EXCEPT ![c] = "closing"]
        /\ UNCHANGED toServer
  /\ since' = 1
  /\ UNCHANGED <<clientVars, toClient, session, watch, accept, exit>>

\* The macro prints: MacroOutput turns each line of System.out and System.err
\* into a "(log ...)" line on the static out.
MacroPrints(c) ==
  /\ Up /\ srv[c] = "handle" /\ Open(outOwner) /\ Len(toClient[outOwner]) < MaxLogs
  /\ Println(outOwner, Line("log", c, reqs[c]))
  /\ UNCHANGED <<clientVars, toServer, srv, session, since, watch, accept, exit>>

\* The macro asks scala-rs a question: the line goes out, the clock still runs.
AskScalaRs(c) ==
  /\ Up /\ srv[c] = "handle"
  /\ Println(outOwner, Line("query", c, reqs[c]))
  /\ srv' = [srv EXCEPT ![c] = "asking"]
  /\ UNCHANGED <<clientVars, toServer, session, since, watch, accept, exit>>

\* Mutant: end-of-file is not an answer, the query keeps waiting for one.
ReadAnswerIgnoresEof(c) ==
  /\ Up /\ srv[c] = "ask" /\ toServer[inOwner] # <<>>
  /\ toServer' = [toServer EXCEPT ![inOwner] = Tail(@)]
  /\ srv' = [srv EXCEPT ![c] = "handle"]
  /\ since' = 1
  /\ UNCHANGED <<clientVars, toClient, session, watch, accept, exit>>

\* awaitScalaRs returns in query: with the answer; or with end-of-file, raised
\* as a Gap that ends the expansion, whose reply goes to a closed socket.
ReadAnswer(c) ==
  /\ Up /\ srv[c] = "ask"
  /\ \/ /\ toServer[inOwner] # <<>>
        /\ toServer' = [toServer EXCEPT ![inOwner] = Tail(@)]
        /\ srv' = [srv EXCEPT ![c] = "handle"]
     \/ /\ toServer[inOwner] = <<>> /\ ~Open(inOwner)
        /\ UNCHANGED toServer
        /\ srv' = [srv EXCEPT ![c] = "printed"]
  /\ since' = 1
  /\ UNCHANGED <<clientVars, toClient, session, watch, accept, exit>>

\* The reply goes out; the loop is on its way back to awaitScalaRs.
Reply(c) ==
  /\ Up /\ srv[c] = "handle"
  /\ Println(outOwner, Line("reply", c, reqs[c]))
  /\ srv' = [srv EXCEPT ![c] = "printed"]
  /\ UNCHANGED <<clientVars, toServer, session, since, watch, accept, exit>>

\* The macro implementation loops: nothing more comes from this thread.
MacroLoops(c) ==
  /\ Up /\ MayLoop /\ srv[c] = "handle"
  /\ srv' = [srv EXCEPT ![c] = "loop"]
  /\ UNCHANGED <<clientVars, wire, session, since, watch, accept, exit>>

\* The finally clause, run by EVERY worker, told busy or not: engineSince is
\* cleared and the connection closed ...
CloseSession(c) ==
  /\ Up /\ srv[c] = "closing"
  /\ since' = 0
  /\ srv' = [srv EXCEPT ![c] = "closed"]
  /\ UNCHANGED <<clientVars, wire, session, watch, accept, exit>>

\* Mutant: the permit is released by a worker that was only told "(busy)".
ReleaseAlways(c) ==
  /\ Up /\ srv[c] = "closed"
  /\ srv' = [srv EXCEPT ![c] = "done"]
  /\ permits' = permits + 1
  /\ holders' = holders \ {c}
  /\ UNCHANGED <<clientVars, wire, streams, since, watch, accept, exit>>

\* Mutant: a session gives the permit back when its loop ends and again in the
\* finally clause.
ReleaseTwice(c) ==
  /\ Up /\ srv[c] = "closed"
  /\ srv' = [srv EXCEPT ![c] = "done"]
  /\ permits' = IF c \in holders THEN permits + 2 ELSE permits
  /\ holders' = holders \ {c}
  /\ UNCHANGED <<clientVars, wire, streams, since, watch, accept, exit>>

\* ... and the permit goes back only if this worker had acquired it.
Release(c) ==
  /\ Up /\ srv[c] = "closed"
  /\ srv' = [srv EXCEPT ![c] = "done"]
  /\ permits' = IF c \in holders THEN permits + 1 ELSE permits
  /\ holders' = holders \ {c}
  /\ UNCHANGED <<clientVars, wire, streams, since, watch, accept, exit>>

-----------------------------------------------------------------------------
(* The watchdog thread, and time.                                          *)

\* It wakes, copies engineSince and finds that the macro has had the ball for
\* too long ...
WatchdogFires ==
  /\ Up /\ watch = "sleep" /\ since = WatchdogLimit
  /\ watch' = "fire"
  /\ UNCHANGED <<clientVars, wire, srv, session, since, accept, exit>>

\* ... and ends the JVM, whatever has happened since it looked.
WatchdogExits ==
  /\ Up /\ watch = "fire"
  /\ exit' = "watchdog"
  /\ UNCHANGED <<clientVars, wire, srv, session, since, watch, accept>>

Older(age, limit) == IF age < limit THEN age + 1 ELSE age

Tick ==
  /\ Up
  /\ since' = IF since = 0 THEN 0 ELSE Older(since, WatchdogLimit)
  /\ idle' = Older(idle, IdleLimit)
  /\ <<since, idle>>' # <<since, idle>>
  /\ UNCHANGED <<clientVars, wire, srv, session, watch, mainPc, unixPc, probes, endpoint, exit>>

-----------------------------------------------------------------------------
ClientStep(c) ==
  \/ SendStart(c) \/ ReadHello(c) \/ ReadReply(c) \/ AnswerQuery(c)
  \/ SendRequest(c) \/ Terminate(c)

ClientChoice(c) == Connect(c) \/ AbandonStart(c) \/ TimeOut(c) \/ Killed(c)

MacroStep(c) == MacroPrints(c) \/ AskScalaRs(c) \/ Reply(c) \/ MacroLoops(c)

WorkerStep(c) ==
  \/ TryAcquire(c) \/ AcquireTimesOut(c) \/ RejectBusy(c) \/ TakeStreams(c) \/ ResetRun(c)
  \/ AwaitScalaRs(c) \/ ReadRequest(c) \/ ReadAnswer(c) \/ CloseSession(c) \/ Release(c)

AcceptorStep(c) ==
  AcceptTcp(c) \/ AcceptUnix(c) \/ ReadStart(c) \/ StartTimesOut(c) \/ AcceptShutdown(c)

LeaveStep == LeaveIdle \/ CloseUnix \/ DropEndpoint \/ ExitIdle

Next ==
  \/ \E c \in Conns : ClientStep(c) \/ ClientChoice(c) \/ MacroStep(c) \/ WorkerStep(c)
                      \/ AcceptorStep(c)
  \/ Probe \/ AcceptProbe \/ LeaveStep
  \/ WatchdogFires \/ WatchdogExits \/ Tick

\* Threads of the daemon are scheduled, time passes, and a compiler does what
\* it has to do next; it may at any moment be killed or give up, but need not,
\* and a macro that is handed a request may compute for ever.
Fairness ==
  /\ \A c \in Conns : WF_vars(ClientStep(c)) /\ WF_vars(WorkerStep(c) \/ MacroStep(c))
  /\ WF_vars(\E c \in Conns : AcceptTcp(c) \/ (stop[c] = "tcp" /\ AcceptShutdown(c)))
  /\ WF_vars(\E c \in Conns : AcceptUnix(c) \/ (stop[c] = "unix" /\ AcceptShutdown(c)))
  /\ WF_vars(\E c \in Conns : ReadStart(c))
  /\ WF_vars(WatchdogFires \/ WatchdogExits) /\ WF_vars(Tick)

Spec == Init /\ [][Next]_vars
FairSpec == Spec /\ Fairness

-----------------------------------------------------------------------------
ClientTypes ==
  /\ client \in [Conns -> {"absent", "gone"} \cup HasPeer]
  /\ kind \in [Conns -> {"unix", "tcp"}]
  /\ reqs \in [Conns -> 0..MaxRequests]
  /\ stop \in [Conns -> {"no", "unix", "tcp"}]

WireTypes ==
  /\ toServer \in [Conns -> Seq(Lines)]
  /\ toClient \in [Conns -> Seq(Lines)]

SessionTypes ==
  /\ srv \in [Conns -> Serving \cup {"none", "backlog", "first", "acquire", "reject", "open",
                                     "reset", "closing", "closed", "done"}]
  /\ permits \in 0..1
  /\ holders \in SUBSET Conns
  /\ inOwner \in Conns \cup {NoConn}
  /\ outOwner \in Conns \cup {NoConn}
  /\ strayed \in SUBSET (Conns \cup {NoConn})

DaemonTypes ==
  /\ since \in 0..WatchdogLimit
  /\ watch \in {"sleep", "fire"}
  /\ mainPc \in {"accept", "reading", "closeUnix", "dropEndpoint", "exit"}
  /\ unixPc \in {"accept", "reading", "closed"}
  /\ idle \in 0..IdleLimit
  /\ probes \in 0..1
  /\ endpoint \in BOOLEAN
  /\ exit \in {"no", "shutdown", "idle", "watchdog"}

TypeOK == ClientTypes /\ WireTypes /\ SessionTypes /\ DaemonTypes

\* One session at a time (runDaemonSession, "the runtime universe and the
\* run's mirror are shared state"): at most one worker has acquired the
\* permit, and the permit is available exactly when none has -- through
\* rejections, killed compilers and sessions whose start-up throws.
SessionExclusion ==
  /\ \A c, d \in holders : c = d
  /\ permits = IF holders = {} THEN 1 ELSE 0

\* While a session resets the runtime and serves requests, the static streams
\* are its own: a rejected or closing worker never redirects them, so no
\* request is read from, and no reply printed to, another compiler's socket.
OwnStreams ==
  \A c \in Conns : srv[c] \in Serving \cup {"reset"} => inOwner = c /\ outOwner = c

\* What is on its way to c is from its own session, and about the request that
\* is outstanding.
OwnLines(c) ==
  \A i \in 1..Len(toClient[c]) :
    /\ toClient[c][i].from = c
    /\ toClient[c][i].kind \in {"query", "reply", "log"} => toClient[c][i].n = reqs[c]

\* Engine and compiler stay in step (query: "the two processes take turns and
\* the pipe stays in step: exactly one line is written and exactly one is
\* read"): a compiler never reads a line that is not its session's, or that
\* answers an earlier request.
StaysInStep == \A c \in Conns : Open(c) => OwnLines(c)

\* Engine and compiler take turns (query, converse_with), whatever the macro
\* prints and whoever hangs up: a line of the compiler and a line of the
\* daemon are never under way together, the daemon's query or reply is the
\* last line it writes before it waits, with only output of the macro before
\* it, and what it writes is about the outstanding request.  It holds of
\* every connection on which no other worker has printed its own error.
TurnTaking ==
  \A c \in Conns : Open(c) /\ c \notin strayed =>
    /\ OwnLines(c)
    /\ Len(toServer[c]) <= 1
    /\ toServer[c] # <<>> => toClient[c] = <<>>
    /\ \A i \in 1..Len(toClient[c]) : i < Len(toClient[c]) => toClient[c][i].kind = "log"

\* The watchdog never condemns a daemon that is blocked in awaitScalaRs: when
\* it fires, no session waits for the compiler.  (A session that has printed
\* its line and not yet entered awaitScalaRs still has its clock running.)
WatchdogSpares ==
  [][watch = "sleep" /\ watch' = "fire" => \A c \in Conns : srv[c] \notin {"await", "ask"}]_vars

\* A daemon that exits for want of work does not take a running session with
\* it: no compiler that was told "(ready)" loses its engine to the idle exit.
IdleExitSparesSessions ==
  exit = "idle" => \A c \in Conns : ~(Open(c) /\ srv[c] \in Serving)

\* A compiler that has sent its start line is answered -- "(ready)", "(busy)",
\* an error or the end of the connection -- whatever other sessions do; it
\* never waits for its turn.
StartAnswered ==
  \A c \in Conns : client[c] = "starting" ~> client[c] # "starting"

\* A session whose compiler is gone gives the permit back, or the daemon ends:
\* no orphan holds "the session, and run, for ever".
OrphanReleased ==
  \A c \in Conns : (client[c] = "gone" /\ c \in holders) ~> (c \notin holders \/ ~Up)

=============================================================================
