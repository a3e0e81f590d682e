--------------------------- MODULE DaemonEndpoint ----------------------------
(***************************************************************************)
(* How compilers find the shared macro daemon, and start one when there is *)
(* none (cli/src/main.rs, macro_daemon_endpoint; typer/src/expand.rs,      *)
(* direct_daemon_endpoint and DaemonStop), and what a daemon does to the   *)
(* two files it is found by: the endpoint file and its Unix socket.  Both  *)
(* paths depend on the runtime only, so a daemon and its successor share   *)
(* them.  What happens inside a session is in MacroDaemon.                 *)
(*                                                                         *)
(* A daemon stands for its process, its port and its random token; a file  *)
(* for the daemon that wrote it.                                           *)
(***************************************************************************)
EXTENDS Naturals, FiniteSets

CONSTANTS
  Compilers,
  MaxDaemons,    \* bound: daemons that are ever started
  None,
  MaxPolls,      \* bound: how often a start-up of 10 s is polled
  MaxRounds,     \* bound: sessions a compiler asks for
  ProbeTimesOut, \* the 100 ms of live() may be too short for a running daemon
  KilledStarting \* __macro_endpoint may be killed while its daemon starts

Daemons == 1..MaxDaemons

ASSUME EndpointConstants ==
  /\ MaxDaemons \in Nat /\ None \notin Compilers \cup Daemons
  /\ MaxPolls \in Nat /\ MaxRounds \in Nat
  /\ ProbeTimesOut \in BOOLEAN /\ KilledStarting \in BOOLEAN

VARIABLES
  cpc,       \* each compiler, its __macro_endpoint helper included
  rounds,    \* sessions it has asked for
  cached,    \* it knows the endpoint's path (ENDPOINTS), and needs no helper
  refresh,   \* it is at its second try
  seen,      \* the daemon it last read from the endpoint file
  child,     \* the daemon its helper has spawned
  polls,
  lock,      \* holder of the flock
  dpc,       \* each daemon
  unix,      \* the daemons that could bind a Unix socket
  endpoint,  \* whose endpoint file there is
  socket     \* whose Unix socket file there is

compilers == <<cpc, rounds, cached, refresh, seen, child, polls, lock>>
files     == <<endpoint, socket>>
vars      == <<compilers, dpc, unix, files>>

Init ==
  /\ cpc = [c \in Compilers |-> "idle"] /\ rounds = [c \in Compilers |-> 0]
  /\ cached = {} /\ refresh = {}
  /\ seen = [c \in Compilers |-> None] /\ child = [c \in Compilers |-> None]
  /\ polls = [c \in Compilers |-> 0] /\ lock = None
  /\ dpc = [d \in Daemons |-> "unborn"] /\ unix = {}
  /\ endpoint = None /\ socket = None

\* Mutant: the listener closes before the files are deleted.
ListensWhileServing(d) == d \in Daemons /\ dpc[d] \in {"bound", "serving"}

\* The accept loop closes the TCP listener last (try-with-resources).
Listening(d) ==
  d \in Daemons /\ dpc[d] \in {"bound", "serving", "closing", "dropping", "exiting"}
Serving(d)   == d \in Daemons /\ dpc[d] = "serving"
UnixUp(d)    == d \in Daemons /\ d \in unix /\ dpc[d] \in {"bound", "serving"}

Go(c, where) == cpc' = [cpc EXCEPT ![c] = where]

\* The helper's and the start-up's locals are gone.
Forget(c) == /\ seen' = [seen EXCEPT ![c] = None] /\ child' = [child EXCEPT ![c] = None]
             /\ polls' = [polls EXCEPT ![c] = 0]

-----------------------------------------------------------------------------
(* A compiler that wants a session.                                        *)

Ask(c) ==
  /\ cpc[c] = "idle" /\ rounds[c] < MaxRounds
  /\ rounds' = [rounds EXCEPT ![c] = @ + 1]
  /\ refresh' = refresh \ {c}
  /\ Go(c, IF c \in cached THEN "open" ELSE "lock")
  /\ UNCHANGED <<cached, seen, child, polls, lock, dpc, unix, files>>

\* Mutant: the lock is not exclusive.
LockShared(c) ==
  /\ cpc[c] = "lock"
  /\ lock' = c /\ Go(c, "read")
  /\ UNCHANGED <<rounds, cached, refresh, seen, child, polls, dpc, unix, files>>

\* The helper takes the lock for as long as it lives.
Lock(c) ==
  /\ cpc[c] = "lock" /\ lock = None
  /\ lock' = c /\ Go(c, "read")
  /\ UNCHANGED <<rounds, cached, refresh, seen, child, polls, dpc, unix, files>>

\* live: read the endpoint file, connect to the port it names.
ReadEndpoint(c) ==
  /\ cpc[c] \in {"read", "pollRead"}
  /\ seen' = [seen EXCEPT ![c] = endpoint]
  /\ Go(c, IF cpc[c] = "read" THEN "probe" ELSE "pollProbe")
  /\ UNCHANGED <<rounds, cached, refresh, child, polls, lock, dpc, unix, files>>

ProbeOk(c) ==
  /\ cpc[c] \in {"probe", "pollProbe"} /\ Listening(seen[c])
  /\ Go(c, "open") /\ Forget(c) /\ lock' = None /\ cached' = cached \cup {c}
  /\ UNCHANGED <<rounds, refresh, dpc, unix, files>>

\* No daemon there: the stale endpoint goes and a daemon is spawned.
ProbeFails(c) ==
  /\ cpc[c] = "probe" /\ (Listening(seen[c]) => ProbeTimesOut)
  /\ Go(c, "spawn") /\ endpoint' = None
  /\ UNCHANGED <<rounds, cached, refresh, seen, child, polls, lock, dpc, unix, socket>>

Spawn(c) ==
  /\ cpc[c] = "spawn"
  /\ \E d \in Daemons :
       /\ dpc[d] = "unborn" /\ \A e \in 1..(d - 1) : dpc[e] # "unborn"
       /\ dpc' = [dpc EXCEPT ![d] = "boot"] /\ child' = [child EXCEPT ![c] = d]
  /\ Go(c, "pollRead")
  /\ UNCHANGED <<rounds, cached, refresh, seen, polls, lock, unix, files>>

SpawnFails(c) ==
  /\ cpc[c] = "spawn"
  /\ Go(c, "idle") /\ Forget(c) /\ lock' = None
  /\ UNCHANGED <<rounds, cached, refresh, dpc, unix, files>>

\* Mutant: the start-up has no deadline.
PollForEver(c) ==
  /\ cpc[c] = "pollProbe" /\ (Listening(seen[c]) => ProbeTimesOut)
  /\ dpc[child[c]] # "dead"
  /\ Go(c, "pollRead")
  /\ UNCHANGED <<rounds, cached, refresh, seen, child, polls, lock, dpc, unix, files>>

\* Mutant: the deadline is looked at one poll late.
PollOnceMore(c) ==
  /\ cpc[c] = "pollProbe" /\ (Listening(seen[c]) => ProbeTimesOut)
  /\ dpc[child[c]] # "dead" /\ polls[c] <= MaxPolls
  /\ polls' = [polls EXCEPT ![c] = @ + 1]
  /\ Go(c, "pollRead")
  /\ UNCHANGED <<rounds, cached, refresh, seen, child, lock, dpc, unix, files>>

\* The daemon is not there yet: look again in a moment, until the deadline.
PollAgain(c) ==
  /\ cpc[c] = "pollProbe" /\ (Listening(seen[c]) => ProbeTimesOut)
  /\ dpc[child[c]] # "dead" /\ polls[c] < MaxPolls
  /\ polls' = [polls EXCEPT ![c] = @ + 1]
  /\ Go(c, "pollRead")
  /\ UNCHANGED <<rounds, cached, refresh, seen, child, lock, dpc, unix, files>>

\* The child exited (try_wait), or the deadline passed and it is killed.
StartFails(c) ==
  /\ cpc[c] = "pollProbe" /\ (Listening(seen[c]) => ProbeTimesOut)
  /\ dpc[child[c]] = "dead" \/ polls[c] = MaxPolls
  /\ dpc' = [dpc EXCEPT ![child[c]] = "dead"]
  /\ Go(c, "idle") /\ Forget(c) /\ lock' = None
  /\ UNCHANGED <<rounds, cached, refresh, unix, files>>

\* The user interrupts the build; a daemon it has spawned is in a process group of its own.
Interrupt(c) ==
  /\ lock = c /\ (child[c] # None => KilledStarting)
  /\ Go(c, "idle") /\ Forget(c) /\ lock' = None /\ cached' = cached \ {c}
  /\ UNCHANGED <<rounds, refresh, dpc, unix, files>>

-----------------------------------------------------------------------------
(* Opening the session: start_direct_daemon_engine.                        *)

Open(c) ==
  /\ cpc[c] = "open"
  /\ seen' = [seen EXCEPT ![c] = endpoint] /\ Go(c, "connect")
  /\ UNCHANGED <<rounds, cached, refresh, child, polls, lock, dpc, unix, files>>

\* Whoever listens at the socket path is asked first, then the port.
Peer(c) == IF seen[c] \in unix /\ UnixUp(socket) THEN socket ELSE seen[c]

\* A daemon accepts only its own token.
OpenSession(c) ==
  /\ cpc[c] = "connect" /\ Peer(c) = seen[c] /\ Serving(seen[c])
  /\ Go(c, "session")
  /\ UNCHANGED <<rounds, cached, refresh, seen, child, polls, lock, dpc, unix, files>>

\* Nobody listens: try once more with a helper.
Reconnect(c) ==
  /\ cpc[c] = "connect" /\ ~Listening(Peer(c))
  /\ IF c \in refresh THEN Go(c, "idle") /\ UNCHANGED refresh
     ELSE Go(c, "lock") /\ refresh' = refresh \cup {c}
  /\ Forget(c)
  /\ UNCHANGED <<rounds, cached, lock, dpc, unix, files>>

\* The daemon is busy, leaving, or another one: an engine of its own.
Rejected(c) ==
  /\ cpc[c] = "connect" /\ Listening(Peer(c))
  /\ Go(c, "idle") /\ Forget(c)
  /\ UNCHANGED <<rounds, cached, refresh, lock, dpc, unix, files>>

\* The session ends, or its daemon is gone.
Close(c) ==
  /\ cpc[c] = "session"
  /\ Go(c, "idle") /\ Forget(c)
  /\ UNCHANGED <<rounds, cached, refresh, lock, dpc, unix, files>>

\* DaemonStop::shutdown of a poisoned session; a foreign token is ignored.
Stop(c) ==
  /\ cpc[c] = "session"
  /\ dpc' = [d \in Daemons |-> IF d = seen[c] /\ d = Peer(c) /\ dpc[d] # "unborn"
                               THEN "dead" ELSE dpc[d]]
  /\ Go(c, "idle") /\ Forget(c)
  /\ UNCHANGED <<rounds, cached, refresh, lock, unix, files>>

-----------------------------------------------------------------------------
(* The daemon: runDaemon.                                                  *)

Step(d, from, to) == dpc[d] = from /\ dpc' = [dpc EXCEPT ![d] = to]

\* TCP, then the Unix socket where there is one: a file in the way is deleted.
Bind(d) ==
  /\ Step(d, "boot", "bound")
  /\ \/ unix' = unix \cup {d} /\ socket' = d
     \/ UNCHANGED <<unix, socket>>
  /\ UNCHANGED <<compilers, endpoint>>

Publish(d) ==
  /\ Step(d, "bound", "serving")
  /\ endpoint' = d
  /\ UNCHANGED <<compilers, unix, socket>>

\* Idle: the Unix listener closes and its file goes, then the endpoint file,
\* then the process.
LeaveIdle(d) ==
  /\ Step(d, "serving", "closing")
  /\ \A c \in Compilers : ~(cpc[c] = "session" /\ seen[c] = d)
  /\ UNCHANGED <<compilers, unix, files>>

DropSocket(d) ==
  /\ Step(d, "closing", "dropping")
  /\ socket' = (IF d \in unix THEN None ELSE socket)
  /\ UNCHANGED <<compilers, unix, endpoint>>

DropEndpoint(d) ==
  /\ Step(d, "dropping", "exiting")
  /\ endpoint' = None
  /\ UNCHANGED <<compilers, unix, socket>>

\* The process ends at the end of main, or by the watchdog, or is killed; it
\* leaves the files as they are.
Exit(d) ==
  /\ dpc[d] \notin {"unborn", "dead"}
  /\ dpc' = [dpc EXCEPT ![d] = "dead"]
  /\ UNCHANGED <<compilers, unix, files>>

-----------------------------------------------------------------------------
Compiler(c) ==
  \/ Lock(c) \/ ReadEndpoint(c) \/ ProbeOk(c) \/ ProbeFails(c) \/ Spawn(c) \/ SpawnFails(c)
  \/ PollAgain(c)
  \/ StartFails(c) \/ Open(c) \/ OpenSession(c) \/ Reconnect(c) \/ Rejected(c) \/ Close(c)
  \/ Stop(c)
Daemon(d) == Bind(d) \/ Publish(d) \/ LeaveIdle(d) \/ DropSocket(d) \/ DropEndpoint(d) \/ Exit(d)

Next ==
  \/ \E c \in Compilers : Ask(c) \/ Compiler(c) \/ Interrupt(c)
  \/ \E d \in Daemons : Daemon(d)

Spec == Init /\ [][Next]_vars
\* The helpers and the compilers run on; a daemon may take any time.
FairSpec == Spec /\ \A c \in Compilers : WF_vars(Compiler(c))

-----------------------------------------------------------------------------
(* Properties.                                                             *)

\* Every variable has its type, and no start-up is polled past its deadline.
TypeOK ==
  /\ cpc \in [Compilers -> {"idle", "lock", "read", "probe", "spawn", "pollRead", "pollProbe",
                            "open", "connect", "session"}]
  /\ rounds \in [Compilers -> 0..MaxRounds] /\ polls \in [Compilers -> 0..MaxPolls]
  /\ cached \subseteq Compilers /\ refresh \subseteq Compilers
  /\ seen \in [Compilers -> Daemons \cup {None}] /\ child \in [Compilers -> Daemons \cup {None}]
  /\ lock \in Compilers \cup {None}
  /\ dpc \in [Daemons -> {"unborn", "boot", "bound", "serving", "closing", "dropping", "exiting",
                          "dead"}]
  /\ unix \subseteq Daemons
  /\ endpoint \in Daemons \cup {None} /\ socket \in Daemons \cup {None}

\* "One engine JVM per user, runtime jars, working directory and java, which
\* every compiler on the machine shares" (docs/usage.md): of the daemons that
\* are starting or serving there is one at most.
OneDaemon == \A d, e \in Daemons : {dpc[d], dpc[e]} \subseteq {"boot", "bound", "serving"} => d = e

\* A daemon on its way out deletes its own files and never a successor's,
\* although both use the same paths (runDaemon).
SuccessorSpared ==
  [][\A d \in Daemons :
       /\ (DropSocket(d) /\ d \in unix) => (socket \in {d, None})
       /\ DropEndpoint(d) => (endpoint \in {d, None})]_vars

\* A poisoned session stops the daemon it runs in, although it reaches it by
\* a path that another daemon may have taken over (DaemonStop::shutdown).
StopReaches ==
  [][\A c \in Compilers : Stop(c) /\ Serving(seen[c]) => dpc'[seen[c]] = "dead"]_vars

\* A compiler that asks gets a session or learns that it will not, whatever
\* becomes of the daemons and of the other compilers.
AskEnds == \A c \in Compilers : (cpc[c] = "lock") ~> (cpc[c] \in {"session", "idle"})
=============================================================================
