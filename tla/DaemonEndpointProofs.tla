------------------------- MODULE DaemonEndpointProofs -------------------------
(***************************************************************************)
(* Proofs about DaemonEndpoint, for any number of compilers and daemons.   *)
(* With the two ways in which two daemons can come about left out (a probe *)
(* that times out on a running daemon, a helper that is killed while its   *)
(* daemon starts), the lock and the endpoint file keep one daemon at most. *)
(***************************************************************************)
EXTENDS DaemonEndpoint, TLAPS

\* The states of a compiler's helper, which has the lock all along.
Helping == {"read", "probe", "spawn", "pollRead", "pollProbe"}

LockHeld == \A c \in Compilers : cpc[c] \in Helping <=> lock = c

\* A helper has a child from the spawn on.
ChildPolled ==
  \A c \in Compilers : child[c] # None <=> cpc[c] \in {"pollRead", "pollProbe"}

\* A daemon that is not published yet is the child of a helper.
StartIsWatched ==
  \A d \in Daemons : dpc[d] \in {"boot", "bound"} => \E c \in Compilers : child[c] = d

\* Until it has dropped it, a daemon has the endpoint file from the time it
\* serves, and from then only.
EndpointKept ==
  /\ \A d \in Daemons : dpc[d] \in {"serving", "closing", "dropping"} => endpoint = d
  /\ \A d \in Daemons : endpoint = d => dpc[d] \notin {"unborn", "boot", "bound"}

\* What a helper may conclude from the file it has read: nobody else writes it
\* meanwhile but a daemon on its way out, and its own child.
FileIsStill ==
  \A c \in Compilers :
    /\ cpc[c] = "probe" => endpoint \in {seen[c], None}
    /\ cpc[c] = "spawn" => endpoint = None
    /\ cpc[c] \in {"pollRead", "pollProbe"} => endpoint \in {child[c], None}
    /\ cpc[c] = "pollProbe" =>
         seen[c] = None \/ (seen[c] = child[c] /\ dpc[child[c]] \notin {"unborn", "boot", "bound"})

\* Until it has dropped it, a daemon with a Unix socket has the socket's path.
SocketKept ==
  \A d \in Daemons : /\ dpc[d] \in {"unborn", "boot"} => d \notin unix
                     /\ d \in unix /\ dpc[d] \in {"bound", "serving", "closing"} => socket = d

EndpointIInv ==
  /\ TypeOK /\ LockHeld /\ ChildPolled /\ StartIsWatched
  /\ EndpointKept /\ FileIsStill /\ SocketKept

-----------------------------------------------------------------------------
\* No compiler has begun.
LEMMA EndpointInit == Init => EndpointIInv
  BY EndpointConstants
     DEF Init, EndpointIInv, TypeOK, LockHeld, ChildPolled, StartIsWatched, EndpointKept,
         FileIsStill, SocketKept, Helping

\* Whatever a compiler or a daemon does, the variables keep their types.
LEMMA EndpointTypeStep == TypeOK /\ [Next]_vars => TypeOK'
<1> SUFFICES ASSUME TypeOK, [Next]_vars PROVE TypeOK'
  OBVIOUS
<1> USE EndpointConstants
<1>1. ASSUME NEW c \in Compilers, Ask(c) PROVE TypeOK'
  BY <1>1 DEF Ask, Go, files, TypeOK
<1>2. ASSUME NEW c \in Compilers, Lock(c) PROVE TypeOK'
  BY <1>2 DEF Lock, Go, files, TypeOK
<1>3. ASSUME NEW c \in Compilers, ReadEndpoint(c) PROVE TypeOK'
  BY <1>3 DEF ReadEndpoint, Go, files, TypeOK
<1>4. ASSUME NEW c \in Compilers, ProbeOk(c) PROVE TypeOK'
  BY <1>4 DEF ProbeOk, Go, Forget, files, TypeOK
<1>5. ASSUME NEW c \in Compilers, ProbeFails(c) PROVE TypeOK'
  BY <1>5 DEF ProbeFails, Go, files, TypeOK
<1>6. ASSUME NEW c \in Compilers, Spawn(c) PROVE TypeOK'
  BY <1>6 DEF Spawn, Go, files, TypeOK
<1>7. ASSUME NEW c \in Compilers, SpawnFails(c) PROVE TypeOK'
  BY <1>7 DEF SpawnFails, Go, Forget, files, TypeOK
<1>8. ASSUME NEW c \in Compilers, PollAgain(c) PROVE TypeOK'
  BY <1>8 DEF PollAgain, Go, files, TypeOK
<1>9. ASSUME NEW c \in Compilers, StartFails(c) PROVE TypeOK'
  <2>1. dpc' \in [Daemons -> {"unborn", "boot", "bound", "serving", "closing", "dropping",
                             "exiting", "dead"}]
    <3>1. CASE child[c] \in Daemons
      BY <1>9, <3>1 DEF StartFails, TypeOK
    <3>2. CASE child[c] \notin Daemons
      BY <1>9, <3>2 DEF StartFails, TypeOK
    <3> QED BY <3>1, <3>2
  <2> QED BY <1>9, <2>1 DEF StartFails, Go, Forget, files, TypeOK
<1>10. ASSUME NEW c \in Compilers, Interrupt(c) PROVE TypeOK'
  BY <1>10 DEF Interrupt, Go, Forget, files, TypeOK
<1>11. ASSUME NEW c \in Compilers, Open(c) PROVE TypeOK'
  BY <1>11 DEF Open, Go, files, TypeOK
<1>12. ASSUME NEW c \in Compilers, OpenSession(c) PROVE TypeOK'
  BY <1>12 DEF OpenSession, Go, files, TypeOK
<1>13. ASSUME NEW c \in Compilers, Reconnect(c) PROVE TypeOK'
  BY <1>13 DEF Reconnect, Go, Forget, files, TypeOK
<1>14. ASSUME NEW c \in Compilers, Rejected(c) PROVE TypeOK'
  BY <1>14 DEF Rejected, Go, Forget, files, TypeOK
<1>15. ASSUME NEW c \in Compilers, Close(c) PROVE TypeOK'
  BY <1>15 DEF Close, Go, Forget, files, TypeOK
<1>16. ASSUME NEW c \in Compilers, Stop(c) PROVE TypeOK'
  BY <1>16 DEF Stop, Go, Forget, files, TypeOK
<1>17. ASSUME NEW d \in Daemons, Bind(d) PROVE TypeOK'
  BY <1>17 DEF Bind, Step, compilers, files, TypeOK
<1>18. ASSUME NEW d \in Daemons, Publish(d) PROVE TypeOK'
  BY <1>18 DEF Publish, Step, compilers, files, TypeOK
<1>19. ASSUME NEW d \in Daemons, LeaveIdle(d) PROVE TypeOK'
  BY <1>19 DEF LeaveIdle, Step, compilers, files, TypeOK
<1>20. ASSUME NEW d \in Daemons, DropSocket(d) PROVE TypeOK'
  BY <1>20 DEF DropSocket, Step, compilers, files, TypeOK
<1>21. ASSUME NEW d \in Daemons, DropEndpoint(d) PROVE TypeOK'
  BY <1>21 DEF DropEndpoint, Step, compilers, files, TypeOK
<1>22. ASSUME NEW d \in Daemons, Exit(d) PROVE TypeOK'
  BY <1>22 DEF Exit, compilers, files, TypeOK
<1>23. CASE UNCHANGED vars
  BY <1>23 DEF vars, compilers, files, TypeOK
<1> QED
  BY <1>1, <1>2, <1>3, <1>4, <1>5, <1>6, <1>7, <1>8, <1>9, <1>10, <1>11, <1>12, <1>13, <1>14,
      <1>15, <1>16, <1>17, <1>18, <1>19, <1>20, <1>21, <1>22, <1>23 DEF Next, Compiler, Daemon

-----------------------------------------------------------------------------
\* While a daemon has the endpoint file, nobody starts one.
LEMMA OneAtATime ==
  ASSUME EndpointIInv, NEW d \in Daemons, NEW e \in Daemons,
         dpc[d] \in {"boot", "bound"}, dpc[e] \in {"serving", "closing", "dropping"}
  PROVE  FALSE
<1>1. PICK c \in Compilers : child[c] = d
  BY DEF EndpointIInv, StartIsWatched
<1>2. endpoint \in {d, None}
  BY <1>1, EndpointConstants DEF EndpointIInv, ChildPolled, FileIsStill
<1>3. endpoint = e
  BY DEF EndpointIInv, EndpointKept
<1> QED
  BY <1>2, <1>3, EndpointConstants

\* A helper alone starts daemons, one at a time.
LEMMA OneStarts ==
  ASSUME EndpointIInv, NEW d \in Daemons, NEW e \in Daemons,
         dpc[d] \in {"boot", "bound"}, dpc[e] \in {"boot", "bound"}
  PROVE  d = e
<1>1. PICK c \in Compilers : child[c] = d
  BY DEF EndpointIInv, StartIsWatched
<1>2. PICK k \in Compilers : child[k] = e
  BY DEF EndpointIInv, StartIsWatched
<1>3. lock = c /\ lock = k
  BY <1>1, <1>2, EndpointConstants DEF EndpointIInv, ChildPolled, LockHeld, Helping
<1> QED
  BY <1>1, <1>2, <1>3

\* Each step keeps the parts of the invariant.
LEMMA EndpointStep ==
  ~ProbeTimesOut /\ ~KilledStarting /\ EndpointIInv /\ [Next]_vars => EndpointIInv'
<1> SUFFICES ASSUME ~ProbeTimesOut, ~KilledStarting, EndpointIInv, [Next]_vars
             PROVE  EndpointIInv'
  OBVIOUS
<1> USE EndpointConstants DEF EndpointIInv
<1>0. TypeOK'
  BY EndpointTypeStep
<1>1. ASSUME NEW c \in Compilers, Ask(c) PROVE EndpointIInv'
  BY <1>1, <1>0 DEF Ask, Go, files, TypeOK, LockHeld, ChildPolled, StartIsWatched,
      EndpointKept, FileIsStill, SocketKept, Helping
<1>2. ASSUME NEW c \in Compilers, Lock(c) PROVE EndpointIInv'
  BY <1>2, <1>0 DEF Lock, Go, files, TypeOK, LockHeld, ChildPolled, StartIsWatched,
      EndpointKept, FileIsStill, SocketKept, Helping
<1>3. ASSUME NEW c \in Compilers, ReadEndpoint(c) PROVE EndpointIInv'
  BY <1>3, <1>0 DEF ReadEndpoint, Go, files, TypeOK, LockHeld, ChildPolled, StartIsWatched,
      EndpointKept, FileIsStill, SocketKept, Helping
<1>4. ASSUME NEW c \in Compilers, ProbeOk(c) PROVE EndpointIInv'
  <2>1. seen[c] \in Daemons
    BY <1>4 DEF ProbeOk, Listening
  <2>2. \A d \in Daemons : child[c] = d => dpc[d] \notin {"boot", "bound"}
    BY <1>4, <2>1 DEF ProbeOk, ChildPolled, FileIsStill
  <2> QED BY <1>4, <1>0, <2>2 DEF ProbeOk, Go, Forget, files, TypeOK, LockHeld, ChildPolled,
      StartIsWatched, EndpointKept, FileIsStill, SocketKept, Helping
<1>5. ASSUME NEW c \in Compilers, ProbeFails(c) PROVE EndpointIInv'
  <2>1. \A d \in Daemons : dpc[d] \notin {"serving", "closing", "dropping"}
    BY <1>5 DEF ProbeFails, Listening, EndpointKept, FileIsStill
  <2> QED BY <1>5, <1>0, <2>1 DEF ProbeFails, Go, files, TypeOK, LockHeld, ChildPolled,
      StartIsWatched, EndpointKept, FileIsStill, SocketKept, Helping
<1>6. ASSUME NEW c \in Compilers, Spawn(c) PROVE EndpointIInv'
  <2>1. PICK d \in Daemons : /\ dpc[d] = "unborn" /\ dpc' = [dpc EXCEPT ![d] = "boot"]
                              /\ child' = [child EXCEPT ![c] = d]
    BY <1>6 DEF Spawn
  <2>2. endpoint = None /\ child[c] = None
    BY <1>6 DEF Spawn, FileIsStill, ChildPolled
  <2> QED BY <1>6, <1>0, <2>1, <2>2 DEF Spawn, Go, files, TypeOK, LockHeld, ChildPolled,
      StartIsWatched, EndpointKept, FileIsStill, SocketKept, Helping
<1>7. ASSUME NEW c \in Compilers, SpawnFails(c) PROVE EndpointIInv'
  BY <1>7, <1>0 DEF SpawnFails, Go, Forget, files, TypeOK, LockHeld, ChildPolled,
      StartIsWatched, EndpointKept, FileIsStill, SocketKept, Helping
<1>8. ASSUME NEW c \in Compilers, PollAgain(c) PROVE EndpointIInv'
  BY <1>8, <1>0 DEF PollAgain, Go, files, TypeOK, LockHeld, ChildPolled, StartIsWatched,
      EndpointKept, FileIsStill, SocketKept, Helping
<1>9. ASSUME NEW c \in Compilers, StartFails(c) PROVE EndpointIInv'
  BY <1>9, <1>0 DEF StartFails, Go, Forget, files, TypeOK, LockHeld, ChildPolled,
      StartIsWatched, EndpointKept, FileIsStill, SocketKept, Helping
<1>10. ASSUME NEW c \in Compilers, Interrupt(c) PROVE EndpointIInv'
  BY <1>10, <1>0 DEF Interrupt, Go, Forget, files, TypeOK, LockHeld, ChildPolled,
      StartIsWatched, EndpointKept, FileIsStill, SocketKept, Helping
<1>11. ASSUME NEW c \in Compilers, Open(c) PROVE EndpointIInv'
  BY <1>11, <1>0 DEF Open, Go, files, TypeOK, LockHeld, ChildPolled, StartIsWatched,
      EndpointKept, FileIsStill, SocketKept, Helping
<1>12. ASSUME NEW c \in Compilers, OpenSession(c) PROVE EndpointIInv'
  BY <1>12, <1>0 DEF OpenSession, Go, files, TypeOK, LockHeld, ChildPolled, StartIsWatched,
      EndpointKept, FileIsStill, SocketKept, Helping
<1>13. ASSUME NEW c \in Compilers, Reconnect(c) PROVE EndpointIInv'
  BY <1>13, <1>0 DEF Reconnect, Go, Forget, files, TypeOK, LockHeld, ChildPolled,
      StartIsWatched, EndpointKept, FileIsStill, SocketKept, Helping
<1>14. ASSUME NEW c \in Compilers, Rejected(c) PROVE EndpointIInv'
  BY <1>14, <1>0 DEF Rejected, Go, Forget, files, TypeOK, LockHeld, ChildPolled,
      StartIsWatched, EndpointKept, FileIsStill, SocketKept, Helping
<1>15. ASSUME NEW c \in Compilers, Close(c) PROVE EndpointIInv'
  BY <1>15, <1>0 DEF Close, Go, Forget, files, TypeOK, LockHeld, ChildPolled, StartIsWatched,
      EndpointKept, FileIsStill, SocketKept, Helping
<1>16. ASSUME NEW c \in Compilers, Stop(c) PROVE EndpointIInv'
  BY <1>16, <1>0 DEF Stop, Go, Forget, files, TypeOK, LockHeld, ChildPolled, StartIsWatched,
      EndpointKept, FileIsStill, SocketKept, Helping
<1>17. ASSUME NEW d \in Daemons, Bind(d) PROVE EndpointIInv'
  <2>1. \A e \in Daemons \ {d} : dpc[e] \notin {"boot", "bound", "serving", "closing"}
    BY <1>17, OneStarts, OneAtATime DEF Bind, Step
  <2> QED BY <1>17, <1>0, <2>1 DEF Bind, Step, compilers, files, TypeOK, LockHeld, ChildPolled,
      StartIsWatched, EndpointKept, FileIsStill, SocketKept, Helping
<1>18. ASSUME NEW d \in Daemons, Publish(d) PROVE EndpointIInv'
  <2>1. \A e \in Daemons : dpc[e] \notin {"serving", "closing", "dropping"}
    BY <1>18, OneAtATime DEF Publish, Step
  <2>2. PICK c \in Compilers : child[c] = d /\ lock = c
    BY <1>18 DEF Publish, Step, StartIsWatched, ChildPolled, LockHeld, Helping
  <2> QED BY <1>18, <1>0, <2>1, <2>2 DEF Publish, Step, compilers, files, TypeOK, LockHeld,
      ChildPolled, StartIsWatched, EndpointKept, FileIsStill, SocketKept, Helping
<1>19. ASSUME NEW d \in Daemons, LeaveIdle(d) PROVE EndpointIInv'
  BY <1>19, <1>0 DEF LeaveIdle, Step, compilers, files, TypeOK, LockHeld, ChildPolled,
      StartIsWatched, EndpointKept, FileIsStill, SocketKept, Helping
<1>20. ASSUME NEW d \in Daemons, DropSocket(d) PROVE EndpointIInv'
  <2>1. \A e \in Daemons \ {d} : dpc[e] \notin {"bound", "serving", "closing"}
    BY <1>20, OneAtATime DEF DropSocket, Step, EndpointKept
  <2> QED BY <1>20, <1>0, <2>1 DEF DropSocket, Step, compilers, files, TypeOK, LockHeld,
      ChildPolled, StartIsWatched, EndpointKept, FileIsStill, SocketKept, Helping
<1>21. ASSUME NEW d \in Daemons, DropEndpoint(d) PROVE EndpointIInv'
  <2>1. \A e \in Daemons \ {d} : dpc[e] \notin {"serving", "closing", "dropping"}
    BY <1>21 DEF DropEndpoint, Step, EndpointKept
  <2> QED BY <1>21, <1>0, <2>1 DEF DropEndpoint, Step, compilers, files, TypeOK, LockHeld,
      ChildPolled, StartIsWatched, EndpointKept, FileIsStill, SocketKept, Helping
<1>22. ASSUME NEW d \in Daemons, Exit(d) PROVE EndpointIInv'
  BY <1>22, <1>0 DEF Exit, compilers, files, TypeOK, LockHeld, ChildPolled, StartIsWatched,
      EndpointKept, FileIsStill, SocketKept, Helping
<1>23. CASE UNCHANGED vars
  BY <1>23 DEF vars, compilers, files, TypeOK, LockHeld, ChildPolled, StartIsWatched,
      EndpointKept, FileIsStill, SocketKept, Helping
<1> QED
  BY <1>1, <1>2, <1>3, <1>4, <1>5, <1>6, <1>7, <1>8, <1>9, <1>10, <1>11, <1>12, <1>13, <1>14,
      <1>15, <1>16, <1>17, <1>18, <1>19, <1>20, <1>21, <1>22, <1>23 DEF Next, Compiler, Daemon

-----------------------------------------------------------------------------
(* The theorems.                                                           *)

\* Every variable keeps its type, and no start-up is polled past its deadline
\* (macro_daemon_endpoint), whatever times out or is killed.
THEOREM EndpointTypes == Spec => []TypeOK
<1>1. Init => TypeOK
  BY EndpointInit DEF EndpointIInv
<1> QED
  BY <1>1, EndpointTypeStep, PTL DEF Spec

\* The lock, the endpoint file and the socket's path are where the helpers and
\* the daemons take them to be.
THEOREM EndpointInvariant ==
  ASSUME ~ProbeTimesOut, ~KilledStarting
  PROVE  Spec => []EndpointIInv
<1>1. EndpointIInv /\ [Next]_vars => EndpointIInv'
  BY EndpointStep
<1> QED
  BY <1>1, EndpointInit, PTL DEF Spec

\* One daemon at most is starting or serving, however many compilers look for
\* one at the same time, unless a probe times out on a running daemon or a
\* helper is killed while it waits for its own (macro_daemon_endpoint).
THEOREM OneDaemonAtATime ==
  ASSUME ~ProbeTimesOut, ~KilledStarting
  PROVE  Spec => []OneDaemon
<1>1. EndpointIInv => OneDaemon
  <2> SUFFICES ASSUME EndpointIInv, NEW d \in Daemons, NEW e \in Daemons,
                      {dpc[d], dpc[e]} \subseteq {"boot", "bound", "serving"}
               PROVE  d = e
    BY DEF OneDaemon
  <2>1. CASE dpc[d] = "serving" /\ dpc[e] = "serving"
    BY <2>1 DEF EndpointIInv, EndpointKept
  <2>2. CASE dpc[d] # "serving" /\ dpc[e] # "serving"
    BY <2>2, OneStarts
  <2>3. CASE dpc[d] # "serving" /\ dpc[e] = "serving"
    BY <2>3, OneAtATime
  <2>4. CASE dpc[d] = "serving" /\ dpc[e] # "serving"
    BY <2>4, OneAtATime
  <2> QED BY <2>1, <2>2, <2>3, <2>4
<1> QED
  BY <1>1, EndpointInvariant, PTL

\* A daemon on its way out deletes its own socket and endpoint file, never those
\* of a successor at the same paths (runDaemon).
THEOREM LeavesSuccessor ==
  ASSUME ~ProbeTimesOut, ~KilledStarting
  PROVE  Spec => SuccessorSpared
<1>1. EndpointIInv /\ [Next]_vars =>
        [\A d \in Daemons :
           /\ (DropSocket(d) /\ d \in unix) => (socket \in {d, None})
           /\ DropEndpoint(d) => (endpoint \in {d, None})]_vars
  BY DEF EndpointIInv, EndpointKept, SocketKept, DropSocket, DropEndpoint, Step
<1> QED
  BY <1>1, EndpointInvariant, PTL DEF Spec, SuccessorSpared

\* A poisoned session stops the daemon it runs in: while that one serves, nobody
\* else is at its socket's path (DaemonStop::shutdown).
THEOREM StopReachesIt ==
  ASSUME ~ProbeTimesOut, ~KilledStarting
  PROVE  Spec => StopReaches
<1>1. EndpointIInv /\ [Next]_vars =>
        [\A c \in Compilers : Stop(c) /\ Serving(seen[c]) => dpc'[seen[c]] = "dead"]_vars
  <2> SUFFICES ASSUME EndpointIInv, NEW c \in Compilers, Stop(c), Serving(seen[c])
               PROVE  dpc'[seen[c]] = "dead"
    OBVIOUS
  <2>1. seen[c] \in Daemons /\ dpc[seen[c]] = "serving"
    BY DEF Serving
  <2>2. Peer(c) = seen[c]
    BY <2>1 DEF Peer, EndpointIInv, SocketKept
  <2> QED BY <2>1, <2>2 DEF Stop
<1> QED
  BY <1>1, EndpointInvariant, PTL DEF Spec, StopReaches
=============================================================================
