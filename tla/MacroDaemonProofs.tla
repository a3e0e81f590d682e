------------------------- MODULE MacroDaemonProofs -------------------------
(***************************************************************************)
(* For every set of compilers and every bound: the daemon runs one session *)
(* at a time, the static streams belong to it, the watchdog never fires    *)
(* while it is blocked in awaitScalaRs, and the two ends of a connection   *)
(* take turns unless another worker has printed its error on it.           *)
(*                                                                         *)
(* Exclusion is not inductive alone.  A worker's position and its local    *)
(* `acquired' must agree (HolderPlace), so that the worker that takes the  *)
(* permit is the only one past it; OwnStreams then follows because the     *)
(* streams are set only between acquire and release.  TurnTaking follows   *)
(* from where the two ends are: together they say what is under way        *)
(* (Turns).                                                                *)
(***************************************************************************)
EXTENDS MacroDaemon, SequenceTheorems, TLAPS

\* The places of runDaemonSession between the acquire and the release.
Inside == Serving \cup {"open", "reset"}

\* `acquired' agrees with the place: inside, the worker has acquired; and a
\* worker that has acquired is inside or in its finally clause.
HolderPlace ==
  \A c \in Conns : /\ srv[c] \in Inside => c \in holders
                   /\ c \in holders => srv[c] \in Inside \cup {"closing", "closed"}

\* The inductive invariant.
IInv == TypeOK /\ HolderPlace /\ SessionExclusion /\ OwnStreams

USE DaemonConstants

-----------------------------------------------------------------------------
\* A line of a known kind, written for a known connection, is well-typed.
LEMMA LineType ==
  ASSUME NEW k \in {"ready", "busy", "query", "reply", "log", "err", "start", "expand", "answer"},
         NEW c \in Conns, NEW n \in 0..MaxRequests
  PROVE  Line(k, c, n) \in Lines
BY DEF Line, Lines

\* Writing a line keeps a wire well-typed.
LEMMA WireAppend ==
  ASSUME NEW w \in [Conns -> Seq(Lines)], NEW d \in Conns, NEW l \in Lines
  PROVE  [w EXCEPT ![d] = Append(@, l)] \in [Conns -> Seq(Lines)]
OBVIOUS

\* Taking the first line off a sequence of lines leaves one.
LEMMA TailType ==
  ASSUME NEW s \in Seq(Lines), s # <<>>
  PROVE  Tail(s) \in Seq(Lines)
OBVIOUS

\* Reading a line that is there keeps the wires well-typed: the compiler's end ...
LEMMA ClientReads ==
  ASSUME WireTypes, NEW c \in Conns, toClient[c] # <<>>,
         toClient' = [toClient EXCEPT ![c] = Tail(@)], UNCHANGED toServer
  PROVE  WireTypes'
<1>1. Tail(toClient[c]) \in Seq(Lines)
  BY TailType DEF WireTypes
<1> DEFINE t == Tail(toClient[c])
<1>2. t \in Seq(Lines) /\ toClient' = [toClient EXCEPT ![c] = t]
  BY <1>1
<1> HIDE DEF t
<1> QED
  BY <1>2 DEF WireTypes

\* ... and the daemon's.
LEMMA DaemonReads ==
  ASSUME WireTypes, NEW c \in Conns, toServer[c] # <<>>,
         toServer' = [toServer EXCEPT ![c] = Tail(@)], UNCHANGED toClient
  PROVE  WireTypes'
<1>1. Tail(toServer[c]) \in Seq(Lines)
  BY TailType DEF WireTypes
<1> DEFINE t == Tail(toServer[c])
<1>2. t \in Seq(Lines) /\ toServer' = [toServer EXCEPT ![c] = t]
  BY <1>1
<1> HIDE DEF t
<1> QED
  BY <1>2 DEF WireTypes

\* Printing a line, on an open stream or a closed one, keeps the wire well-typed.
LEMMA PrintlnType ==
  ASSUME toClient \in [Conns -> Seq(Lines)], NEW d, NEW l \in Lines, Println(d, l)
  PROVE  toClient' \in [Conns -> Seq(Lines)]
BY DEF Println

\* The initial state satisfies the invariant.
LEMMA InitIInv == Init => IInv
BY DEF Init, IInv, TypeOK, ClientTypes, WireTypes, SessionTypes, DaemonTypes, HolderPlace, SessionExclusion, OwnStreams, Inside, Serving, HasPeer

-----------------------------------------------------------------------------


\* The compilers' part of the types.
LEMMA ClientTypesStep == IInv /\ [Next]_vars => ClientTypes'
<1> SUFFICES ASSUME IInv, [Next]_vars PROVE ClientTypes'
  OBVIOUS
<1> ClientTypes
  BY DEF IInv, TypeOK
<1>1. CASE UNCHANGED <<client, kind, reqs, stop>>
  BY <1>1 DEF ClientTypes
<1>2. ASSUME NEW c \in Conns, SendStart(c) PROVE ClientTypes'
  BY <1>2 DEF ClientTypes, SendStart, HasPeer, clientVars, session, streams, accept
<1>3. ASSUME NEW c \in Conns, ReadHello(c) PROVE ClientTypes'
  BY <1>3 DEF ClientTypes, ReadHello, HasPeer, clientVars, session, streams, accept
<1>4. ASSUME NEW c \in Conns, ReadReply(c) PROVE ClientTypes'
  BY <1>4 DEF ClientTypes, ReadReply, AfterLine, HasPeer, clientVars, session, streams, accept
<1>5. ASSUME NEW c \in Conns, AnswerQuery(c) PROVE ClientTypes'
  BY <1>5 DEF ClientTypes, AnswerQuery, HasPeer, clientVars, session, streams, accept
<1>6. ASSUME NEW c \in Conns, SendRequest(c) PROVE ClientTypes'
  BY <1>6 DEF ClientTypes, SendRequest, HasPeer, clientVars, session, streams, accept
<1>7. ASSUME NEW c \in Conns, Terminate(c) PROVE ClientTypes'
  BY <1>7 DEF ClientTypes, Terminate, HasPeer, clientVars, session, streams, accept
<1>8. ASSUME NEW c \in Conns, Connect(c) PROVE ClientTypes'
  BY <1>8 DEF ClientTypes, Connect, HasPeer, clientVars, session, streams, accept
<1>9. ASSUME NEW c \in Conns, AbandonStart(c) PROVE ClientTypes'
  BY <1>9 DEF ClientTypes, AbandonStart, HasPeer, clientVars, session, streams, accept
<1>10. ASSUME NEW c \in Conns, TimeOut(c) PROVE ClientTypes'
  BY <1>10 DEF ClientTypes, TimeOut, HasPeer, clientVars, session, streams, accept
<1>11. ASSUME NEW c \in Conns, Killed(c) PROVE ClientTypes'
  BY <1>11 DEF ClientTypes, Killed, HasPeer, clientVars, session, streams, accept
<1>12. CASE CloseUnix
  BY <1>12 DEF ClientTypes, CloseUnix, HasPeer, clientVars, session, streams, accept
<1>13. ASSUME NEW c \in Conns,
             \/ MacroPrints(c) \/ AwaitScalaRs(c) \/ AskScalaRs(c) \/ Reply(c) \/ MacroLoops(c) \/ TryAcquire(c)
             \/ AcquireTimesOut(c) \/ RejectBusy(c) \/ TakeStreams(c) \/ ResetRun(c)
             \/ ReadRequest(c) \/ ReadAnswer(c) \/ CloseSession(c) \/ Release(c)
             \/ AcceptTcp(c) \/ AcceptUnix(c) \/ ReadStart(c) \/ StartTimesOut(c)
             \/ AcceptShutdown(c)
       PROVE ClientTypes'
  <2>1. UNCHANGED <<client, kind, reqs, stop>>
    BY <1>13 DEF clientVars, wire, session, streams, accept, MacroPrints, AwaitScalaRs, AskScalaRs, Reply, MacroLoops, TryAcquire, AcquireTimesOut, RejectBusy, TakeStreams, ResetRun, ReadRequest, ReadAnswer, CloseSession, Release, AcceptTcp, AcceptUnix, ReadStart, StartTimesOut, AcceptShutdown
  <2> QED BY <1>1, <2>1
<1>14. CASE Probe \/ AcceptProbe \/ LeaveIdle \/ DropEndpoint
          \/ ExitIdle \/ WatchdogFires \/ WatchdogExits \/ Tick
  <2>1. UNCHANGED <<client, kind, reqs, stop>>
    BY <1>14 DEF clientVars, wire, session, streams, accept, Probe, AcceptProbe, LeaveIdle, DropEndpoint, ExitIdle, WatchdogFires, WatchdogExits, Tick
  <2> QED BY <1>1, <2>1
<1>15. CASE UNCHANGED vars
  BY <1>1, <1>15 DEF vars, clientVars, wire, session, streams, accept
<1> QED
  BY <1>2, <1>3, <1>4, <1>5, <1>6, <1>7, <1>8, <1>9, <1>10, <1>11, <1>12, <1>13, <1>14, <1>15
     DEF Next, ClientStep, ClientChoice, MacroStep, WorkerStep, AcceptorStep, LeaveStep

\* The lines under way.
LEMMA WireTypesStep == IInv /\ [Next]_vars => WireTypes'
<1> SUFFICES ASSUME IInv, [Next]_vars PROVE WireTypes'
  OBVIOUS
<1> WireTypes
  BY DEF IInv, TypeOK
<1>1. CASE UNCHANGED <<toServer, toClient>>
  BY <1>1 DEF WireTypes
<1>2. ASSUME NEW c \in Conns, SendStart(c) PROVE WireTypes'
  BY <1>2, LineType, WireAppend DEF SendStart, WireTypes
<1>3. ASSUME NEW c \in Conns, AnswerQuery(c) PROVE WireTypes'
  <2>1. reqs[c] \in 0..MaxRequests
    BY DEF IInv, TypeOK, ClientTypes
  <2> QED
    BY <1>3, <2>1, LineType, WireAppend DEF AnswerQuery, WireTypes
<1>4. ASSUME NEW c \in Conns, SendRequest(c) PROVE WireTypes'
  <2>1. reqs[c] + 1 \in 0..MaxRequests
    BY <1>4 DEF IInv, TypeOK, ClientTypes, SendRequest
  <2> QED
    BY <1>4, <2>1, LineType, WireAppend DEF SendRequest, WireTypes
<1>5. ASSUME NEW c \in Conns, ReadHello(c) PROVE WireTypes'
  <2>1. CASE toClient[c] # <<>> /\ toClient' = [toClient EXCEPT ![c] = Tail(@)] /\ UNCHANGED toServer
    BY <2>1, ClientReads
  <2>2. CASE UNCHANGED <<toServer, toClient>>
    BY <1>1, <2>2
  <2> QED
    BY <1>5, <2>1, <2>2 DEF ReadHello
<1>6. ASSUME NEW c \in Conns, ReadReply(c) PROVE WireTypes'
  <2>1. CASE toClient[c] # <<>> /\ toClient' = [toClient EXCEPT ![c] = Tail(@)] /\ UNCHANGED toServer
    BY <2>1, ClientReads
  <2>2. CASE UNCHANGED <<toServer, toClient>>
    BY <1>1, <2>2
  <2> QED
    BY <1>6, <2>1, <2>2 DEF ReadReply
<1>7. ASSUME NEW c \in Conns, ReadStart(c) PROVE WireTypes'
  <2>1. CASE toServer[c] # <<>> /\ toServer' = [toServer EXCEPT ![c] = Tail(@)] /\ UNCHANGED toClient
    BY <2>1, DaemonReads
  <2>2. CASE UNCHANGED <<toServer, toClient>>
    BY <1>1, <2>2
  <2> QED
    BY <1>7, <2>1, <2>2 DEF ReadStart
<1>8. ASSUME NEW c \in Conns, ReadRequest(c) PROVE WireTypes'
  <2>0. inOwner = c
    BY <1>8 DEF IInv, OwnStreams, ReadRequest, Serving
  <2>1. CASE toServer[c] # <<>> /\ toServer' = [toServer EXCEPT ![c] = Tail(@)] /\ UNCHANGED toClient
    BY <2>1, DaemonReads
  <2>2. CASE UNCHANGED <<toServer, toClient>>
    BY <1>1, <2>2
  <2> QED
    BY <1>8, <2>0, <2>1, <2>2 DEF ReadRequest
<1>9. ASSUME NEW c \in Conns, ReadAnswer(c) PROVE WireTypes'
  <2>0. inOwner = c
    BY <1>9 DEF IInv, OwnStreams, ReadAnswer, Serving
  <2>1. CASE toServer[c] # <<>> /\ toServer' = [toServer EXCEPT ![c] = Tail(@)] /\ UNCHANGED toClient
    BY <2>1, DaemonReads
  <2>2. CASE UNCHANGED <<toServer, toClient>>
    BY <1>1, <2>2
  <2> QED
    BY <1>9, <2>0, <2>1, <2>2 DEF ReadAnswer
<1>10. ASSUME NEW c \in Conns, AskScalaRs(c) PROVE WireTypes'
  <2>1. reqs[c] \in 0..MaxRequests
    BY DEF IInv, TypeOK, ClientTypes
  <2> QED
    BY <1>10, <2>1, LineType, PrintlnType DEF AskScalaRs, WireTypes
<1>11. ASSUME NEW c \in Conns, Reply(c) PROVE WireTypes'
  <2>1. reqs[c] \in 0..MaxRequests
    BY DEF IInv, TypeOK, ClientTypes
  <2> QED
    BY <1>11, <2>1, LineType, PrintlnType DEF Reply, WireTypes
<1>12. ASSUME NEW c \in Conns, RejectBusy(c) PROVE WireTypes'
  BY <1>12, LineType, PrintlnType DEF RejectBusy, WireTypes
<1>13. ASSUME NEW c \in Conns, ResetRun(c) PROVE WireTypes'
  BY <1>13, LineType, PrintlnType DEF ResetRun, WireTypes
<1>17. ASSUME NEW c \in Conns, MacroPrints(c) PROVE WireTypes'
  <2>1. reqs[c] \in 0..MaxRequests
    BY DEF IInv, TypeOK, ClientTypes
  <2> QED
    BY <1>17, <2>1, LineType, PrintlnType DEF MacroPrints, WireTypes
<1>14. ASSUME NEW c \in Conns,
             \/ Terminate(c) \/ Connect(c) \/ AbandonStart(c) \/ TimeOut(c)
             \/ Killed(c) \/ MacroLoops(c) \/ AwaitScalaRs(c) \/ TryAcquire(c) \/ AcquireTimesOut(c)
             \/ TakeStreams(c) \/ CloseSession(c) \/ Release(c) \/ AcceptTcp(c)
             \/ AcceptUnix(c) \/ StartTimesOut(c) \/ AcceptShutdown(c)
       PROVE WireTypes'
  <2>1. UNCHANGED <<toServer, toClient>>
    BY <1>14 DEF clientVars, wire, session, streams, accept, Terminate, Connect, AbandonStart, TimeOut, Killed, MacroLoops, AwaitScalaRs, TryAcquire, AcquireTimesOut, TakeStreams, CloseSession, Release, AcceptTcp, AcceptUnix, StartTimesOut, AcceptShutdown
  <2> QED BY <1>1, <2>1
<1>15. CASE Probe \/ AcceptProbe \/ LeaveIdle \/ CloseUnix
          \/ DropEndpoint \/ ExitIdle \/ WatchdogFires \/ WatchdogExits \/ Tick
  <2>1. UNCHANGED <<toServer, toClient>>
    BY <1>15 DEF clientVars, wire, session, streams, accept, Probe, AcceptProbe, LeaveIdle, CloseUnix, DropEndpoint, ExitIdle, WatchdogFires, WatchdogExits, Tick
  <2> QED BY <1>1, <2>1
<1>16. CASE UNCHANGED vars
  BY <1>1, <1>16 DEF vars, clientVars, wire, session, streams, accept
<1> QED
  BY <1>2, <1>3, <1>4, <1>5, <1>6, <1>7, <1>8, <1>9, <1>10, <1>11, <1>12, <1>13, <1>14, <1>15, <1>16, <1>17
     DEF Next, ClientStep, ClientChoice, MacroStep, WorkerStep, AcceptorStep, LeaveStep

\* The workers, the semaphore and the static streams.
LEMMA SessionTypesStep == IInv /\ [Next]_vars => SessionTypes'
<1> SUFFICES ASSUME IInv, [Next]_vars PROVE SessionTypes'
  OBVIOUS
<1> SessionTypes
  BY DEF IInv, TypeOK
<1>1. CASE UNCHANGED <<srv, permits, holders, inOwner, outOwner, strayed>>
  BY <1>1 DEF SessionTypes
<1>2. ASSUME NEW c \in Conns, Connect(c) PROVE SessionTypes'
  BY <1>2 DEF SessionTypes, Connect, Serving, clientVars, session, streams, accept
<1>3. ASSUME NEW c \in Conns, AskScalaRs(c) PROVE SessionTypes'
  BY <1>3 DEF SessionTypes, AskScalaRs, Serving, clientVars, session, streams, accept
<1>4. ASSUME NEW c \in Conns, Reply(c) PROVE SessionTypes'
  BY <1>4 DEF SessionTypes, Reply, Serving, clientVars, session, streams, accept
<1>5. ASSUME NEW c \in Conns, MacroLoops(c) PROVE SessionTypes'
  BY <1>5 DEF SessionTypes, MacroLoops, Serving, clientVars, session, streams, accept
<1>6. ASSUME NEW c \in Conns, TryAcquire(c) PROVE SessionTypes'
  BY <1>6 DEF SessionTypes, TryAcquire, Serving, clientVars, session, streams, accept
<1>7. ASSUME NEW c \in Conns, AcquireTimesOut(c) PROVE SessionTypes'
  BY <1>7 DEF SessionTypes, AcquireTimesOut, Serving, clientVars, session, streams, accept
<1>8. ASSUME NEW c \in Conns, RejectBusy(c) PROVE SessionTypes'
  BY <1>8 DEF SessionTypes, RejectBusy, Serving, clientVars, session, streams, accept
<1>9. ASSUME NEW c \in Conns, TakeStreams(c) PROVE SessionTypes'
  BY <1>9 DEF SessionTypes, TakeStreams, Serving, clientVars, session, streams, accept
<1>10. ASSUME NEW c \in Conns, ResetRun(c) PROVE SessionTypes'
  BY <1>10 DEF SessionTypes, ResetRun, Serving, clientVars, session, streams, accept
<1>11. ASSUME NEW c \in Conns, ReadRequest(c) PROVE SessionTypes'
  BY <1>11 DEF SessionTypes, ReadRequest, Serving, clientVars, session, streams, accept
<1>12. ASSUME NEW c \in Conns, ReadAnswer(c) PROVE SessionTypes'
  BY <1>12 DEF SessionTypes, ReadAnswer, Serving, clientVars, session, streams, accept
<1>13. ASSUME NEW c \in Conns, CloseSession(c) PROVE SessionTypes'
  BY <1>13 DEF SessionTypes, CloseSession, Serving, clientVars, session, streams, accept
<1>14. ASSUME NEW c \in Conns, Release(c) PROVE SessionTypes'
  BY <1>14 DEF IInv, SessionExclusion, SessionTypes, Release, Serving, clientVars, session, streams, accept
<1>15. ASSUME NEW c \in Conns, AcceptTcp(c) PROVE SessionTypes'
  BY <1>15 DEF SessionTypes, AcceptTcp, Serving, clientVars, session, streams, accept
<1>16. ASSUME NEW c \in Conns, AcceptUnix(c) PROVE SessionTypes'
  BY <1>16 DEF SessionTypes, AcceptUnix, Serving, clientVars, session, streams, accept
<1>17. ASSUME NEW c \in Conns, ReadStart(c) PROVE SessionTypes'
  BY <1>17 DEF SessionTypes, ReadStart, Serving, clientVars, session, streams, accept
<1>18. ASSUME NEW c \in Conns, StartTimesOut(c) PROVE SessionTypes'
  BY <1>18 DEF SessionTypes, StartTimesOut, Serving, clientVars, session, streams, accept
<1>19. CASE CloseUnix
  BY <1>19 DEF SessionTypes, CloseUnix, Serving, clientVars, session, streams, accept
<1>23. ASSUME NEW c \in Conns, AwaitScalaRs(c) PROVE SessionTypes'
  BY <1>23 DEF SessionTypes, AwaitScalaRs, Serving, clientVars, session, streams, accept
<1>20. ASSUME NEW c \in Conns,
             \/ SendStart(c) \/ ReadHello(c) \/ ReadReply(c) \/ AnswerQuery(c)
             \/ SendRequest(c) \/ Terminate(c) \/ AbandonStart(c) \/ TimeOut(c)
             \/ Killed(c) \/ MacroPrints(c) \/ AcceptShutdown(c)
       PROVE SessionTypes'
  <2>1. UNCHANGED <<srv, permits, holders, inOwner, outOwner, strayed>>
    BY <1>20 DEF clientVars, wire, session, streams, accept, SendStart, ReadHello, ReadReply, AnswerQuery, SendRequest, Terminate, AbandonStart, TimeOut, Killed, MacroPrints, AcceptShutdown
  <2> QED BY <1>1, <2>1
<1>21. CASE Probe \/ AcceptProbe \/ LeaveIdle \/ DropEndpoint
          \/ ExitIdle \/ WatchdogFires \/ WatchdogExits \/ Tick
  <2>1. UNCHANGED <<srv, permits, holders, inOwner, outOwner, strayed>>
    BY <1>21 DEF clientVars, wire, session, streams, accept, Probe, AcceptProbe, LeaveIdle, DropEndpoint, ExitIdle, WatchdogFires, WatchdogExits, Tick
  <2> QED BY <1>1, <2>1
<1>22. CASE UNCHANGED vars
  BY <1>1, <1>22 DEF vars, clientVars, wire, session, streams, accept
<1> QED
  BY <1>2, <1>3, <1>4, <1>5, <1>6, <1>7, <1>8, <1>9, <1>10, <1>11, <1>12, <1>13, <1>14, <1>15, <1>16, <1>17, <1>18, <1>19, <1>20, <1>21, <1>22, <1>23
     DEF Next, ClientStep, ClientChoice, MacroStep, WorkerStep, AcceptorStep, LeaveStep

\* The clocks and the accept loops.
LEMMA DaemonTypesStep == IInv /\ [Next]_vars => DaemonTypes'
<1> SUFFICES ASSUME IInv, [Next]_vars PROVE DaemonTypes'
  OBVIOUS
<1> DaemonTypes
  BY DEF IInv, TypeOK
<1>1. CASE UNCHANGED <<since, watch, mainPc, unixPc, idle, probes, endpoint, exit>>
  BY <1>1 DEF DaemonTypes
<1>2. ASSUME NEW c \in Conns, AcceptTcp(c) PROVE DaemonTypes'
  BY <1>2 DEF DaemonTypes, AcceptTcp, clientVars, session, streams, accept
<1>3. ASSUME NEW c \in Conns, AcceptUnix(c) PROVE DaemonTypes'
  BY <1>3 DEF DaemonTypes, AcceptUnix, clientVars, session, streams, accept
<1>4. ASSUME NEW c \in Conns, ReadStart(c) PROVE DaemonTypes'
  BY <1>4 DEF DaemonTypes, ReadStart, AcceptorLoops, clientVars, session, streams, accept
<1>5. ASSUME NEW c \in Conns, StartTimesOut(c) PROVE DaemonTypes'
  BY <1>5 DEF DaemonTypes, StartTimesOut, AcceptorLoops, clientVars, session, streams, accept
<1>6. ASSUME NEW c \in Conns, AcceptShutdown(c) PROVE DaemonTypes'
  BY <1>6 DEF DaemonTypes, AcceptShutdown, clientVars, session, streams, accept
<1>7. ASSUME NEW c \in Conns, TryAcquire(c) PROVE DaemonTypes'
  BY <1>7 DEF DaemonTypes, TryAcquire, clientVars, session, streams, accept
<1>8. ASSUME NEW c \in Conns, ResetRun(c) PROVE DaemonTypes'
  BY <1>8 DEF DaemonTypes, ResetRun, clientVars, session, streams, accept
<1>9. ASSUME NEW c \in Conns, ReadRequest(c) PROVE DaemonTypes'
  BY <1>9 DEF DaemonTypes, ReadRequest, clientVars, session, streams, accept
<1>10. ASSUME NEW c \in Conns, AskScalaRs(c) PROVE DaemonTypes'
  BY <1>10 DEF DaemonTypes, AskScalaRs, clientVars, session, streams, accept
<1>11. ASSUME NEW c \in Conns, ReadAnswer(c) PROVE DaemonTypes'
  BY <1>11 DEF DaemonTypes, ReadAnswer, clientVars, session, streams, accept
<1>12. ASSUME NEW c \in Conns, Reply(c) PROVE DaemonTypes'
  BY <1>12 DEF DaemonTypes, Reply, clientVars, session, streams, accept
<1>13. ASSUME NEW c \in Conns, CloseSession(c) PROVE DaemonTypes'
  BY <1>13 DEF DaemonTypes, CloseSession, clientVars, session, streams, accept
<1>14. CASE Probe
  BY <1>14 DEF DaemonTypes, Probe, clientVars, session, streams, accept
<1>15. CASE AcceptProbe
  BY <1>15 DEF DaemonTypes, AcceptProbe, clientVars, session, streams, accept
<1>16. CASE LeaveIdle
  BY <1>16 DEF DaemonTypes, LeaveIdle, clientVars, session, streams, accept
<1>17. CASE CloseUnix
  BY <1>17 DEF DaemonTypes, CloseUnix, clientVars, session, streams, accept
<1>18. CASE DropEndpoint
  BY <1>18 DEF DaemonTypes, DropEndpoint, clientVars, session, streams, accept
<1>19. CASE ExitIdle
  BY <1>19 DEF DaemonTypes, ExitIdle, clientVars, session, streams, accept
<1>20. CASE WatchdogFires
  BY <1>20 DEF DaemonTypes, WatchdogFires, clientVars, session, streams, accept
<1>21. CASE WatchdogExits
  BY <1>21 DEF DaemonTypes, WatchdogExits, clientVars, session, streams, accept
<1>22. CASE Tick
  BY <1>22 DEF DaemonTypes, Tick, Older, clientVars, session, streams, accept
<1>25. ASSUME NEW c \in Conns, AwaitScalaRs(c) PROVE DaemonTypes'
  BY <1>25 DEF DaemonTypes, AwaitScalaRs, clientVars, session, streams, accept
<1>23. ASSUME NEW c \in Conns,
             \/ SendStart(c) \/ ReadHello(c) \/ ReadReply(c) \/ AnswerQuery(c)
             \/ SendRequest(c) \/ Terminate(c) \/ Connect(c) \/ AbandonStart(c)
             \/ TimeOut(c) \/ Killed(c) \/ MacroLoops(c) \/ MacroPrints(c) \/ AcquireTimesOut(c)
             \/ RejectBusy(c) \/ TakeStreams(c) \/ Release(c)
       PROVE DaemonTypes'
  <2>1. UNCHANGED <<since, watch, mainPc, unixPc, idle, probes, endpoint, exit>>
    BY <1>23 DEF clientVars, wire, session, streams, accept, SendStart, ReadHello, ReadReply, AnswerQuery, SendRequest, Terminate, Connect, AbandonStart, TimeOut, Killed, MacroLoops, MacroPrints, AcquireTimesOut, RejectBusy, TakeStreams, Release
  <2> QED BY <1>1, <2>1
<1>24. CASE UNCHANGED vars
  BY <1>1, <1>24 DEF vars, clientVars, wire, session, streams, accept
<1> QED
  BY <1>2, <1>3, <1>4, <1>5, <1>6, <1>7, <1>8, <1>9, <1>10, <1>11, <1>12, <1>13, <1>14, <1>15, <1>16, <1>17, <1>18, <1>19, <1>20, <1>21, <1>22, <1>23, <1>24, <1>25
     DEF Next, ClientStep, ClientChoice, MacroStep, WorkerStep, AcceptorStep, LeaveStep

\* Steps that leave the workers, the semaphore and the static streams alone.
Elsewhere == UNCHANGED <<srv, permits, holders, inOwner, outOwner>>

\* Every step of every thread keeps the session's part of the invariant.
LEMMA SessionStep == IInv /\ [Next]_vars => (HolderPlace /\ SessionExclusion /\ OwnStreams)'
<1> SUFFICES ASSUME IInv, [Next]_vars PROVE (HolderPlace /\ SessionExclusion /\ OwnStreams)'
  OBVIOUS
<1> USE DEF IInv, TypeOK, SessionTypes, session, streams
<1>0. CASE Elsewhere
  BY <1>0 DEF Elsewhere, HolderPlace, SessionExclusion, OwnStreams, Inside, Serving
<1>1. ASSUME NEW c \in Conns, Connect(c) PROVE (HolderPlace /\ SessionExclusion /\ OwnStreams)'
  <2> USE <1>1 DEF Connect
  <2>1. HolderPlace'
    BY DEF HolderPlace, SessionExclusion, Inside, Serving
  <2>2. SessionExclusion'
    BY DEF HolderPlace, SessionExclusion, Inside, Serving
  <2>3. OwnStreams'
    BY DEF OwnStreams, HolderPlace, SessionExclusion, Inside, Serving
  <2> QED BY <2>1, <2>2, <2>3
<1>2. ASSUME NEW c \in Conns, AcceptTcp(c) PROVE (HolderPlace /\ SessionExclusion /\ OwnStreams)'
  <2> USE <1>2 DEF AcceptTcp
  <2>1. HolderPlace'
    BY DEF HolderPlace, SessionExclusion, Inside, Serving
  <2>2. SessionExclusion'
    BY DEF HolderPlace, SessionExclusion, Inside, Serving
  <2>3. OwnStreams'
    BY DEF OwnStreams, HolderPlace, SessionExclusion, Inside, Serving
  <2> QED BY <2>1, <2>2, <2>3
<1>3. ASSUME NEW c \in Conns, AcceptUnix(c) PROVE (HolderPlace /\ SessionExclusion /\ OwnStreams)'
  <2> USE <1>3 DEF AcceptUnix
  <2>1. HolderPlace'
    BY DEF HolderPlace, SessionExclusion, Inside, Serving
  <2>2. SessionExclusion'
    BY DEF HolderPlace, SessionExclusion, Inside, Serving
  <2>3. OwnStreams'
    BY DEF OwnStreams, HolderPlace, SessionExclusion, Inside, Serving
  <2> QED BY <2>1, <2>2, <2>3
<1>4. ASSUME NEW c \in Conns, ReadStart(c) PROVE (HolderPlace /\ SessionExclusion /\ OwnStreams)'
  <2> USE <1>4 DEF ReadStart
  <2>1. HolderPlace'
    BY DEF HolderPlace, SessionExclusion, Inside, Serving
  <2>2. SessionExclusion'
    BY DEF HolderPlace, SessionExclusion, Inside, Serving
  <2>3. OwnStreams'
    BY DEF OwnStreams, HolderPlace, SessionExclusion, Inside, Serving
  <2> QED BY <2>1, <2>2, <2>3
<1>5. ASSUME NEW c \in Conns, StartTimesOut(c) PROVE (HolderPlace /\ SessionExclusion /\ OwnStreams)'
  <2> USE <1>5 DEF StartTimesOut
  <2>1. HolderPlace'
    BY DEF HolderPlace, SessionExclusion, Inside, Serving
  <2>2. SessionExclusion'
    BY DEF HolderPlace, SessionExclusion, Inside, Serving
  <2>3. OwnStreams'
    BY DEF OwnStreams, HolderPlace, SessionExclusion, Inside, Serving
  <2> QED BY <2>1, <2>2, <2>3
<1>6. ASSUME NEW c \in Conns, AcquireTimesOut(c) PROVE (HolderPlace /\ SessionExclusion /\ OwnStreams)'
  <2> USE <1>6 DEF AcquireTimesOut
  <2>1. HolderPlace'
    BY DEF HolderPlace, SessionExclusion, Inside, Serving
  <2>2. SessionExclusion'
    BY DEF HolderPlace, SessionExclusion, Inside, Serving
  <2>3. OwnStreams'
    BY DEF OwnStreams, HolderPlace, SessionExclusion, Inside, Serving
  <2> QED BY <2>1, <2>2, <2>3
<1>7. ASSUME NEW c \in Conns, RejectBusy(c) PROVE (HolderPlace /\ SessionExclusion /\ OwnStreams)'
  <2> USE <1>7 DEF RejectBusy
  <2>1. HolderPlace'
    BY DEF HolderPlace, SessionExclusion, Inside, Serving
  <2>2. SessionExclusion'
    BY DEF HolderPlace, SessionExclusion, Inside, Serving
  <2>3. OwnStreams'
    BY DEF OwnStreams, HolderPlace, SessionExclusion, Inside, Serving
  <2> QED BY <2>1, <2>2, <2>3
<1>8. ASSUME NEW c \in Conns, ResetRun(c) PROVE (HolderPlace /\ SessionExclusion /\ OwnStreams)'
  <2> USE <1>8 DEF ResetRun
  <2>1. HolderPlace'
    BY DEF HolderPlace, SessionExclusion, Inside, Serving
  <2>2. SessionExclusion'
    BY DEF HolderPlace, SessionExclusion, Inside, Serving
  <2>3. OwnStreams'
    BY DEF OwnStreams, HolderPlace, SessionExclusion, Inside, Serving
  <2> QED BY <2>1, <2>2, <2>3
<1>9. ASSUME NEW c \in Conns, ReadRequest(c) PROVE (HolderPlace /\ SessionExclusion /\ OwnStreams)'
  <2> USE <1>9 DEF ReadRequest
  <2>1. HolderPlace'
    BY DEF HolderPlace, SessionExclusion, Inside, Serving
  <2>2. SessionExclusion'
    BY DEF HolderPlace, SessionExclusion, Inside, Serving
  <2>3. OwnStreams'
    BY DEF OwnStreams, HolderPlace, SessionExclusion, Inside, Serving
  <2> QED BY <2>1, <2>2, <2>3
<1>10. ASSUME NEW c \in Conns, AskScalaRs(c) PROVE (HolderPlace /\ SessionExclusion /\ OwnStreams)'
  <2> USE <1>10 DEF AskScalaRs
  <2>1. HolderPlace'
    BY DEF HolderPlace, SessionExclusion, Inside, Serving
  <2>2. SessionExclusion'
    BY DEF HolderPlace, SessionExclusion, Inside, Serving
  <2>3. OwnStreams'
    BY DEF OwnStreams, HolderPlace, SessionExclusion, Inside, Serving
  <2> QED BY <2>1, <2>2, <2>3
<1>11. ASSUME NEW c \in Conns, ReadAnswer(c) PROVE (HolderPlace /\ SessionExclusion /\ OwnStreams)'
  <2> USE <1>11 DEF ReadAnswer
  <2>1. HolderPlace'
    BY DEF HolderPlace, SessionExclusion, Inside, Serving
  <2>2. SessionExclusion'
    BY DEF HolderPlace, SessionExclusion, Inside, Serving
  <2>3. OwnStreams'
    BY DEF OwnStreams, HolderPlace, SessionExclusion, Inside, Serving
  <2> QED BY <2>1, <2>2, <2>3
<1>12. ASSUME NEW c \in Conns, Reply(c) PROVE (HolderPlace /\ SessionExclusion /\ OwnStreams)'
  <2> USE <1>12 DEF Reply
  <2>1. HolderPlace'
    BY DEF HolderPlace, SessionExclusion, Inside, Serving
  <2>2. SessionExclusion'
    BY DEF HolderPlace, SessionExclusion, Inside, Serving
  <2>3. OwnStreams'
    BY DEF OwnStreams, HolderPlace, SessionExclusion, Inside, Serving
  <2> QED BY <2>1, <2>2, <2>3
<1>13. ASSUME NEW c \in Conns, MacroLoops(c) PROVE (HolderPlace /\ SessionExclusion /\ OwnStreams)'
  <2> USE <1>13 DEF MacroLoops
  <2>1. HolderPlace'
    BY DEF HolderPlace, SessionExclusion, Inside, Serving
  <2>2. SessionExclusion'
    BY DEF HolderPlace, SessionExclusion, Inside, Serving
  <2>3. OwnStreams'
    BY DEF OwnStreams, HolderPlace, SessionExclusion, Inside, Serving
  <2> QED BY <2>1, <2>2, <2>3
<1>14. ASSUME NEW c \in Conns, CloseSession(c) PROVE (HolderPlace /\ SessionExclusion /\ OwnStreams)'
  <2> USE <1>14 DEF CloseSession
  <2>1. HolderPlace'
    BY DEF HolderPlace, SessionExclusion, Inside, Serving
  <2>2. SessionExclusion'
    BY DEF HolderPlace, SessionExclusion, Inside, Serving
  <2>3. OwnStreams'
    BY DEF OwnStreams, HolderPlace, SessionExclusion, Inside, Serving
  <2> QED BY <2>1, <2>2, <2>3
<1>15. ASSUME NEW c \in Conns, TryAcquire(c) PROVE (HolderPlace /\ SessionExclusion /\ OwnStreams)'
  <2> USE <1>15 DEF TryAcquire
  <2>1. HolderPlace'
    BY DEF HolderPlace, SessionExclusion, Inside, Serving
  <2>2. SessionExclusion'
    BY DEF HolderPlace, SessionExclusion, Inside, Serving
  <2>3. OwnStreams'
    BY DEF OwnStreams, HolderPlace, SessionExclusion, Inside, Serving
  <2> QED BY <2>1, <2>2, <2>3
<1>16. ASSUME NEW c \in Conns, TakeStreams(c) PROVE (HolderPlace /\ SessionExclusion /\ OwnStreams)'
  <2> USE <1>16 DEF TakeStreams
  <2>1. HolderPlace'
    BY DEF HolderPlace, SessionExclusion, Inside, Serving
  <2>2. SessionExclusion'
    BY DEF HolderPlace, SessionExclusion, Inside, Serving
  <2>3. OwnStreams'
    BY DEF OwnStreams, HolderPlace, SessionExclusion, Inside, Serving
  <2> QED BY <2>1, <2>2, <2>3
<1>17. ASSUME NEW c \in Conns, Release(c) PROVE (HolderPlace /\ SessionExclusion /\ OwnStreams)'
  <2> USE <1>17 DEF Release
  <2>1. HolderPlace'
    BY DEF HolderPlace, SessionExclusion, Inside, Serving
  <2>2. SessionExclusion'
    BY DEF HolderPlace, SessionExclusion, Inside, Serving
  <2>3. OwnStreams'
    BY DEF OwnStreams, HolderPlace, SessionExclusion, Inside, Serving
  <2> QED BY <2>1, <2>2, <2>3
<1>22. ASSUME NEW c \in Conns, AwaitScalaRs(c) PROVE (HolderPlace /\ SessionExclusion /\ OwnStreams)'
  <2> USE <1>22 DEF AwaitScalaRs
  <2>1. HolderPlace'
    BY DEF HolderPlace, SessionExclusion, Inside, Serving
  <2>2. SessionExclusion'
    BY DEF HolderPlace, SessionExclusion, Inside, Serving
  <2>3. OwnStreams'
    BY DEF OwnStreams, HolderPlace, SessionExclusion, Inside, Serving
  <2> QED BY <2>1, <2>2, <2>3
<1>18. CASE CloseUnix
  BY <1>18 DEF CloseUnix, HolderPlace, SessionExclusion, OwnStreams, Inside, Serving
<1>19. ASSUME NEW c \in Conns,
             \/ SendStart(c) \/ ReadHello(c) \/ ReadReply(c) \/ AnswerQuery(c)
             \/ SendRequest(c) \/ Terminate(c) \/ AbandonStart(c) \/ TimeOut(c)
             \/ Killed(c) \/ MacroPrints(c) \/ AcceptShutdown(c)
       PROVE Elsewhere
  BY <1>19 DEF Elsewhere, SendStart, ReadHello, ReadReply, AnswerQuery, SendRequest, Terminate, AbandonStart, TimeOut, Killed, MacroPrints, AcceptShutdown
<1>20. CASE Probe \/ AcceptProbe \/ LeaveIdle \/ DropEndpoint
          \/ ExitIdle \/ WatchdogFires \/ WatchdogExits \/ Tick
  <2>1. Elsewhere
    BY <1>20 DEF Elsewhere, Probe, AcceptProbe, LeaveIdle, DropEndpoint, ExitIdle, WatchdogFires, WatchdogExits, Tick
  <2> QED BY <2>1, <1>0
<1>21. CASE UNCHANGED vars
  <2>1. Elsewhere
    BY <1>21 DEF Elsewhere, vars
  <2> QED BY <2>1, <1>0
<1> QED
  BY <1>0, <1>1, <1>2, <1>3, <1>4, <1>5, <1>6, <1>7, <1>8, <1>9, <1>10, <1>11, <1>12, <1>13, <1>14, <1>15, <1>16, <1>17, <1>18, <1>19, <1>20, <1>21, <1>22
     DEF Next, ClientStep, ClientChoice, MacroStep, WorkerStep, AcceptorStep, LeaveStep

-----------------------------------------------------------------------------
\* The invariant holds in every reachable state.
THEOREM Invariance == Spec => []IInv
<1>1. Init => IInv
  BY InitIInv
<1>2. IInv /\ [Next]_vars => IInv'
  BY ClientTypesStep, WireTypesStep, SessionTypesStep, DaemonTypesStep, SessionStep
     DEF IInv, TypeOK
<1> QED
  BY <1>1, <1>2, PTL DEF Spec

\* Type correctness of the daemon model, for every instance.
THEOREM TypeCorrect == Spec => []TypeOK
<1>1. IInv => TypeOK
  BY DEF IInv
<1> QED
  BY <1>1, Invariance, PTL

\* However many compilers connect, are rejected, are killed or time out, the
\* daemon's semaphore lets one of them at a time hold a session.
THEOREM OneSession == Spec => []SessionExclusion
<1>1. IInv => SessionExclusion
  BY DEF IInv
<1> QED
  BY <1>1, Invariance, PTL

\* A serving session always reads and writes its own connection, although
\* `in' and `out' are static fields every worker can see.
THEOREM StreamsOwned == Spec => []OwnStreams
<1>1. IInv => OwnStreams
  BY DEF IInv
<1> QED
  BY <1>1, Invariance, PTL

-----------------------------------------------------------------------------
(* The watchdog's clock.                                                   *)

\* engineSince is 0 whenever a session waits for scala-rs.
ClockStopped == since # 0 => \A c \in Conns : srv[c] \notin {"await", "ask"}

\* Every step keeps that: the one session that can be waiting is the holder's,
\* and it clears the clock before it waits.
LEMMA ClockStep == IInv /\ ClockStopped /\ [Next]_vars => ClockStopped'
<1> SUFFICES ASSUME IInv, ClockStopped, [Next]_vars PROVE ClockStopped'
  OBVIOUS
<1>1. srv \in [Conns -> Serving \cup {"none", "backlog", "first", "acquire", "reject", "open",
                                     "reset", "closing", "closed", "done"}]
  BY DEF IInv, TypeOK, SessionTypes
<1>2. \A c, d \in Conns : srv[c] \in {"await", "ask"} /\ srv[d] \in {"await", "ask"} => c = d
  BY DEF IInv, HolderPlace, SessionExclusion, Inside, Serving
<1>3. ASSUME since' = 0 PROVE ClockStopped'
  BY <1>3 DEF ClockStopped
<1>4. ASSUME since' = since, NEW c \in Conns, NEW p, srv' = [srv EXCEPT ![c] = p],
             p \notin {"await", "ask"}
      PROVE  ClockStopped'
  BY <1>1, <1>4 DEF ClockStopped
<1>5. ASSUME since' # 0 => since # 0, srv' = srv PROVE ClockStopped'
  BY <1>5 DEF ClockStopped
<1>6. ASSUME NEW c \in Conns, ReadRequest(c) \/ ReadAnswer(c) PROVE ClockStopped'
  <2>1. srv[c] \in {"await", "ask"}
    BY <1>6 DEF ReadRequest, ReadAnswer
  <2>2. \/ since' = 0
        \/ srv' = [srv EXCEPT ![c] = "handle"] \/ srv' = [srv EXCEPT ![c] = "closing"]
        \/ srv' = [srv EXCEPT ![c] = "printed"]
    BY <1>6 DEF ReadRequest, ReadAnswer
  <2> QED BY <1>1, <1>2, <2>1, <2>2 DEF ClockStopped
<1>7. ASSUME NEW c \in Conns, AwaitScalaRs(c) \/ CloseSession(c) PROVE ClockStopped'
  BY <1>3, <1>7 DEF AwaitScalaRs, CloseSession
<1>8. ASSUME NEW c \in Conns,
             \/ Connect(c) \/ AcceptTcp(c) \/ AcceptUnix(c) \/ ReadStart(c) \/ StartTimesOut(c)
             \/ TryAcquire(c) \/ AcquireTimesOut(c) \/ RejectBusy(c) \/ TakeStreams(c)
             \/ ResetRun(c) \/ AskScalaRs(c) \/ Reply(c) \/ MacroLoops(c) \/ Release(c)
      PROVE  ClockStopped'
  <2>1. since' = since /\ \E p : srv' = [srv EXCEPT ![c] = p] /\ p \notin {"await", "ask"}
    BY <1>8 DEF Connect, AcceptTcp, AcceptUnix, ReadStart, StartTimesOut, TryAcquire,
                AcquireTimesOut, RejectBusy, TakeStreams, ResetRun, AskScalaRs, Reply,
                MacroLoops, Release
  <2> QED BY <1>4, <2>1
<1>9. CASE CloseUnix
  BY <1>1, <1>9 DEF CloseUnix, ClockStopped
<1>10. ASSUME NEW c \in Conns,
              \/ SendStart(c) \/ ReadHello(c) \/ ReadReply(c) \/ AnswerQuery(c) \/ SendRequest(c)
              \/ Terminate(c) \/ AbandonStart(c) \/ TimeOut(c) \/ Killed(c) \/ MacroPrints(c)
              \/ AcceptShutdown(c)
       PROVE  ClockStopped'
  <2>1. since' = since /\ srv' = srv
    BY <1>10 DEF SendStart, ReadHello, ReadReply, AnswerQuery, SendRequest, Terminate,
                 AbandonStart, TimeOut, Killed, MacroPrints, AcceptShutdown
  <2> QED BY <1>5, <2>1
<1>11. CASE Probe \/ AcceptProbe \/ LeaveIdle \/ DropEndpoint \/ ExitIdle \/ WatchdogFires
            \/ WatchdogExits \/ Tick \/ UNCHANGED vars
  <2>1. (since' # 0 => since # 0) /\ srv' = srv
    BY <1>11 DEF Probe, AcceptProbe, LeaveIdle, DropEndpoint, ExitIdle, WatchdogFires,
                 WatchdogExits, Tick, vars
  <2> QED BY <1>5, <2>1
<1> QED
  BY <1>6, <1>7, <1>8, <1>9, <1>10, <1>11
     DEF Next, ClientStep, ClientChoice, MacroStep, WorkerStep, AcceptorStep, LeaveStep

\* The watchdog never condemns a daemon that waits for scala-rs, although its
\* clock is a static field that every worker's finally clause clears.
THEOREM WatchdogSparesWaiting == Spec => WatchdogSpares
<1>1. Init => ClockStopped
  BY DEF Init, ClockStopped
<1>2. IInv /\ ClockStopped /\ [Next]_vars =>
        [watch = "sleep" /\ watch' = "fire" => \A c \in Conns : srv[c] \notin {"await", "ask"}]_vars
  <2> SUFFICES ASSUME IInv, ClockStopped, Next, watch = "sleep", watch' = "fire"
               PROVE  \A c \in Conns : srv[c] \notin {"await", "ask"}
    OBVIOUS
  <2>1. ASSUME WatchdogFires PROVE since # 0
    BY <2>1 DEF WatchdogFires
  <2>2. WatchdogFires
    BY DEF Next, ClientStep, ClientChoice, MacroStep, WorkerStep, AcceptorStep, LeaveStep,
           SendStart, ReadHello, ReadReply, AnswerQuery, SendRequest, Terminate, Connect,
           AbandonStart, TimeOut, Killed, MacroPrints, AwaitScalaRs, AskScalaRs, Reply, MacroLoops, TryAcquire,
           AcquireTimesOut, RejectBusy, TakeStreams, ResetRun, ReadRequest, ReadAnswer,
           CloseSession, Release, AcceptTcp, AcceptUnix, ReadStart, StartTimesOut,
           AcceptShutdown, Probe, AcceptProbe, LeaveIdle, CloseUnix, DropEndpoint, ExitIdle,
           WatchdogExits, Tick
  <2> QED BY <2>1, <2>2 DEF ClockStopped
<1> QED
  BY Invariance, ClockStep, <1>1, <1>2, PTL DEF Spec, WatchdogSpares

-----------------------------------------------------------------------------
(* Taking turns: what is under way on a connection, from where its two     *)
(* ends are.  A connection on which another worker has printed its error   *)
(* ("strayed") is out of step for good and is left out.                    *)

\* A line of c's own session about its latest request.
Own(c, l) == l.from = c /\ (l.kind \in {"query", "reply", "log"} => l.n = reqs[c])

Empty(c) == toServer[c] = <<>> /\ toClient[c] = <<>>
Sent(c)  == Len(toServer[c]) = 1 /\ toClient[c] = <<>>

\* Only output of the macro, if anything, is under way.
Logged(c) ==
  /\ toServer[c] = <<>>
  /\ \A i \in 1..Len(toClient[c]) : Own(c, toClient[c][i]) /\ toClient[c][i].kind = "log"

\* A line of one of these kinds is under way, after output of the macro.
Heard(c, kinds) ==
  /\ toServer[c] = <<>> /\ toClient[c] # <<>>
  /\ \A i \in 1..Len(toClient[c]) :
       /\ Own(c, toClient[c][i])
       /\ IF i = Len(toClient[c]) THEN toClient[c][i].kind \in kinds
                                  ELSE toClient[c][i].kind = "log"

\* The compiler has sent its start line.
Starting(c) ==
  \/ Sent(c) /\ srv[c] \in {"backlog", "first", "done"}
  \/ Empty(c) /\ srv[c] \in {"acquire", "reject", "open", "reset"}
  \/ Heard(c, {"ready"}) /\ srv[c] \in {"printed", "await"}
  \/ Heard(c, {"busy", "err"}) /\ srv[c] \in {"closing", "closed", "done"}

\* It has sent a request, and perhaps given up waiting.
Asking(c) ==
  \/ Sent(c) /\ srv[c] \in {"printed", "await", "asking", "ask"}
  \/ Logged(c) /\ srv[c] \in {"handle", "loop"}
  \/ Heard(c, {"query"}) /\ srv[c] \in {"asking", "ask"}
  \/ Heard(c, {"reply"}) /\ srv[c] \in {"printed", "await"}

Place(c) ==
  \/ client[c] = "absent" /\ Empty(c) /\ srv[c] = "none"
  \/ client[c] = "connected" /\ Empty(c) /\ srv[c] \in {"backlog", "first", "done"}
  \/ client[c] = "starting" /\ Starting(c)
  \/ client[c] = "ready" /\ Empty(c) /\ srv[c] \in {"printed", "await"}
  \/ client[c] \in {"waiting", "poisoned"} /\ Asking(c)
  \/ client[c] = "asked" /\ Empty(c) /\ srv[c] \in {"asking", "ask"}

\* Whose turns are not accounted for: the compiler has left, or a stray line
\* was printed on its connection.
Exempt(c) == client[c] = "gone" \/ c \in strayed

Turn(c) == Exempt(c) \/ Place(c)
Turns   == \A c \in Conns : Turn(c)

\* Where nothing changes on a connection's wire, what is under way stays.
LEMMA WireKept ==
  ASSUME NEW c, toServer'[c] = toServer[c], toClient'[c] = toClient[c], reqs'[c] = reqs[c]
  PROVE  /\ Empty(c)' <=> Empty(c)
         /\ Sent(c)' <=> Sent(c)
         /\ Logged(c)' <=> Logged(c)
         /\ \A k : Heard(c, k)' <=> Heard(c, k)
BY DEF Empty, Sent, Logged, Heard, Own

\* Nothing that concerns the turn of connection d has changed.
Aside(d) ==
  /\ client'[d] = client[d] /\ srv'[d] = srv[d] /\ reqs'[d] = reqs[d]
  /\ toServer'[d] = toServer[d] /\ toClient'[d] = toClient[d]

\* Where nothing changes on a connection at all, its turn stays.
LEMMA TurnKept ==
  ASSUME NEW c, Aside(c), strayed \subseteq strayed', Turn(c)
  PROVE  Turn(c)'
<1>1. /\ Empty(c)' <=> Empty(c)
      /\ Sent(c)' <=> Sent(c)
      /\ Logged(c)' <=> Logged(c)
      /\ \A k : Heard(c, k)' <=> Heard(c, k)
  BY WireKept DEF Aside
<1> QED BY <1>1 DEF Turn, Exempt, Place, Starting, Asking, Aside

\* A sequence of one line is that line.
LEMMA OneLine ==
  ASSUME NEW s \in Seq(Lines), Len(s) = 1
  PROVE  Tail(s) = <<>> /\ Head(s) = s[1]
<1>1. s # <<>> /\ Head(s) = s[1]
  OBVIOUS
<1>2. Tail(s) \in Seq(Lines) /\ Len(Tail(s)) = 0
  BY <1>1, HeadTailProperties
<1> QED BY <1>1, <1>2, EmptySeq

\* The first line of a sequence that has one, and what is left without it.
LEMMA FirstLine ==
  ASSUME NEW s \in Seq(Lines), s # <<>>
  PROVE  /\ Len(s) \in Nat /\ Len(s) >= 1 /\ Head(s) = s[1]
         /\ Tail(s) \in Seq(Lines) /\ Len(Tail(s)) = Len(s) - 1
         /\ \A i \in 1..Len(Tail(s)) : Tail(s)[i] = s[i + 1]
<1>1. Len(s) \in Nat /\ Len(s) >= 1 /\ Head(s) = s[1]
  BY EmptySeq
<1> QED BY <1>1, HeadTailProperties

\* A line to the daemon: written ...
LEMMA SendTurn ==
  ASSUME WireTypes, NEW c \in Conns, Empty(c), NEW l \in Lines,
         toServer' = [toServer EXCEPT ![c] = Append(@, l)], UNCHANGED toClient
  PROVE  Sent(c)' /\ \A d \in Conns : d # c => toServer'[d] = toServer[d]
BY DEF Sent, Empty, WireTypes

\* ... and read.
LEMMA TakeTurn ==
  ASSUME WireTypes, NEW c \in Conns, Sent(c),
         toServer' = [toServer EXCEPT ![c] = Tail(@)], UNCHANGED toClient
  PROVE  /\ Empty(c)' /\ Logged(c)'
         /\ \A d \in Conns : d # c => toServer'[d] = toServer[d]
<1>1. toServer[c] \in Seq(Lines) /\ Len(toServer[c]) = 1
  BY DEF WireTypes, Sent
<1>2. Tail(toServer[c]) = <<>>
  BY <1>1, OneLine
<1>3. Empty(c)' /\ \A d \in Conns : d # c => toServer'[d] = toServer[d]
  BY <1>2 DEF Sent, Empty, WireTypes
<1>4. Len(<<>>) = 0
  OBVIOUS
<1> QED BY <1>3, <1>4 DEF Empty, Logged

\* A line to the compiler: printed after output of the macro ...
LEMMA PrintTurn ==
  ASSUME WireTypes, NEW c \in Conns, Logged(c), Open(c), srv[c] \notin {"closed", "done"},
         NEW l \in Lines, Own(c, l), Println(c, l), UNCHANGED <<toServer, reqs>>
  PROVE  /\ l.kind = "log" => Logged(c)'
         /\ \A k : l.kind \in k => Heard(c, k)'
         /\ \A d \in Conns : d # c => toClient'[d] = toClient[d]
<1>1. toClient' = [toClient EXCEPT ![c] = Append(toClient[c], l)] /\ toClient[c] \in Seq(Lines)
  BY DEF Println, WireTypes
<1>2. toClient'[c] = Append(toClient[c], l) /\ \A d \in Conns : d # c => toClient'[d] = toClient[d]
  BY <1>1 DEF WireTypes
<1> DEFINE s == toClient[c]
           t == Append(s, l)
<1>3. /\ Len(s) \in Nat /\ Len(t) = Len(s) + 1 /\ t[Len(s) + 1] = l
      /\ \A i \in 1..Len(s) : t[i] = s[i]
  BY <1>1
<1>4. \A i \in 1..Len(t) : i = Len(s) + 1 \/ i \in 1..Len(s)
  BY <1>3
<1>5. \A i \in 1..Len(s) : Own(c, s[i]) /\ s[i].kind = "log"
  BY DEF Logged
<1>6. t # <<>>
  BY <1>1
<1>7. toClient'[c] = t /\ toServer'[c] = <<>> /\ reqs' = reqs
  BY <1>2 DEF Logged
<1> HIDE DEF t, s
<1>8. \A i \in 1..Len(t) : /\ Own(c, t[i])
                           /\ IF i = Len(t) THEN t[i] = l ELSE t[i].kind = "log"
  BY <1>3, <1>4, <1>5
<1>9. l.kind = "log" => Logged(c)'
  BY <1>7, <1>8 DEF Logged, Own
<1>10. \A k : l.kind \in k => Heard(c, k)'
  BY <1>6, <1>7, <1>8 DEF Heard, Own
<1> QED BY <1>2, <1>9, <1>10

\* ... and read: output of the macro ...
LEMMA HearLog ==
  ASSUME WireTypes, NEW c \in Conns, Logged(c), toClient[c] # <<>>,
         toClient' = [toClient EXCEPT ![c] = Tail(@)], UNCHANGED <<toServer, reqs>>
  PROVE  Logged(c)' /\ Head(toClient[c]).kind = "log"
<1> DEFINE s == toClient[c]
           t == Tail(s)
<1>0. s \in Seq(Lines) /\ toClient'[c] = t
  BY DEF WireTypes
<1>1. /\ Len(s) \in Nat /\ Len(s) >= 1 /\ Head(s) = s[1] /\ Len(t) = Len(s) - 1
      /\ \A i \in 1..Len(t) : t[i] = s[i + 1]
  BY <1>0, FirstLine
<1>2. /\ toServer[c] = <<>>
      /\ \A i \in 1..Len(s) : Own(c, s[i]) /\ s[i].kind = "log"
  BY DEF Logged
<1>3. toServer'[c] = <<>> /\ reqs' = reqs
  BY <1>2
<1> HIDE DEF t, s
<1>4. 1 \in 1..Len(s) /\ \A i \in 1..Len(t) : i + 1 \in 1..Len(s)
  BY <1>1
<1>5. \A i \in 1..Len(t) : Own(c, t[i]) /\ t[i].kind = "log"
  BY <1>1, <1>2, <1>4
<1>6. Logged(c)'
  BY <1>0, <1>3, <1>5 DEF Logged, Own
<1> QED BY <1>1, <1>2, <1>4, <1>6 DEF s

\* ... or the line after it.
LEMMA HearTurn ==
  ASSUME WireTypes, NEW c \in Conns, NEW k, Heard(c, k),
         toClient' = [toClient EXCEPT ![c] = Tail(@)], UNCHANGED <<toServer, reqs>>
  PROVE  \/ Empty(c)' /\ Head(toClient[c]).kind \in k
         \/ Heard(c, k)' /\ Head(toClient[c]).kind = "log"
<1> DEFINE s == toClient[c]
           t == Tail(s)
<1>0. s \in Seq(Lines) /\ toClient'[c] = t /\ s # <<>>
  BY DEF WireTypes, Heard
<1>1. /\ Len(s) \in Nat /\ Len(s) >= 1 /\ Head(s) = s[1] /\ Len(t) = Len(s) - 1
      /\ \A i \in 1..Len(t) : t[i] = s[i + 1]
  BY <1>0, FirstLine
<1>2. /\ toServer[c] = <<>>
      /\ \A i \in 1..Len(s) : /\ Own(c, s[i])
                              /\ IF i = Len(s) THEN s[i].kind \in k ELSE s[i].kind = "log"
  BY DEF Heard
<1>3. toServer'[c] = <<>> /\ reqs' = reqs
  BY <1>2
<1>7. t \in Seq(Lines)
  BY <1>0, FirstLine
<1> HIDE DEF t, s
<1>4. 1 \in 1..Len(s) /\ \A i \in 1..Len(t) : i + 1 \in 1..Len(s)
  BY <1>1
<1>5. CASE Len(s) = 1
  <2>1. t = <<>>
    BY <1>1, <1>5, <1>7, EmptySeq
  <2>2. Empty(c)'
    BY <1>0, <1>3, <2>1 DEF Empty
  <2> QED BY <1>1, <1>2, <1>4, <1>5, <2>2 DEF s
<1>6. CASE Len(s) # 1
  <2>1. t # <<>>
    <3>1. Len(t) # 0
      BY <1>1, <1>6
    <3>2. Len(<<>>) = 0
      OBVIOUS
    <3> QED BY <3>1, <3>2
  <2>2. \A i \in 1..Len(t) : Own(c, t[i])
    BY <1>1, <1>2, <1>4
  <2>4. \A i \in 1..Len(t) : IF i = Len(t) THEN t[i].kind \in k ELSE t[i].kind = "log"
    <3> SUFFICES ASSUME NEW i \in 1..Len(t)
                 PROVE  IF i = Len(t) THEN t[i].kind \in k ELSE t[i].kind = "log"
      OBVIOUS
    <3>1. t[i] = s[i + 1] /\ i + 1 \in 1..Len(s) /\ (i = Len(t) <=> i + 1 = Len(s))
      BY <1>1, <1>4
    <3> QED BY <1>2, <3>1
  <2>3. Heard(c, k)'
    BY <1>0, <1>3, <2>1, <2>2, <2>4 DEF Heard, Own
  <2> QED BY <1>1, <1>2, <1>4, <1>6, <2>3 DEF s
<1> QED BY <1>5, <1>6

\* What is under way is one thing at a time.
LEMMA OneThing ==
  ASSUME NEW c
  PROVE  /\ Empty(c) => ~Sent(c) /\ toClient[c] = <<>> /\ toServer[c] = <<>> /\ Logged(c)
         /\ Sent(c) => toServer[c] # <<>> /\ toClient[c] = <<>>
         /\ Logged(c) => toServer[c] = <<>>
         /\ \A k : Heard(c, k) => toServer[c] = <<>> /\ toClient[c] # <<>> /\ ~Empty(c)
                                  /\ ~Sent(c)
<1>1. Len(<<>>) = 0 /\ 1..0 = {}
  OBVIOUS
<1> QED BY <1>1 DEF Empty, Sent, Logged, Heard

\* Printing on one connection leaves the others' wires alone.
LEMMA PrintAside ==
  ASSUME WireTypes, NEW c, NEW l, Println(c, l)
  PROVE  \A d \in Conns : d # c => toClient'[d] = toClient[d]
BY DEF Println, WireTypes

\* The compiler's steps on its own connection keep the turns.
LEMMA ClientTurns ==
  ASSUME IInv, Turns, NEW c \in Conns,
         \/ SendStart(c) \/ ReadHello(c) \/ ReadReply(c) \/ AnswerQuery(c) \/ SendRequest(c)
         \/ Terminate(c) \/ Connect(c) \/ AbandonStart(c) \/ TimeOut(c) \/ Killed(c)
  PROVE  Turn(c)' /\ \A d \in Conns : d # c => Aside(d)
<1>0. WireTypes /\ ClientTypes /\ SessionTypes /\ Turn(c)
  BY DEF IInv, TypeOK, Turns
<1>1. client' = [client EXCEPT ![c] = client'[c]] /\ client \in [Conns -> {"absent", "gone"} \cup HasPeer]
  BY <1>0 DEF SendStart, ReadHello, ReadReply, AnswerQuery, SendRequest, Terminate, Connect,
         AbandonStart, TimeOut, Killed, ClientTypes
<1>2. \A d \in Conns : d # c => Aside(d)
  BY <1>0 DEF SendStart, ReadHello, ReadReply, AnswerQuery, SendRequest, Terminate, Connect,
         AbandonStart, TimeOut, Killed, ClientTypes, WireTypes, SessionTypes, Aside, wire
<1>12. strayed' = strayed
  BY DEF SendStart, ReadHello, ReadReply, AnswerQuery, SendRequest, Terminate, Connect,
         AbandonStart, TimeOut, Killed, session, streams
<1>3. CASE client'[c] = "gone" \/ c \in strayed
  BY <1>2, <1>3, <1>12 DEF Turn, Exempt
<1>13. ASSUME c \notin strayed, client[c] # "gone" PROVE Place(c)
  BY <1>0, <1>13 DEF Turn, Exempt
<1>14. ASSUME c \notin strayed PROVE Turn(c)'
  <2> USE <1>14
  <2>0. ASSUME Place(c)' PROVE Turn(c)'
    BY <2>0 DEF Turn
  <2>4. CASE SendStart(c)
    <3>1. client[c] = "connected" /\ client'[c] = "starting" /\ srv' = srv
      BY <1>0, <2>4 DEF SendStart, ClientTypes
    <3>2. Empty(c) /\ srv[c] \in {"backlog", "first", "done"}
      BY <1>13, <3>1 DEF Place
    <3>3. Line("start", c, 0) \in Lines
      BY LineType
    <3>4. Sent(c)'
      BY <1>0, <2>4, <3>2, <3>3, SendTurn DEF SendStart
    <3> QED BY <2>0, <3>1, <3>2, <3>4 DEF Place, Starting
  <2>5. CASE ReadHello(c)
    <3>1. client[c] = "starting" /\ srv' = srv /\ reqs' = reqs /\ toServer' = toServer
      BY <2>5 DEF ReadHello
    <3>6. Starting(c)
      BY <1>13, <3>1 DEF Place
    <3>2. CASE toClient[c] # <<>> /\ toClient' = [toClient EXCEPT ![c] = Tail(@)]
               /\ client'[c] = (IF Head(toClient[c]).kind = "ready" THEN "ready" ELSE "gone")
      <4>1. ASSUME Heard(c, {"ready"}), srv[c] \in {"printed", "await"} PROVE Turn(c)'
        <5>1. \/ Empty(c)' /\ Head(toClient[c]).kind \in {"ready"}
              \/ Head(toClient[c]).kind = "log"
          BY <1>0, <3>1, <3>2, <4>1, HearTurn
        <5> QED BY <1>3, <2>0, <3>1, <3>2, <4>1, <5>1 DEF Place
      <4>2. ASSUME Heard(c, {"busy", "err"}) PROVE Turn(c)'
        <5>1. Head(toClient[c]).kind \in {"busy", "err", "log"}
          BY <1>0, <3>1, <3>2, <4>2, HearTurn
        <5> QED BY <1>3, <3>2, <5>1
      <4> QED BY <3>6, <3>2, <4>1, <4>2, OneThing DEF Starting
    <3>3. CASE client'[c] = "gone"
      BY <1>3, <3>3
    <3> QED BY <1>0, <2>5, <3>2, <3>3 DEF ReadHello, ClientTypes
  <2>6. CASE ReadReply(c)
    <3>1. client[c] = "waiting" /\ srv' = srv /\ reqs' = reqs /\ toServer' = toServer
      BY <2>6 DEF ReadReply
    <3>6. Asking(c)
      BY <1>13, <3>1 DEF Place
    <3>2. CASE toClient[c] # <<>> /\ toClient' = [toClient EXCEPT ![c] = Tail(@)]
               /\ client'[c] = AfterLine(Head(toClient[c]).kind)
      <4>1. ASSUME Heard(c, {"query"}), srv[c] \in {"asking", "ask"} PROVE Turn(c)'
        <5>1. \/ Empty(c)' /\ client'[c] = "asked"
              \/ Heard(c, {"query"})' /\ client'[c] = "waiting"
          BY <1>0, <3>1, <3>2, <4>1, HearTurn DEF AfterLine
        <5> QED BY <2>0, <3>1, <4>1, <5>1 DEF Place, Asking
      <4>2. ASSUME Heard(c, {"reply"}), srv[c] \in {"printed", "await"} PROVE Turn(c)'
        <5>1. \/ Empty(c)' /\ client'[c] = "ready"
              \/ Heard(c, {"reply"})' /\ client'[c] = "waiting"
          BY <1>0, <3>1, <3>2, <4>2, HearTurn DEF AfterLine
        <5> QED BY <2>0, <3>1, <4>2, <5>1 DEF Place, Asking
      <4>3. ASSUME Logged(c), srv[c] \in {"handle", "loop"} PROVE Turn(c)'
        <5>1. Logged(c)' /\ client'[c] = "waiting"
          BY <1>0, <3>1, <3>2, <4>3, HearLog DEF AfterLine
        <5> QED BY <2>0, <3>1, <4>3, <5>1 DEF Place, Asking
      <4> QED BY <3>6, <3>2, <4>1, <4>2, <4>3, OneThing DEF Asking
    <3>3. CASE client'[c] = "poisoned" /\ UNCHANGED <<toClient, toServer>>
      BY <2>0, <3>1, <3>6, <3>3, WireKept DEF Place, Asking
    <3> QED BY <1>0, <2>6, <3>2, <3>3 DEF ReadReply, ClientTypes
  <2>7. CASE AnswerQuery(c)
    <3>1. client[c] = "asked" /\ client'[c] = "waiting" /\ srv' = srv
      BY <1>0, <2>7 DEF AnswerQuery, ClientTypes
    <3>2. Empty(c) /\ srv[c] \in {"asking", "ask"}
      BY <1>13, <3>1 DEF Place
    <3>3. Line("answer", c, reqs[c]) \in Lines
      BY <1>0, LineType DEF ClientTypes
    <3>4. Sent(c)'
      BY <1>0, <2>7, <3>2, <3>3, SendTurn DEF AnswerQuery
    <3> QED BY <2>0, <3>1, <3>2, <3>4 DEF Place, Asking
  <2>8. CASE SendRequest(c)
    <3>1. client[c] = "ready" /\ client'[c] = "waiting" /\ srv' = srv
      BY <1>0, <2>8 DEF SendRequest, ClientTypes
    <3>2. Empty(c) /\ srv[c] \in {"printed", "await"}
      BY <1>13, <3>1 DEF Place
    <3>3. reqs[c] + 1 \in 0..MaxRequests
      BY <1>0, <2>8 DEF SendRequest, ClientTypes
    <3>4. Line("expand", c, reqs[c] + 1) \in Lines
      BY <3>3, LineType
    <3>5. Sent(c)'
      BY <1>0, <2>8, <3>2, <3>4, SendTurn DEF SendRequest
    <3> QED BY <2>0, <3>1, <3>2, <3>5 DEF Place, Asking
  <2>9. CASE Terminate(c) \/ AbandonStart(c) \/ Killed(c)
    <3>1. client'[c] = "gone"
      BY <1>0, <2>9 DEF Terminate, AbandonStart, Killed, ClientTypes
    <3> QED BY <1>3, <3>1
  <2>10. CASE Connect(c)
    <3>1. client[c] = "absent" /\ client'[c] = "connected" /\ srv'[c] = "backlog"
          /\ UNCHANGED <<reqs, toServer, toClient>>
      BY <1>0, <2>10 DEF Connect, ClientTypes, SessionTypes, wire
    <3>2. Empty(c)
      BY <1>13, <3>1 DEF Place
    <3> QED BY <2>0, <3>1, <3>2, WireKept DEF Place
  <2>11. CASE TimeOut(c)
    <3>1. client[c] = "waiting" /\ client'[c] = "poisoned" /\ UNCHANGED <<srv, reqs, toServer, toClient>>
      BY <1>0, <2>11 DEF TimeOut, ClientTypes, wire
    <3>2. Asking(c)
      BY <1>13, <3>1 DEF Place
    <3> QED BY <2>0, <3>1, <3>2, WireKept DEF Place, Asking
  <2> QED BY <2>4, <2>5, <2>6, <2>7, <2>8, <2>9, <2>10, <2>11
<1> QED BY <1>2, <1>3, <1>14

\* The daemon's steps on a connection keep the turns; the connection that the
\* catch clause of another worker prints on is marked as strayed.
LEMMA DaemonTurns ==
  ASSUME IInv, Turns, NEW c \in Conns,
         \/ MacroPrints(c) \/ AskScalaRs(c) \/ Reply(c) \/ MacroLoops(c) \/ TryAcquire(c)
         \/ AcquireTimesOut(c) \/ RejectBusy(c) \/ TakeStreams(c) \/ ResetRun(c)
         \/ AwaitScalaRs(c) \/ ReadRequest(c) \/ ReadAnswer(c)
         \/ CloseSession(c) \/ Release(c) \/ AcceptTcp(c) \/ AcceptUnix(c) \/ ReadStart(c)
         \/ StartTimesOut(c)
  PROVE  /\ Turn(c)' /\ strayed \subseteq strayed'
         /\ \A d \in Conns : d # c => Aside(d) \/ d \in strayed'
<1>0. /\ WireTypes /\ SessionTypes /\ ClientTypes /\ Turn(c)
      /\ srv[c] \in Serving \cup {"reset"} => inOwner = c /\ outOwner = c
  BY DEF IInv, TypeOK, Turns, OwnStreams
<1>1. /\ UNCHANGED <<client, reqs>> /\ srv' = [srv EXCEPT ![c] = srv'[c]]
      /\ \A d \in Conns : d # c => srv'[d] = srv[d]
  BY <1>0 DEF MacroPrints, AskScalaRs, Reply, MacroLoops, TryAcquire, AcquireTimesOut, RejectBusy,
         TakeStreams, ResetRun, AwaitScalaRs, ReadRequest, ReadAnswer, CloseSession, Release,
         AcceptTcp, AcceptUnix, ReadStart, StartTimesOut, clientVars, SessionTypes
<1>11. strayed \subseteq strayed'
  BY DEF MacroPrints, AskScalaRs, Reply, MacroLoops, TryAcquire, AcquireTimesOut, RejectBusy,
         TakeStreams, ResetRun, AwaitScalaRs, ReadRequest, ReadAnswer, CloseSession, Release,
         AcceptTcp, AcceptUnix, ReadStart, StartTimesOut, session, streams
<1>2. Exempt(c) => Turn(c)'
  BY <1>1, <1>11 DEF Turn, Exempt
<1>3. ~Exempt(c) => Place(c) /\ (srv[c] # "none" => Open(c))
  BY <1>0 DEF Turn, Exempt, Place, Open, HasPeer, ClientTypes
<1>12. Place(c)' => Turn(c)'
  BY DEF Turn
<1>4. CASE /\ UNCHANGED <<toServer, toClient>>
           /\ \/ MacroLoops(c) \/ TryAcquire(c) \/ AcquireTimesOut(c) \/ TakeStreams(c)
              \/ AwaitScalaRs(c) \/ CloseSession(c) \/ Release(c) \/ AcceptTcp(c) \/ AcceptUnix(c)
              \/ StartTimesOut(c)
  <2>1. \/ srv[c] = "handle" /\ srv'[c] = "loop"
        \/ srv[c] = "printed" /\ srv'[c] = "await"
        \/ srv[c] = "asking" /\ srv'[c] = "ask"
        \/ srv[c] \in {"acquire", "open"} /\ srv'[c] \in {"open", "reject", "reset"}
        \/ srv[c] \in {"closing", "closed"} /\ srv'[c] \in {"closed", "done"}
        \/ srv[c] \in {"backlog", "first"} /\ srv'[c] \in {"first", "done"}
    BY <1>0, <1>4 DEF MacroLoops, TryAcquire, AcquireTimesOut, TakeStreams, AwaitScalaRs,
                      CloseSession, Release, AcceptTcp, AcceptUnix, StartTimesOut, SessionTypes
  <2>2. ~Exempt(c) => Place(c)'
    <3>1. /\ Empty(c)' <=> Empty(c)
          /\ Sent(c)' <=> Sent(c)
          /\ Logged(c)' <=> Logged(c)
          /\ \A k : Heard(c, k)' <=> Heard(c, k)
      BY <1>1, <1>4, WireKept
    <3> QED BY <1>3, <1>1, <2>1, <3>1 DEF Place, Starting, Asking
  <2>3. \A d \in Conns : d # c => Aside(d)
    BY <1>1, <1>4 DEF Aside
  <2> QED BY <1>2, <1>11, <1>12, <2>2, <2>3
<1>5. CASE ReadStart(c)
  <2>1. srv[c] = "first" /\ toClient' = toClient
    BY <1>5 DEF ReadStart
  <2>2. \A d \in Conns : d # c => toServer'[d] = toServer[d]
    BY <1>0, <1>5 DEF ReadStart, WireTypes
  <2>3. CASE toServer[c] # <<>> /\ toServer' = [toServer EXCEPT ![c] = Tail(@)]
             /\ srv'[c] = "acquire"
    <3>1. ~Exempt(c) => client[c] = "starting" /\ Sent(c)
      BY <1>3, <2>1, <2>3, OneThing DEF Place, Starting, Asking
    <3>2. ~Exempt(c) => Empty(c)'
      BY <1>0, <2>1, <2>3, <3>1, TakeTurn
    <3>3. ~Exempt(c) => Place(c)'
      BY <1>1, <2>3, <3>1, <3>2 DEF Place, Starting
    <3> QED BY <1>1, <1>2, <1>11, <1>12, <2>1, <2>2, <3>3 DEF Aside
  <2>4. CASE ~Open(c)
    <3>1. Exempt(c)
      BY <1>3, <2>1, <2>4
    <3> QED BY <1>1, <1>2, <1>11, <2>1, <2>2, <3>1 DEF Aside
  <2> QED BY <1>0, <1>5, <2>3, <2>4 DEF ReadStart, SessionTypes
<1>6. CASE ReadRequest(c) \/ ReadAnswer(c)
  <2>1. srv[c] \in {"await", "ask"} /\ inOwner = c /\ toClient' = toClient
    BY <1>0, <1>6 DEF ReadRequest, ReadAnswer, Serving
  <2>2. \A d \in Conns : d # c => toServer'[d] = toServer[d]
    BY <1>0, <1>6, <2>1 DEF ReadRequest, ReadAnswer, WireTypes
  <2>3. CASE toServer[c] # <<>> /\ toServer' = [toServer EXCEPT ![c] = Tail(@)]
             /\ srv'[c] = "handle"
    <3>1. ~Exempt(c) => client[c] \in {"waiting", "poisoned"} /\ Sent(c)
      BY <1>3, <2>1, <2>3, OneThing DEF Place, Starting, Asking
    <3>2. ~Exempt(c) => Logged(c)'
      BY <1>0, <2>1, <2>3, <3>1, TakeTurn
    <3>3. ~Exempt(c) => Place(c)'
      BY <1>1, <2>3, <3>1, <3>2 DEF Place, Asking
    <3> QED BY <1>1, <1>2, <1>11, <1>12, <2>1, <2>2, <3>3 DEF Aside
  <2>4. CASE ~Open(c)
    <3>1. Exempt(c)
      BY <1>3, <2>1, <2>4
    <3> QED BY <1>1, <1>2, <1>11, <2>1, <2>2, <3>1 DEF Aside
  <2> QED BY <1>0, <1>6, <2>1, <2>3, <2>4 DEF ReadRequest, ReadAnswer, SessionTypes
<1>7. ASSUME NEW l \in Lines, Println(c, l), toServer' = toServer, Own(c, l),
             srv[c] \notin {"none", "closed", "done"},
             ~Exempt(c) => Logged(c),
             ~Exempt(c) /\ (l.kind = "log" => Logged(c)') /\ (\A k : l.kind \in k => Heard(c, k)')
               => Place(c)'
      PROVE  Turn(c)' /\ \A d \in Conns : d # c => Aside(d)
  <2>1. \A d \in Conns : d # c => toClient'[d] = toClient[d]
    BY <1>0, <1>7, PrintAside
  <2>2. ~Exempt(c) => Open(c)
    BY <1>3, <1>7
  <2>3. ~Exempt(c) => (l.kind = "log" => Logged(c)') /\ (\A k : l.kind \in k => Heard(c, k)')
    BY <1>0, <1>1, <1>7, <2>2, PrintTurn
  <2>4. \A d \in Conns : d # c => Aside(d)
    BY <1>1, <1>7, <2>1 DEF Aside
  <2> QED BY <1>2, <1>7, <1>12, <2>3, <2>4
<1>13. ASSUME NEW k \in {"ready", "busy", "query", "reply", "log", "err"}
       PROVE  /\ Line(k, c, reqs[c]) \in Lines /\ Line(k, c, 0) \in Lines
              /\ Own(c, Line(k, c, reqs[c])) /\ Line(k, c, reqs[c]).kind = k
              /\ k \in {"ready", "busy", "err"} => Own(c, Line(k, c, 0))
              /\ Line(k, c, 0).kind = k
  <2>1. reqs[c] \in 0..MaxRequests
    BY <1>0 DEF ClientTypes
  <2>2. Line(k, c, reqs[c]) \in Lines /\ Line(k, c, 0) \in Lines
    BY <2>1, LineType
  <2> QED BY <2>2 DEF Line, Own
<1>8. CASE MacroPrints(c) \/ AskScalaRs(c) \/ Reply(c)
  <2>1. /\ srv[c] = "handle" /\ toServer' = toServer
        /\ \/ Println(c, Line("log", c, reqs[c])) /\ srv'[c] = "handle"
           \/ Println(c, Line("query", c, reqs[c])) /\ srv'[c] = "asking"
           \/ Println(c, Line("reply", c, reqs[c])) /\ srv'[c] = "printed"
    BY <1>0, <1>8 DEF MacroPrints, AskScalaRs, Reply, Serving, SessionTypes
  <2>2. ~Exempt(c) => Logged(c) /\ client[c] \in {"waiting", "poisoned"}
    BY <1>3, <2>1, OneThing DEF Place, Starting, Asking
  <2>3. ~Exempt(c) /\ srv'[c] = "handle" /\ Logged(c)' => Place(c)'
    BY <1>1, <2>2 DEF Place, Asking
  <2>4. ~Exempt(c) /\ srv'[c] = "asking" /\ Heard(c, {"query"})' => Place(c)'
    BY <1>1, <2>2 DEF Place, Asking
  <2>5. ~Exempt(c) /\ srv'[c] = "printed" /\ Heard(c, {"reply"})' => Place(c)'
    BY <1>1, <2>2 DEF Place, Asking
  <2>6. CASE Println(c, Line("log", c, reqs[c])) /\ srv'[c] = "handle"
    BY <1>7, <1>11, <1>13, <2>1, <2>2, <2>3, <2>6
  <2>7. CASE Println(c, Line("query", c, reqs[c])) /\ srv'[c] = "asking"
    <3>1. Line("query", c, reqs[c]).kind \in {"query"}
      BY <1>13
    <3> QED BY <1>7, <1>11, <1>13, <2>1, <2>2, <2>4, <2>7, <3>1
  <2>8. CASE Println(c, Line("reply", c, reqs[c])) /\ srv'[c] = "printed"
    <3>1. Line("reply", c, reqs[c]).kind \in {"reply"}
      BY <1>13
    <3> QED BY <1>7, <1>11, <1>13, <2>1, <2>2, <2>5, <2>8, <3>1
  <2> QED BY <2>1, <2>6, <2>7, <2>8
<1>9. CASE ResetRun(c)
  <2>1. /\ srv[c] = "reset" /\ toServer' = toServer
        /\ \/ Println(c, Line("ready", c, 0)) /\ srv'[c] = "printed"
           \/ Println(c, Line("err", c, 0)) /\ srv'[c] = "closing"
    BY <1>0, <1>9 DEF ResetRun, Serving, SessionTypes
  <2>2. ~Exempt(c) => Logged(c) /\ client[c] = "starting"
    BY <1>3, <2>1, OneThing DEF Place, Starting, Asking
  <2>3. ~Exempt(c) /\ srv'[c] = "printed" /\ Heard(c, {"ready"})' => Place(c)'
    BY <1>1, <2>2 DEF Place, Starting
  <2>4. ~Exempt(c) /\ srv'[c] = "closing" /\ Heard(c, {"busy", "err"})' => Place(c)'
    BY <1>1, <2>2 DEF Place, Starting
  <2>5. CASE Println(c, Line("ready", c, 0)) /\ srv'[c] = "printed"
    <3>1. Line("ready", c, 0).kind \in {"ready"}
      BY <1>13
    <3> QED BY <1>7, <1>11, <1>13, <2>1, <2>2, <2>3, <2>5, <3>1
  <2>6. CASE Println(c, Line("err", c, 0)) /\ srv'[c] = "closing"
    <3>1. Line("err", c, 0).kind \in {"busy", "err"}
      BY <1>13
    <3> QED BY <1>7, <1>11, <1>13, <2>1, <2>2, <2>4, <2>6, <3>1
  <2> QED BY <2>1, <2>5, <2>6
<1>10. CASE RejectBusy(c)
  <2>1. srv[c] = "reject" /\ toServer' = toServer /\ srv'[c] = "closing"
    BY <1>0, <1>10 DEF RejectBusy, SessionTypes
  <2>2. ~Exempt(c) => Logged(c) /\ client[c] = "starting"
    BY <1>3, <2>1, OneThing DEF Place, Starting, Asking
  <2>3. ~Exempt(c) /\ srv'[c] = "closing" /\ Heard(c, {"busy", "err"})' => Place(c)'
    BY <1>1, <2>2 DEF Place, Starting
  <2>4. CASE Println(c, Line("busy", c, 0))
    <3>1. Line("busy", c, 0).kind \in {"busy", "err"}
      BY <1>13
    <3> QED BY <1>7, <1>11, <1>13, <2>1, <2>2, <2>3, <2>4, <3>1
  <2>5. CASE ~Open(c)
    <3>1. Exempt(c)
      BY <1>3, <2>1, <2>5
    <3>2. CASE toClient' = toClient
      BY <1>1, <1>2, <1>11, <2>1, <3>1, <3>2 DEF Aside
    <3>3. CASE Println(outOwner, Line("err", c, 0)) /\ strayed' = strayed \cup {outOwner}
      <4>1. \A d \in Conns : d # outOwner => toClient'[d] = toClient[d]
        BY <1>0, <3>3, PrintAside
      <4>2. \A d \in Conns : d # c => Aside(d) \/ d \in strayed'
        BY <1>1, <2>1, <3>3, <4>1 DEF Aside
      <4> QED BY <1>2, <1>11, <3>1, <4>2
    <3> QED BY <1>10, <2>5, <3>2, <3>3 DEF RejectBusy
  <2> QED BY <1>10, <2>4, <2>5 DEF RejectBusy
<1> QED
  BY <1>4, <1>5, <1>6, <1>8, <1>9, <1>10
     DEF MacroLoops, TryAcquire, AcquireTimesOut, TakeStreams, AwaitScalaRs, CloseSession, Release,
         AcceptTcp, AcceptUnix, StartTimesOut, wire

\* Every step keeps the turns.
LEMMA TurnStep == IInv /\ Turns /\ [Next]_vars => Turns'
<1> SUFFICES ASSUME IInv, Turns, [Next]_vars PROVE Turns'
  OBVIOUS
<1>1. ASSUME NEW d \in Conns, Aside(d), strayed \subseteq strayed' PROVE Turn(d)'
  BY <1>1, TurnKept DEF Turns
<1>6. ASSUME NEW d \in strayed' PROVE Turn(d)'
  BY <1>6 DEF Turn, Exempt
<1>2. ASSUME NEW c \in Conns, ClientStep(c) \/ ClientChoice(c) PROVE Turns'
  <2>1. Turn(c)' /\ \A d \in Conns : d # c => Aside(d)
    BY <1>2, ClientTurns DEF ClientStep, ClientChoice
  <2>2. strayed \subseteq strayed'
    BY <1>2 DEF ClientStep, ClientChoice, SendStart, ReadHello, ReadReply, AnswerQuery,
                SendRequest, Terminate, Connect, AbandonStart, TimeOut, Killed, session, streams
  <2> QED BY <1>1, <2>1, <2>2 DEF Turns
<1>3. ASSUME NEW c \in Conns, MacroStep(c) \/ WorkerStep(c) \/ AcceptorStep(c), ~AcceptShutdown(c)
      PROVE  Turns'
  <2>1. /\ Turn(c)' /\ strayed \subseteq strayed'
        /\ \A d \in Conns : d # c => Aside(d) \/ d \in strayed'
    BY <1>3, DaemonTurns DEF MacroStep, WorkerStep, AcceptorStep
  <2> QED BY <1>1, <1>6, <2>1 DEF Turns
<1>4. CASE CloseUnix
  <2>1. ASSUME NEW d \in Conns PROVE Turn(d)'
    <3>1. /\ UNCHANGED <<client, reqs, toServer, toClient, strayed>>
          /\ srv'[d] = srv[d] \/ (srv[d] = "backlog" /\ srv'[d] = "done")
      BY <1>4 DEF CloseUnix, wire, session, streams
    <3>2. CASE srv'[d] = srv[d]
      BY <1>1, <3>1, <3>2 DEF Aside
    <3>3. CASE srv[d] = "backlog" /\ srv'[d] = "done"
      <4>1. /\ Empty(d)' <=> Empty(d)
            /\ Sent(d)' <=> Sent(d)
        BY <3>1, WireKept
      <4> QED BY <3>1, <3>3, <4>1 DEF Turns, Turn, Exempt, Place, Starting, Asking
    <3> QED BY <3>1, <3>2, <3>3
  <2> QED BY <2>1 DEF Turns
<1>5. CASE (\E c \in Conns : AcceptShutdown(c)) \/ Probe \/ AcceptProbe \/ LeaveIdle \/ DropEndpoint
           \/ ExitIdle \/ WatchdogFires \/ WatchdogExits \/ Tick \/ UNCHANGED vars
  <2>1. UNCHANGED <<client, reqs, srv, toServer, toClient, strayed>>
    BY <1>5 DEF AcceptShutdown, Probe, AcceptProbe, LeaveIdle, DropEndpoint, ExitIdle,
                WatchdogFires, WatchdogExits, Tick, vars, clientVars, wire, session, streams
  <2> QED BY <1>1, <2>1 DEF Aside, Turns
<1> QED BY <1>2, <1>3, <1>4, <1>5 DEF Next, LeaveStep

\* Engine and compiler take turns (query, converse_with), for any number of
\* compilers and requests and any output of the macros, on every connection
\* on which no other worker has printed its own error.
THEOREM TakesTurns == Spec => []TurnTaking
<1>1. Init => Turns
  <2> SUFFICES ASSUME Init, NEW c \in Conns PROVE Turn(c)
    BY DEF Turns
  <2>1. client[c] = "absent" /\ srv[c] = "none" /\ toServer[c] = <<>> /\ toClient[c] = <<>>
    BY DEF Init
  <2> QED BY <2>1 DEF Turn, Place, Empty
<1>2. IInv /\ Turns => TurnTaking
  <2> SUFFICES ASSUME IInv, Turns, NEW c \in Conns, Open(c), c \notin strayed
               PROVE  /\ OwnLines(c)
                      /\ Len(toServer[c]) <= 1
                      /\ toServer[c] # <<>> => toClient[c] = <<>>
                      /\ \A i \in 1..Len(toClient[c]) :
                           i < Len(toClient[c]) => toClient[c][i].kind = "log"
    BY DEF TurnTaking
  <2>1. Place(c)
    BY DEF Turns, Turn, Exempt, Open, HasPeer
  <2>2. Empty(c) \/ Sent(c) \/ Logged(c) \/ \E k : Heard(c, k)
    BY <2>1 DEF Place, Starting, Asking
  <2>3. Len(<<>>) = 0 /\ 1..0 = {}
    OBVIOUS
  <2>4. CASE Empty(c)
    BY <2>3, <2>4 DEF Empty, OwnLines
  <2>5. CASE Sent(c)
    BY <2>3, <2>5 DEF Sent, OwnLines
  <2>6. CASE Logged(c)
    BY <2>3, <2>6 DEF Logged, Own, OwnLines
  <2>7. CASE \E k : Heard(c, k)
    <3>1. PICK k : Heard(c, k)
      BY <2>7
    <3>2. OwnLines(c)
      BY <3>1 DEF Heard, Own, OwnLines
    <3>3. toServer[c] = <<>>
      BY <3>1 DEF Heard
    <3>4. \A i \in 1..Len(toClient[c]) : i # Len(toClient[c]) => toClient[c][i].kind = "log"
      BY <3>1 DEF Heard
    <3>5. Len(toClient[c]) \in Nat
      BY DEF IInv, TypeOK, WireTypes
    <3> QED BY <2>3, <3>2, <3>3, <3>4, <3>5
  <2> QED BY <2>2, <2>4, <2>5, <2>6, <2>7
<1> QED
  BY <1>1, <1>2, Invariance, TurnStep, PTL DEF Spec
=============================================================================
