----------------------------- MODULE ClassWriter -----------------------------
(***************************************************************************)
(* The driver's class writer (driver/src/lib.rs): the compile generates one *)
(* unit's classes after another and hands each chunk to a pool of writer    *)
(* threads while it goes on; at the end it gets all chunks back in order,   *)
(* or takes back what was written because a unit failed the backend.        *)
(*                                                                         *)
(* A class is <<unit, index>>: the classes of a run are distinct.  A file is *)
(* abstracted to whose version it holds; a write that fails leaves the file *)
(* alone (no directory, open failed) or truncated.                          *)
(***************************************************************************)
EXTENDS Integers, Sequences

CONSTANTS
  NUnits,     \* compilation units of the run, the emitted runtime included
  Size,       \* how many classes each unit has
  Workers,    \* the writer threads (WRITE_JOBS)
  PoolMins,   \* the values of WRITE_POOL_MIN to consider
  Nobody      \* holds the receiver's lock when no writer does

Unit == 1..NUnits

ASSUME WriterConstants ==
  /\ NUnits \in Nat /\ Size \in [Unit -> Nat] /\ PoolMins \subseteq Nat \ {0}
  /\ Nobody \notin Workers /\ Workers # {}

Class == UNION {{u} \X (1..Size[u]) : u \in Unit}

VARIABLES
  poolMin,      \* WRITE_POOL_MIN, fixed: runs above and below it
  pc,           \* the compile: "emit", "inline", "join", "widen", "done"
  unit,         \* the unit it emits next
  emitFailed,
  pending,      \* units held back until the pool is worth starting
  pool,         \* the pool has been started
  nextSeq,
  jobs,         \* the job channel
  closed,       \* its sender is gone
  rx,           \* who holds the lock on the receiver
  wpc, wJob, wNext,   \* each writer: where it is, its chunk, its next class
  failed,       \* some write has failed
  done,         \* the channel of finished chunks
  emitted,      \* the units the caller got back, in the order it got them
  wide,         \* the classes that were written again
  disk,         \* what each class's file holds
  stuck,        \* the files whose removal failed
  outcome

main    == <<poolMin, pc, unit, emitFailed, pending, pool, nextSeq, closed, emitted, wide, stuck,
             outcome>>
worker  == <<wpc, wJob, wNext>>
vars    == <<main, jobs, rx, worker, failed, done, disk>>

NoJob == [seq |-> 0, unit |-> 0]
Elems(s) == {s[i] : i \in 1..Len(s)}

Init ==
  /\ poolMin \in PoolMins
  /\ pc = "emit" /\ unit = 1 /\ emitFailed = FALSE
  /\ pending = <<>> /\ pool = FALSE /\ nextSeq = 0
  /\ jobs = <<>> /\ closed = FALSE /\ rx = Nobody
  /\ wpc = [w \in Workers |-> "idle"]
  /\ wJob = [w \in Workers |-> NoJob] /\ wNext = [w \in Workers |-> 1]
  /\ failed = FALSE /\ done = <<>> /\ emitted = <<>> /\ wide = {}
  /\ stuck = {}
  /\ disk \in [Class -> {"none", "old"}]
  /\ outcome = "running"

-----------------------------------------------------------------------------
(* The compile.                                                            *)

PendingClasses(p) == LET f[i \in 0..Len(p)] == IF i = 0 THEN 0 ELSE f[i-1] + Size[p[i]]
                     IN  f[Len(p)]

\* push: straight to the pool once there is one; before that the chunk waits,
\* and the chunk that reaches the minimum starts the pool with all of them.
Push(u) ==
  \/ /\ Size[u] = 0
     /\ UNCHANGED <<pending, pool, nextSeq, jobs>>
  \/ /\ Size[u] > 0 /\ pool
     /\ jobs' = Append(jobs, [seq |-> nextSeq, unit |-> u]) /\ nextSeq' = nextSeq + 1
     /\ UNCHANGED <<pending, pool>>
  \/ /\ Size[u] > 0 /\ ~pool /\ PendingClasses(Append(pending, u)) < poolMin
     /\ pending' = Append(pending, u)
     /\ UNCHANGED <<pool, nextSeq, jobs>>
  \/ /\ Size[u] > 0 /\ ~pool /\ PendingClasses(Append(pending, u)) >= poolMin
     /\ LET p == Append(pending, u) IN
          /\ jobs' = [i \in 1..Len(p) |-> [seq |-> nextSeq + i - 1, unit |-> p[i]]]
          /\ nextSeq' = nextSeq + Len(p)
     /\ pending' = <<>> /\ pool' = TRUE

EmitUnit ==
  /\ pc = "emit" /\ unit <= NUnits
  /\ unit' = unit + 1
  /\ IF emitFailed THEN UNCHANGED <<pending, pool, nextSeq, jobs>> ELSE Push(unit)
  /\ UNCHANGED <<poolMin, stuck, pc, emitFailed, closed, rx, worker, failed, done, emitted, wide, disk, outcome>>

\* The backend rejects a unit, or a class exceeds a class file limit.
EmitFails ==
  /\ pc = "emit" /\ unit <= NUnits
  /\ unit' = unit + 1 /\ emitFailed' = TRUE
  /\ UNCHANGED <<poolMin, stuck, pc, pending, pool, nextSeq, jobs, closed, rx, worker, failed, done, emitted, wide,
                 disk, outcome>>

\* Mutant: join does not drop the sender first.
EndEmitOpen ==
  /\ pc = "emit" /\ unit > NUnits
  /\ IF pool THEN pc' = "join" /\ UNCHANGED <<closed, outcome>>
     ELSE IF emitFailed THEN pc' = "done" /\ outcome' = "withdrawn" /\ UNCHANGED closed
     ELSE pc' = "inline" /\ UNCHANGED <<closed, outcome>>
  /\ UNCHANGED <<poolMin, stuck, unit, emitFailed, pending, pool, nextSeq, jobs, rx, worker, failed, done, emitted,
                 wide, disk>>

\* discard without a pool has nothing to take back; with one, and in finish,
\* closing the job channel tells the writers to stop.
EndEmit ==
  /\ pc = "emit" /\ unit > NUnits
  /\ IF pool THEN pc' = "join" /\ closed' = TRUE /\ UNCHANGED outcome
     ELSE IF emitFailed THEN pc' = "done" /\ outcome' = "withdrawn" /\ UNCHANGED closed
     ELSE pc' = "inline" /\ UNCHANGED <<closed, outcome>>
  /\ UNCHANGED <<poolMin, stuck, unit, emitFailed, pending, pool, nextSeq, jobs, rx, worker, failed, done, emitted,
                 wide, disk>>

Before(c, d) == c[1] < d[1] \/ (c[1] = d[1] /\ c[2] < d[2])

\* Writing the classes of S as version v, one after another: all of them, or
\* up to one whose write fails.
WriteAll(S, v) ==
  /\ disk' = [c \in Class |-> IF c \in S THEN v ELSE disk[c]]
  /\ UNCHANGED failed
WriteSome(S, v) ==
  \E d \in S : \E left \in {disk[d], "cut"} :
    /\ disk' = [c \in Class |-> IF c = d THEN left
                                ELSE IF c \in S /\ Before(c, d) THEN v ELSE disk[c]]
    /\ failed' = TRUE

\* Mutant: a later successful write replaces the error.
WriteInlineForgets ==
  /\ pc = "inline"
  /\ LET S == {c \in Class : c[1] \in Elems(pending)} IN
       \/ WriteAll(S, "new")
       \/ \E d \in S : WriteAll(S \ {d}, "new")
  /\ emitted' = pending
  /\ pc' = "widen"
  /\ UNCHANGED <<poolMin, stuck, unit, emitFailed, pending, pool, nextSeq, jobs, closed, rx, worker, done, wide,
                 outcome>>

\* finish, with too few classes for a pool: the caller writes them itself.
WriteInline ==
  /\ pc = "inline"
  /\ LET S == {c \in Class : c[1] \in Elems(pending)} IN WriteAll(S, "new") \/ WriteSome(S, "new")
  /\ emitted' = pending
  /\ pc' = "widen"
  /\ UNCHANGED <<poolMin, stuck, unit, emitFailed, pending, pool, nextSeq, jobs, closed, rx, worker, done, wide,
                 outcome>>

\* Mutant: the chunks are taken in the order the writers finished them.
InArrivalOrder(chunks) == chunks

\* sort_by_key, which is stable: the order of the places that puts smaller
\* sequence numbers first, and among equal ones the earlier place.
InSeqOrder(chunks) ==
  LET Place == 1..Len(chunks)
      First(i, j) == chunks[i].seq < chunks[j].seq \/ (chunks[i].seq = chunks[j].seq /\ i < j)
      order == CHOOSE p \in [Place -> Place] : \A i, j \in Place : i < j => First(p[i], p[j])
  IN  [i \in Place |-> chunks[order[i]]]

UnitsOf(chunks) == [i \in 1..Len(chunks) |-> chunks[i].unit]

\* WritePool::join, for finish.
JoinForFinish ==
  /\ pc = "join" /\ ~emitFailed /\ \A w \in Workers : wpc[w] = "exited"
  /\ emitted' = UnitsOf(InSeqOrder(done))
  /\ pc' = "widen"
  /\ UNCHANGED <<poolMin, stuck, unit, emitFailed, pending, pool, nextSeq, jobs, closed, rx, worker, failed, done,
                 wide, disk, outcome>>

\* Delete the file of every class of the chunks that came back; a removal that
\* fails is passed over.
Remove(chunks) ==
  \E S \in SUBSET {c \in Class : \E k \in Elems(chunks) : k.unit = c[1]} :
    /\ stuck' = S
    /\ disk' = [c \in Class |-> IF c \notin S /\ \E k \in Elems(chunks) : k.unit = c[1]
                                THEN "none" ELSE disk[c]]

\* Mutant: discard deletes what is done without waiting for the writers.
DiscardAtOnce ==
  /\ pc = "join" /\ emitFailed
  /\ Remove(done)
  /\ pc' = "done" /\ outcome' = "withdrawn"
  /\ UNCHANGED <<poolMin, unit, emitFailed, pending, pool, nextSeq, jobs, closed, rx, worker, failed, done,
                 emitted, wide>>

\* WritePool::join, for discard, which deletes the files of what it got back.
JoinForDiscard ==
  /\ pc = "join" /\ emitFailed /\ \A w \in Workers : wpc[w] = "exited"
  /\ Remove(done)
  /\ pc' = "done" /\ outcome' = "withdrawn"
  /\ UNCHANGED <<poolMin, unit, emitFailed, pending, pool, nextSeq, jobs, closed, rx, worker, failed, done,
                 emitted, wide>>

\* Classes whose fields another class reads are written again.
Rewrite ==
  /\ pc = "widen" /\ ~failed
  /\ \E R \in SUBSET {c \in Class : c[1] \in Elems(emitted)} :
       /\ wide' = R
       /\ \/ WriteAll(R, "wide") /\ outcome' = "ok"
          \/ WriteSome(R, "wide") /\ outcome' = "error"
  /\ pc' = "done"
  /\ UNCHANGED <<poolMin, stuck, unit, emitFailed, pending, pool, nextSeq, jobs, closed, rx, worker, done, emitted>>

ReportWriteError ==
  /\ pc = "widen" /\ failed
  /\ pc' = "done" /\ outcome' = "error"
  /\ UNCHANGED <<poolMin, stuck, unit, emitFailed, pending, pool, nextSeq, jobs, closed, rx, worker, failed, done,
                 emitted, wide, disk>>

-----------------------------------------------------------------------------
(* A writer thread.                                                        *)

LockJobs(w) ==
  /\ pool /\ wpc[w] = "idle" /\ rx = Nobody
  /\ rx' = w /\ wpc' = [wpc EXCEPT ![w] = "recv"]
  /\ UNCHANGED <<main, jobs, wJob, wNext, failed, done, disk>>

Recv(w) ==
  /\ wpc[w] = "recv" /\ jobs # <<>>
  /\ jobs' = Tail(jobs) /\ rx' = Nobody
  /\ wJob' = [wJob EXCEPT ![w] = Head(jobs)]
  /\ wNext' = [wNext EXCEPT ![w] = 1]
  /\ wpc' = [wpc EXCEPT ![w] = "check"]
  /\ UNCHANGED <<main, failed, done, disk>>

RecvClosed(w) ==
  /\ wpc[w] = "recv" /\ jobs = <<>> /\ closed
  /\ rx' = Nobody /\ wpc' = [wpc EXCEPT ![w] = "exited"]
  /\ UNCHANGED <<main, jobs, wJob, wNext, failed, done, disk>>

\* A chunk received after a failure is not written, but still given back.
CheckFailed(w) ==
  /\ wpc[w] = "check"
  /\ wpc' = [wpc EXCEPT ![w] = IF failed THEN "give" ELSE "write"]
  /\ UNCHANGED <<main, jobs, rx, wJob, wNext, failed, done, disk>>

WriteClass(w) ==
  /\ wpc[w] = "write"
  /\ disk' = [disk EXCEPT ![<<wJob[w].unit, wNext[w]>>] = "new"]
  /\ wNext' = [wNext EXCEPT ![w] = @ + 1]
  /\ wpc' = [wpc EXCEPT ![w] = IF wNext[w] = Size[wJob[w].unit] THEN "give" ELSE "write"]
  /\ UNCHANGED <<main, jobs, rx, wJob, failed, done>>

\* Mutant: the error is not recorded.
WriteFailsSilently(w) ==
  /\ wpc[w] = "write"
  /\ \E left \in {disk[<<wJob[w].unit, wNext[w]>>], "cut"} :
       disk' = [disk EXCEPT ![<<wJob[w].unit, wNext[w]>>] = left]
  /\ wpc' = [wpc EXCEPT ![w] = "give"]
  /\ UNCHANGED <<main, jobs, rx, wJob, wNext, failed, done>>

WriteFails(w) ==
  /\ wpc[w] = "write"
  /\ \E left \in {disk[<<wJob[w].unit, wNext[w]>>], "cut"} :
       disk' = [disk EXCEPT ![<<wJob[w].unit, wNext[w]>>] = left]
  /\ failed' = TRUE
  /\ wpc' = [wpc EXCEPT ![w] = "give"]
  /\ UNCHANGED <<main, jobs, rx, wJob, wNext, done>>

\* Mutant: writing consumes the chunk, and an empty one is given back.
GiveEmpty(w) ==
  /\ wpc[w] = "give"
  /\ done' = Append(done, NoJob)
  /\ wJob' = [wJob EXCEPT ![w] = NoJob]
  /\ wpc' = [wpc EXCEPT ![w] = "idle"]
  /\ UNCHANGED <<main, jobs, rx, wNext, failed, disk>>

Give(w) ==
  /\ wpc[w] = "give"
  /\ done' = Append(done, wJob[w])
  /\ wJob' = [wJob EXCEPT ![w] = NoJob]
  /\ wpc' = [wpc EXCEPT ![w] = "idle"]
  /\ UNCHANGED <<main, jobs, rx, wNext, failed, disk>>

-----------------------------------------------------------------------------
Compile == EmitUnit \/ EmitFails \/ EndEmit \/ WriteInline \/ JoinForFinish \/ JoinForDiscard
           \/ Rewrite \/ ReportWriteError
Writer(w) == LockJobs(w) \/ Recv(w) \/ RecvClosed(w) \/ CheckFailed(w) \/ WriteClass(w)
             \/ WriteFails(w) \/ Give(w)

Next == Compile \/ \E w \in Workers : Writer(w)

Spec == Init /\ [][Next]_vars

\* The threads run until they return.
FairSpec == Spec /\ WF_vars(Compile) /\ \A w \in Workers : WF_vars(Writer(w))

-----------------------------------------------------------------------------
(* Properties.                                                             *)

Chunk == [seq : Nat, unit : Unit]

\* Every variable has its type.
TypeOK ==
  /\ poolMin \in PoolMins
  /\ pc \in {"emit", "inline", "join", "widen", "done"} /\ unit \in 1..(NUnits + 1)
  /\ emitFailed \in BOOLEAN /\ pool \in BOOLEAN /\ closed \in BOOLEAN /\ failed \in BOOLEAN
  /\ pending \in Seq(Unit) /\ nextSeq \in Nat
  /\ jobs \in Seq(Chunk) /\ done \in Seq(Chunk)
  /\ rx \in Workers \cup {Nobody}
  /\ wpc \in [Workers -> {"idle", "recv", "check", "write", "give", "exited"}]
  /\ wJob \in [Workers -> Chunk \cup {NoJob}] /\ wNext \in [Workers -> Nat \ {0}]
  /\ emitted \in Seq(Unit) /\ wide \in SUBSET Class /\ stuck \in SUBSET Class
  /\ disk \in [Class -> {"none", "old", "cut", "new", "wide"}]
  /\ outcome \in {"running", "ok", "error", "withdrawn"}

\* A compile that reports no error has every class of every unit on disk, in
\* its final version, however the writers interleaved (finish, "wait for every
\* class to be on disk").
Complete ==
  outcome = "ok" => \A c \in Class : disk[c] = IF c \in wide THEN "wide" ELSE "new"

\* finish gives back every unit's classes exactly once and in push order, also
\* when a write failed ("the caller still reports what was generated").
PushOrder ==
  outcome \in {"ok", "error"} =>
    /\ Elems(emitted) = {u \in Unit : Size[u] > 0}
    /\ \A i, j \in 1..Len(emitted) : i < j => emitted[i] < emitted[j]

\* "A compile that fails in a later unit leaves no class file of the run
\* behind" (discard), wherever the writers were when it failed -- except the
\* files that were there to be removed and could not be: discard passes over a
\* failed remove_file.
NothingLeft ==
  outcome = "withdrawn" => \A c \in Class : disk[c] \in {"none", "old"} \/ c \in stuck

\* join waits for threads that wait for the queue and its lock: it ends.
JoinEnds == (pc = "join") ~> (pc = "done")

\* discard: "Delete every class file written so far" -- and no other file.
OthersSpared ==
  [][outcome = "running" /\ outcome' = "withdrawn" =>
       \A c \in Class : disk[c] = "old" => disk'[c] = "old"]_vars

\* The writer keeps what a compile promises about its output directory.
Promise == INSTANCE ClassTree WITH tree <- disk
Refines == Promise!Spec
=============================================================================
