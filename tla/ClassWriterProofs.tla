-------------------------- MODULE ClassWriterProofs --------------------------
(***************************************************************************)
(* For every number of units, classes and writers, and every pool minimum:  *)
(* a compile that succeeds has a complete tree, one that is withdrawn has   *)
(* none of its files left but those that could not be removed, the chunks   *)
(* come back in push order, and the writer implements ClassTree.            *)
(*                                                                         *)
(* The inductive invariant accounts for every chunk: from push to finish it *)
(* is pending, queued, with a writer, or done, and what is on disk of it is *)
(* determined by which of these it is.  For the order, the chunks on their  *)
(* way have the numbers that were given out, each in one place (OrderIInv). *)
(***************************************************************************)
EXTENDS ClassWriter, FiniteSetTheorems, FunctionTheorems, TLAPS

Versions == {"none", "old", "cut", "new", "wide"}

TypeMain ==
  /\ pc \in {"emit", "inline", "join", "widen", "done"} /\ unit \in 1..(NUnits + 1)
  /\ pending \in Seq(Unit) /\ nextSeq \in Nat
  /\ wide \in SUBSET Class /\ stuck \in SUBSET Class
  /\ outcome \in {"running", "ok", "error", "withdrawn"}
TypeFlags ==
  emitFailed \in BOOLEAN /\ pool \in BOOLEAN /\ closed \in BOOLEAN /\ failed \in BOOLEAN
TypeQueue == jobs \in Seq(Chunk) /\ done \in Seq(Chunk)
TypeWorker ==
  /\ wpc \in [Workers -> {"idle", "recv", "check", "write", "give", "exited"}]
  /\ wJob \in [Workers -> Chunk \cup {NoJob}] /\ wNext \in [Workers -> Nat \ {0}]
TypeDisk == disk \in [Class -> Versions]

Busy(w) == wpc[w] \in {"check", "write", "give"}

\* Where the compile is says which of its structures are in use.
Phases ==
  /\ ~pool => jobs = <<>> /\ done = <<>> /\ ~closed /\ \A w \in Workers : wpc[w] = "idle"
  /\ pool => pending = <<>> /\ pc # "inline"
  /\ closed => pc # "emit"
  /\ pc = "inline" => ~emitFailed
  /\ pc = "join" => pool /\ closed
  /\ pc \in {"inline", "join", "widen"} => unit = NUnits + 1
  /\ pc # "done" => outcome = "running" /\ wide = {}
  /\ pc = "widen" => \A w \in Workers : ~Busy(w) /\ jobs = <<>>
  /\ pc = "done" => \A w \in Workers : ~Busy(w) /\ jobs = <<>>

\* A writer leaves only when the channel is closed and empty.
Exits == \A w \in Workers : wpc[w] = "exited" => closed /\ jobs = <<>>

\* Only units with classes become chunks; a writer at work has a chunk, starts
\* at its first class and is inside it while it writes.
Chunks ==
  /\ \A i \in 1..Len(pending) : Size[pending[i]] > 0
  /\ \A i \in 1..Len(jobs) : Size[jobs[i].unit] > 0
  /\ \A w \in Workers :
       /\ Busy(w) => wJob[w] \in Chunk /\ Size[wJob[w].unit] > 0
       /\ wpc[w] = "check" => wNext[w] = 1
       /\ wpc[w] = "write" => wNext[w] <= Size[wJob[w].unit]

\* No chunk is lost on the way from push to the finished chunks.
Queued(u)  == \E i \in 1..Len(jobs) : jobs[i].unit = u
Held(u)    == \E w \in Workers : Busy(w) /\ wJob[w].unit = u
Done(u)    == \E i \in 1..Len(done) : done[i].unit = u
Waiting(u) == \E i \in 1..Len(pending) : pending[i] = u

Accounted ==
  ~emitFailed /\ pc \in {"emit", "inline", "join"} =>
    \A u \in Unit : u < unit /\ Size[u] > 0 => Waiting(u) \/ Queued(u) \/ Held(u) \/ Done(u)

\* As long as no write failed, what a writer or the done channel claims to
\* have written is on disk.
Progress ==
  ~failed /\ pc \in {"emit", "join"} =>
    /\ \A w \in Workers : wpc[w] \in {"write", "give"} =>
         \A i \in 1..Size[wJob[w].unit] :
            (wpc[w] = "give" \/ i < wNext[w]) => disk[<<wJob[w].unit, i>>] = "new"
    /\ \A c \in Class : Done(c[1]) => disk[c] = "new"

\* Only chunks that reached a writer have touched the disk.
Untouched ==
  /\ pc \in {"emit", "join"} =>
       \A c \in Class : disk[c] \in {"none", "old"} \/ Held(c[1]) \/ Done(c[1])
  /\ pc = "inline" => \A c \in Class : disk[c] \in {"none", "old"}

Written == pc = "widen" /\ ~failed => \A c \in Class : disk[c] = "new"

IInv == /\ TypeMain /\ TypeFlags /\ TypeQueue /\ TypeWorker /\ TypeDisk
        /\ Phases /\ Exits /\ Chunks /\ Accounted /\ Progress /\ Untouched
        /\ Written /\ Complete /\ NothingLeft

USE WriterConstants

-----------------------------------------------------------------------------
\* A class is a unit and an index in it.
LEMMA ClassParts ==
  /\ \A c \in Class : c[1] \in Unit /\ c[2] \in 1..Size[c[1]] /\ c = <<c[1], c[2]>>
  /\ \A u \in Unit : \A i \in 1..Size[u] : <<u, i>> \in Class
BY DEF Class

\* A class's unit has classes.
LEMMA ClassSize == \A c \in Class : c[1] \in Unit /\ Size[c[1]] > 0
BY ClassParts

\* Sending to a channel keeps what is in it and adds the new chunk.
LEMMA Appended ==
  ASSUME NEW S, NEW s \in Seq(S), NEW e \in S
  PROVE  /\ Append(s, e) \in Seq(S)
         /\ \A i \in 1..Len(s) : i \in 1..Len(Append(s, e)) /\ Append(s, e)[i] = s[i]
         /\ Len(Append(s, e)) \in 1..Len(Append(s, e))
         /\ Append(s, e)[Len(Append(s, e))] = e
         /\ \A i \in 1..Len(Append(s, e)) : Append(s, e)[i] = e \/ \E j \in 1..Len(s) : Append(s, e)[i] = s[j]
OBVIOUS

\* Receiving takes one chunk out of a channel and leaves the others.
LEMMA Received ==
  ASSUME NEW S, NEW s \in Seq(S), s # <<>>
  PROVE  /\ Head(s) \in S /\ Tail(s) \in Seq(S) /\ 1 \in 1..Len(s) /\ Head(s) = s[1]
         /\ \A i \in 1..Len(s) : s[i] = Head(s) \/ \E j \in 1..Len(Tail(s)) : Tail(s)[j] = s[i]
         /\ \A j \in 1..Len(Tail(s)) : \E i \in 1..Len(s) : Tail(s)[j] = s[i]
<1>1. Head(s) = s[1] /\ Head(s) \in S /\ Tail(s) \in Seq(S) /\ Len(s) \in Nat \ {0}
  OBVIOUS
<1>2. Len(Tail(s)) = Len(s) - 1 /\ \A j \in 1..(Len(s) - 1) : Tail(s)[j] = s[j + 1]
  OBVIOUS
<1>3. ASSUME NEW i \in 1..Len(s), i # 1
      PROVE \E j \in 1..Len(Tail(s)) : Tail(s)[j] = s[i]
  <2>1. i - 1 \in 1..Len(Tail(s)) /\ Tail(s)[i - 1] = s[i]
    BY <1>1, <1>2, <1>3
  <2> QED BY <2>1
<1>4. ASSUME NEW j \in 1..Len(Tail(s))
      PROVE \E i \in 1..Len(s) : Tail(s)[j] = s[i]
  <2>1. j + 1 \in 1..Len(s) /\ Tail(s)[j] = s[j + 1]
    BY <1>1, <1>2
  <2> QED BY <2>1
<1> QED BY <1>1, <1>3, <1>4

-----------------------------------------------------------------------------
\* At the start nothing is on its way and nothing of the run is on disk.
LEMMA InitIInv == Init => IInv
<1> SUFFICES ASSUME Init PROVE IInv
  OBVIOUS
<1>1. TypeMain /\ TypeFlags /\ TypeQueue
  <2>1. 1 \in 1..(NUnits + 1) /\ 0 \in Nat /\ <<>> \in Seq(Unit) /\ <<>> \in Seq(Chunk)
    OBVIOUS
  <2>2. TypeMain
    BY <2>1 DEF Init, TypeMain
  <2>3. TypeFlags /\ TypeQueue
    BY <2>1 DEF Init, TypeFlags, TypeQueue
  <2> QED BY <2>2, <2>3
<1>2. TypeWorker /\ TypeDisk
  BY DEF Init, TypeWorker, TypeDisk, Versions, NoJob
<1>3. Phases /\ Exits /\ Chunks
  BY DEF Init, Phases, Exits, Chunks, Busy
<1>4. Accounted
  BY DEF Init, Accounted, Unit
<1>5. Progress
  BY DEF Init, Progress, Done
<1>6. Untouched /\ Written
  BY DEF Init, Untouched, Written
<1>7. Complete /\ NothingLeft
  BY DEF Init, Complete, NothingLeft
<1> QED BY <1>1, <1>2, <1>3, <1>4, <1>5, <1>6, <1>7 DEF IInv

-----------------------------------------------------------------------------
(* The compile's steps.                                                    *)

\* A unit the backend rejects gives the writers nothing, and the run is no
\* longer accounted for.
LEMMA EmitFailsKeeps ==
  ASSUME IInv, EmitFails
  PROVE  IInv'
<1>1. TypeMain' /\ TypeFlags'
  BY DEF EmitFails, IInv, TypeMain, TypeFlags, main
<1>2. TypeQueue'
  BY DEF EmitFails, IInv, TypeQueue, main
<1>3. TypeWorker'
  BY DEF EmitFails, IInv, TypeWorker, worker
<1>4. TypeDisk'
  BY DEF EmitFails, IInv, TypeDisk, Versions
<1>5. Phases'
  BY DEF EmitFails, IInv, Phases, worker
<1>6. Exits'
  BY DEF EmitFails, IInv, Exits, worker
<1>7. Chunks'
  BY DEF EmitFails, IInv, Chunks, Busy, worker
<1>8. Accounted'
  BY DEF EmitFails, IInv, Accounted, Queued, Held, Done
<1>9. Progress'
  BY DEF EmitFails, IInv, Progress, Done, worker
<1>10. Untouched'
  BY DEF EmitFails, IInv, Untouched, Held, Done, Busy, worker
<1>11. Written'
  BY DEF EmitFails, IInv, Written
<1>12. Complete'
  BY DEF EmitFails, IInv, Complete
<1>13. NothingLeft'
  BY DEF EmitFails, IInv, NothingLeft
<1> QED BY <1>1, <1>2, <1>3, <1>4, <1>5, <1>6, <1>7, <1>8, <1>9, <1>10, <1>11, <1>12,
   <1>13 DEF IInv

\* The end of the units: with no pool, nothing of the run is on disk yet.
LEMMA EndEmitKeeps ==
  ASSUME IInv, EndEmit
  PROVE  IInv'
<1>1. TypeMain' /\ TypeFlags'
  BY DEF EndEmit, IInv, TypeMain, TypeFlags, main
<1>2. TypeQueue'
  BY DEF EndEmit, IInv, TypeQueue, main
<1>3. TypeWorker'
  BY DEF EndEmit, IInv, TypeWorker, worker
<1>4. TypeDisk'
  BY DEF EndEmit, IInv, TypeDisk, Versions
<1>5. Phases'
  BY DEF EndEmit, IInv, Phases, Busy, TypeMain, TypeFlags, TypeWorker, worker
<1>6. Exits'
  BY DEF EndEmit, IInv, Exits, worker
<1>7. Chunks'
  BY DEF EndEmit, IInv, Chunks, Busy, worker
<1>8. Accounted'
  BY DEF EndEmit, IInv, Accounted, Waiting, Queued, Held, Done, Busy, worker
<1>9. Progress'
  BY DEF EndEmit, IInv, Progress, Done, worker
<1>10. Untouched'
  <2>1. ~pool => \A c \in Class : disk[c] \in {"none", "old"}
    BY DEF EndEmit, IInv, Untouched, Phases, Held, Done, Busy
  <2>2. disk' = disk /\ wpc' = wpc /\ wJob' = wJob /\ done' = done
    BY DEF EndEmit, worker
  <2>3. pc' = "inline" => ~pool
    BY DEF EndEmit, IInv, TypeFlags
  <2> QED BY <2>1, <2>2, <2>3 DEF EndEmit, IInv, Untouched, Held, Done, Busy
<1>11. Written'
  BY DEF EndEmit, IInv, Written
<1>12. Complete'
  BY DEF EndEmit, IInv, Complete
<1>13. NothingLeft'
  <2>1. ~pool => \A c \in Class : disk[c] \in {"none", "old"}
    BY DEF EndEmit, IInv, Untouched, Phases, Held, Done, Busy
  <2>2. disk' = disk /\ (outcome' = "withdrawn" => ~pool)
    BY DEF EndEmit, IInv, TypeFlags, Phases
  <2> QED BY <2>1, <2>2 DEF NothingLeft
<1> QED BY <1>1, <1>2, <1>3, <1>4, <1>5, <1>6, <1>7, <1>8, <1>9, <1>10, <1>11, <1>12,
   <1>13 DEF IInv

\* Too few classes for a pool: all of them were waiting, so all are written.
LEMMA WriteInlineKeeps ==
  ASSUME IInv, WriteInline
  PROVE  IInv'
<1>1. TypeMain' /\ TypeFlags'
  <2>1. failed' \in BOOLEAN
    BY DEF WriteInline, WriteAll, WriteSome, IInv, TypeFlags
  <2> QED BY <2>1 DEF WriteInline, IInv, TypeMain, TypeFlags
<1>2. TypeQueue'
  BY DEF WriteInline, IInv, TypeQueue, main
<1>3. TypeWorker'
  BY DEF WriteInline, IInv, TypeWorker, worker
<1>4. TypeDisk'
  BY DEF WriteInline, WriteAll, WriteSome, IInv, TypeDisk, Versions
<1>5. Phases'
  BY DEF WriteInline, IInv, Phases, Busy, worker
<1>6. Exits'
  BY DEF WriteInline, IInv, Exits, worker
<1>7. Chunks'
  BY DEF WriteInline, IInv, Chunks, Busy, worker
<1>8. Accounted'
  BY DEF WriteInline, IInv, Accounted, Queued, Held, Done
<1>9. Progress'
  BY DEF WriteInline, IInv, Progress, Done
<1>10. Untouched'
  BY DEF WriteInline, IInv, Untouched, Held, Done
<1>11. Written'
  <2> SUFFICES ASSUME ~failed', NEW c \in Class PROVE disk'[c] = "new"
    BY DEF Written
  <2>1. c[1] \in Unit /\ Size[c[1]] > 0 /\ c[1] < unit
    BY ClassSize DEF WriteInline, IInv, Phases, Unit
  <2>2. Waiting(c[1])
    BY <2>1 DEF WriteInline, IInv, Accounted, Phases, Queued, Held, Done, Busy
  <2>3. c[1] \in Elems(pending)
    BY <2>2 DEF Waiting, Elems
  <2>4. WriteAll({d \in Class : d[1] \in Elems(pending)}, "new")
    BY DEF WriteInline, WriteSome
  <2> QED BY <2>3, <2>4 DEF WriteAll
<1>12. Complete'
  BY DEF WriteInline, IInv, Complete, Phases, main
<1>13. NothingLeft'
  BY DEF WriteInline, IInv, NothingLeft, Phases, main
<1> QED BY <1>1, <1>2, <1>3, <1>4, <1>5, <1>6, <1>7, <1>8, <1>9, <1>10, <1>11, <1>12,
   <1>13 DEF IInv

\* All writers have exited, so every chunk is done.
LEMMA JoinForFinishKeeps ==
  ASSUME IInv, JoinForFinish
  PROVE  IInv'
<1>1. TypeMain' /\ TypeFlags'
  BY DEF JoinForFinish, IInv, TypeMain, TypeFlags, main
<1>2. TypeQueue'
  BY DEF JoinForFinish, IInv, TypeQueue, main
<1>3. TypeWorker'
  BY DEF JoinForFinish, IInv, TypeWorker, worker
<1>4. TypeDisk'
  BY DEF JoinForFinish, IInv, TypeDisk, Versions
<1>5. Phases'
  BY DEF JoinForFinish, IInv, Phases, Busy, TypeWorker, Exits, worker
<1>6. Exits'
  BY DEF JoinForFinish, IInv, Exits
<1>7. Chunks'
  BY DEF JoinForFinish, IInv, Chunks, Busy, worker
<1>8. Accounted'
  BY DEF JoinForFinish, IInv, Accounted, Queued, Held, Done
<1>9. Progress'
  BY DEF JoinForFinish, IInv, Progress, Done
<1>10. Untouched'
  BY DEF JoinForFinish, IInv, Untouched, Held, Done
<1>11. Written'
  <2> SUFFICES ASSUME ~failed, NEW c \in Class PROVE disk[c] = "new"
    BY DEF Written, JoinForFinish
  <2>1. c[1] \in Unit /\ Size[c[1]] > 0 /\ c[1] < unit
    BY ClassSize DEF JoinForFinish, IInv, Phases, Unit
  <2>2. jobs = <<>> /\ pending = <<>> /\ \A w \in Workers : ~Busy(w)
    BY DEF JoinForFinish, IInv, Phases, Exits, Busy
  <2>3. Done(c[1])
    BY <2>1, <2>2 DEF JoinForFinish, IInv, Accounted, Waiting, Queued, Held
  <2> QED BY <2>3 DEF JoinForFinish, IInv, Progress
<1>12. Complete'
  BY DEF JoinForFinish, IInv, Complete
<1>13. NothingLeft'
  BY DEF JoinForFinish, IInv, NothingLeft
<1> QED BY <1>1, <1>2, <1>3, <1>4, <1>5, <1>6, <1>7, <1>8, <1>9, <1>10, <1>11, <1>12,
   <1>13 DEF IInv

\* All writers have exited, so what they touched is done, and is deleted.
LEMMA JoinForDiscardKeeps ==
  ASSUME IInv, JoinForDiscard
  PROVE  IInv'
<1>0. PICK S \in SUBSET Class :
        /\ stuck' = S
        /\ disk' = [c \in Class |-> IF c \notin S /\ \E k \in Elems(done) : k.unit = c[1]
                                    THEN "none" ELSE disk[c]]
  BY DEF JoinForDiscard, Remove
<1>1. TypeMain' /\ TypeFlags'
  BY <1>0 DEF JoinForDiscard, IInv, TypeMain, TypeFlags, main
<1>2. TypeQueue'
  BY DEF JoinForDiscard, IInv, TypeQueue, main
<1>3. TypeWorker'
  BY DEF JoinForDiscard, IInv, TypeWorker, worker
<1>4. TypeDisk'
  BY <1>0 DEF IInv, TypeDisk, Versions
<1>5. Phases'
  BY DEF JoinForDiscard, IInv, Phases, Busy, TypeWorker, Exits, worker
<1>6. Exits'
  BY DEF JoinForDiscard, IInv, Exits
<1>7. Chunks'
  BY DEF JoinForDiscard, IInv, Chunks, Busy, worker
<1>8. Accounted'
  BY DEF JoinForDiscard, IInv, Accounted, Queued, Held, Done
<1>9. Progress'
  BY DEF JoinForDiscard, IInv, Progress, Done
<1>10. Untouched'
  BY DEF JoinForDiscard, IInv, Untouched, Held, Done
<1>11. Written'
  BY DEF JoinForDiscard, IInv, Written
<1>12. Complete'
  BY DEF JoinForDiscard, IInv, Complete
<1>13. NothingLeft'
  <2> SUFFICES ASSUME NEW c \in Class, c \notin stuck' PROVE disk'[c] \in {"none", "old"}
    BY DEF NothingLeft
  <2>1. disk[c] \in {"none", "old"} \/ Done(c[1])
    BY DEF JoinForDiscard, IInv, Untouched, Held, Busy
  <2>2. disk'[c] = IF \E k \in Elems(done) : k.unit = c[1] THEN "none" ELSE disk[c]
    BY <1>0
  <2>3. Done(c[1]) => \E k \in Elems(done) : k.unit = c[1]
    BY DEF Done, Elems
  <2> QED BY <2>1, <2>2, <2>3
<1> QED BY <1>1, <1>2, <1>3, <1>4, <1>5, <1>6, <1>7, <1>8, <1>9, <1>10, <1>11, <1>12,
   <1>13 DEF IInv

\* The classes written again are the only ones that change.
LEMMA RewriteKeeps ==
  ASSUME IInv, Rewrite
  PROVE  IInv'
<1>1. TypeMain' /\ TypeFlags'
  <2>1. failed' \in BOOLEAN /\ wide' \in SUBSET Class /\ outcome' \in {"ok", "error"}
    BY DEF Rewrite, WriteAll, WriteSome, IInv, TypeFlags
  <2> QED BY <2>1 DEF Rewrite, IInv, TypeMain, TypeFlags
<1>2. TypeQueue'
  BY DEF Rewrite, IInv, TypeQueue, main
<1>3. TypeWorker'
  BY DEF Rewrite, IInv, TypeWorker, worker
<1>4. TypeDisk'
  BY DEF Rewrite, WriteAll, WriteSome, IInv, TypeDisk, Versions
<1>5. Phases'
  BY DEF Rewrite, IInv, Phases, Busy, worker
<1>6. Exits'
  BY DEF Rewrite, IInv, Exits, worker
<1>7. Chunks'
  BY DEF Rewrite, IInv, Chunks, Busy, worker
<1>8. Accounted'
  BY DEF Rewrite, IInv, Accounted, Queued, Held, Done
<1>9. Progress'
  BY DEF Rewrite, IInv, Progress, Done
<1>10. Untouched'
  BY DEF Rewrite, IInv, Untouched, Held, Done
<1>11. Written'
  BY DEF Rewrite, IInv, Written
<1>12. Complete'
  <2> SUFFICES ASSUME outcome' = "ok", NEW c \in Class
               PROVE disk'[c] = IF c \in wide' THEN "wide" ELSE "new"
    BY DEF Complete
  <2>1. disk[c] = "new"
    BY DEF Rewrite, IInv, Written
  <2>2. WriteAll(wide', "wide")
    BY DEF Rewrite
  <2> QED BY <2>1, <2>2 DEF WriteAll
<1>13. NothingLeft'
  BY DEF Rewrite, NothingLeft
<1> QED BY <1>1, <1>2, <1>3, <1>4, <1>5, <1>6, <1>7, <1>8, <1>9, <1>10, <1>11, <1>12,
   <1>13 DEF IInv

\* Reporting an error changes nothing else.
LEMMA ReportWriteErrorKeeps ==
  ASSUME IInv, ReportWriteError
  PROVE  IInv'
<1>1. TypeMain' /\ TypeFlags'
  BY DEF ReportWriteError, IInv, TypeMain, TypeFlags, main
<1>2. TypeQueue'
  BY DEF ReportWriteError, IInv, TypeQueue, main
<1>3. TypeWorker'
  BY DEF ReportWriteError, IInv, TypeWorker, worker
<1>4. TypeDisk'
  BY DEF ReportWriteError, IInv, TypeDisk, Versions
<1>5. Phases'
  BY DEF ReportWriteError, IInv, Phases, Busy, worker
<1>6. Exits'
  BY DEF ReportWriteError, IInv, Exits, worker
<1>7. Chunks'
  BY DEF ReportWriteError, IInv, Chunks, Busy, worker
<1>8. Accounted'
  BY DEF ReportWriteError, IInv, Accounted, Queued, Held, Done
<1>9. Progress'
  BY DEF ReportWriteError, IInv, Progress, Done
<1>10. Untouched'
  BY DEF ReportWriteError, IInv, Untouched, Held, Done
<1>11. Written'
  BY DEF ReportWriteError, IInv, Written
<1>12. Complete'
  BY DEF ReportWriteError, IInv, Complete
<1>13. NothingLeft'
  BY DEF ReportWriteError, IInv, NothingLeft
<1> QED BY <1>1, <1>2, <1>3, <1>4, <1>5, <1>6, <1>7, <1>8, <1>9, <1>10, <1>11, <1>12,
   <1>13 DEF IInv

-----------------------------------------------------------------------------
(* The writers' steps.                                                     *)

\* A writer takes the receiver's lock.
LEMMA LockJobsKeeps ==
  ASSUME IInv, NEW w \in Workers, LockJobs(w)
  PROVE  IInv'
<1>1. TypeMain' /\ TypeFlags'
  BY DEF LockJobs, IInv, TypeMain, TypeFlags, main
<1>2. TypeQueue'
  BY DEF LockJobs, IInv, TypeQueue
<1>3. TypeWorker'
  BY DEF LockJobs, IInv, TypeWorker
<1>4. TypeDisk'
  BY DEF LockJobs, IInv, TypeDisk, Versions
<1>5. Phases'
  BY DEF LockJobs, IInv, Phases, Busy, main
<1>6. Exits'
  BY DEF LockJobs, IInv, Exits, main
<1>7. Chunks'
  BY DEF LockJobs, IInv, Chunks, Busy, main
<1>8. Accounted'
  BY DEF LockJobs, IInv, Accounted, Waiting, Queued, Held, Done, Busy, main
<1>9. Progress'
  BY DEF LockJobs, IInv, Progress, Done, main
<1>10. Untouched'
  BY DEF LockJobs, IInv, Untouched, Held, Done, Busy, main
<1>11. Written'
  BY DEF LockJobs, IInv, Written, main
<1>12. Complete'
  BY DEF LockJobs, IInv, Complete, main
<1>13. NothingLeft'
  BY DEF LockJobs, IInv, NothingLeft, main
<1> QED BY <1>1, <1>2, <1>3, <1>4, <1>5, <1>6, <1>7, <1>8, <1>9, <1>10, <1>11, <1>12,
   <1>13 DEF IInv

\* The chunk a writer receives goes from the channel to the writer.
LEMMA RecvKeeps ==
  ASSUME IInv, NEW w \in Workers, Recv(w)
  PROVE  IInv'
<1>1. TypeMain' /\ TypeFlags'
  BY DEF Recv, IInv, TypeMain, TypeFlags, main
<1>2. TypeQueue'
  BY Received DEF Recv, IInv, TypeQueue
<1>3. TypeWorker'
  <2>1. Head(jobs) \in Chunk
    BY Received DEF Recv, IInv, TypeQueue
  <2> QED BY <2>1 DEF Recv, IInv, TypeWorker
<1>4. TypeDisk'
  BY DEF Recv, IInv, TypeDisk, Versions
<1>5. Phases'
  BY DEF Recv, IInv, Phases, main
<1>6. Exits'
  BY DEF Recv, IInv, Exits
<1>7. Chunks'
  <2>1. Head(jobs) \in Chunk /\ Size[Head(jobs).unit] > 0
    BY Received DEF Recv, IInv, TypeQueue, Chunks
  <2>2. \A j \in 1..Len(jobs') : Size[jobs'[j].unit] > 0
    BY Received DEF Recv, IInv, TypeQueue, Chunks
  <2>3. \A i \in 1..Len(pending') : Size[pending'[i]] > 0
    BY DEF Recv, main, IInv, Chunks
  <2> QED BY <2>1, <2>2, <2>3 DEF Recv, IInv, TypeWorker, Chunks, Busy
<1>8. Accounted'
  <2> SUFFICES ASSUME ~emitFailed, pc \in {"emit", "inline", "join"}, NEW u \in Unit, u < unit, Size[u] > 0
               PROVE  Waiting(u)' \/ Queued(u)' \/ Held(u)' \/ Done(u)'
    BY DEF Accounted, Recv, main
  <2>1. Waiting(u) \/ Queued(u) \/ Held(u) \/ Done(u)
    BY DEF IInv, Accounted
  <2>2. (Waiting(u) => Waiting(u)') /\ (Done(u) => Done(u)')
    BY DEF Recv, main, Waiting, Done
  <2>3. Held(u) => Held(u)'
    BY DEF Recv, IInv, TypeWorker, Held, Busy
  <2>4. ASSUME Queued(u) PROVE Queued(u)' \/ Held(u)'
    <3>1. PICK i \in 1..Len(jobs) : jobs[i].unit = u
      BY <2>4 DEF Queued
    <3>2. jobs[i] = Head(jobs) \/ \E j \in 1..Len(jobs') : jobs'[j] = jobs[i]
      BY <3>1, Received DEF Recv, IInv, TypeQueue
    <3>3. jobs[i] = Head(jobs) => Held(u)'
      BY <3>1 DEF Recv, IInv, TypeWorker, Held, Busy
    <3> QED BY <3>1, <3>2, <3>3 DEF Queued
  <2> QED BY <2>1, <2>2, <2>3, <2>4
<1>9. Progress'
  BY DEF Recv, IInv, Progress, Done, main
<1>10. Untouched'
  BY DEF Recv, IInv, Untouched, Held, Done, Busy, main
<1>11. Written'
  BY DEF Recv, IInv, Written, main
<1>12. Complete'
  BY DEF Recv, IInv, Complete, main
<1>13. NothingLeft'
  BY DEF Recv, IInv, NothingLeft, main
<1> QED BY <1>1, <1>2, <1>3, <1>4, <1>5, <1>6, <1>7, <1>8, <1>9, <1>10, <1>11, <1>12,
   <1>13 DEF IInv

\* A writer leaves when the channel is closed and empty.
LEMMA RecvClosedKeeps ==
  ASSUME IInv, NEW w \in Workers, RecvClosed(w)
  PROVE  IInv'
<1>1. TypeMain' /\ TypeFlags'
  BY DEF RecvClosed, IInv, TypeMain, TypeFlags, main
<1>2. TypeQueue'
  BY DEF RecvClosed, IInv, TypeQueue
<1>3. TypeWorker'
  BY DEF RecvClosed, IInv, TypeWorker
<1>4. TypeDisk'
  BY DEF RecvClosed, IInv, TypeDisk, Versions
<1>5. Phases'
  BY DEF RecvClosed, IInv, Phases, Busy, main
<1>6. Exits'
  BY DEF RecvClosed, IInv, Exits, main
<1>7. Chunks'
  BY DEF RecvClosed, IInv, Chunks, Busy, main
<1>8. Accounted'
  BY DEF RecvClosed, IInv, Accounted, Waiting, Queued, Held, Done, Busy, main
<1>9. Progress'
  BY DEF RecvClosed, IInv, Progress, Done, main
<1>10. Untouched'
  BY DEF RecvClosed, IInv, Untouched, Held, Done, Busy, main
<1>11. Written'
  BY DEF RecvClosed, IInv, Written, main
<1>12. Complete'
  BY DEF RecvClosed, IInv, Complete, main
<1>13. NothingLeft'
  BY DEF RecvClosed, IInv, NothingLeft, main
<1> QED BY <1>1, <1>2, <1>3, <1>4, <1>5, <1>6, <1>7, <1>8, <1>9, <1>10, <1>11, <1>12,
   <1>13 DEF IInv

\* A chunk is skipped only after a failure.
LEMMA CheckFailedKeeps ==
  ASSUME IInv, NEW w \in Workers, CheckFailed(w)
  PROVE  IInv'
<1>1. TypeMain' /\ TypeFlags'
  BY DEF CheckFailed, IInv, TypeMain, TypeFlags, main
<1>2. TypeQueue'
  BY DEF CheckFailed, IInv, TypeQueue
<1>3. TypeWorker'
  BY DEF CheckFailed, IInv, TypeWorker
<1>4. TypeDisk'
  BY DEF CheckFailed, IInv, TypeDisk, Versions
<1>5. Phases'
  BY DEF CheckFailed, IInv, Phases, Busy, main
<1>6. Exits'
  BY DEF CheckFailed, IInv, Exits, main
<1>7. Chunks'
  BY DEF CheckFailed, main, IInv, Chunks, Busy, Chunk, Unit
<1>8. Accounted'
  BY DEF CheckFailed, IInv, Accounted, Waiting, Queued, Held, Done, Busy, main
<1>9. Progress'
  <2> SUFFICES ASSUME ~failed, pc \in {"emit", "join"}
               PROVE Progress'
    BY DEF Progress, CheckFailed, main
  <2>1. \A v \in Workers : wpc'[v] = IF v = w THEN "write" ELSE wpc[v]
    BY DEF CheckFailed, IInv, TypeWorker
  <2>2. wNext[w] = 1 /\ wJob' = wJob /\ wNext' = wNext /\ disk' = disk /\ done' = done
    BY DEF CheckFailed, IInv, Chunks
  <2>3. \A c \in Class : Done(c[1])' => disk'[c] = "new"
    BY <2>2 DEF IInv, Progress, Done
  <2>4. ASSUME NEW v \in Workers, wpc'[v] \in {"write", "give"}, NEW i \in 1..Size[wJob'[v].unit],
               wpc'[v] = "give" \/ i < wNext'[v]
        PROVE  disk'[<<wJob'[v].unit, i>>] = "new"
    <3>1. v # w
      BY <2>1, <2>2, <2>4
    <3> QED BY <3>1, <2>1, <2>2, <2>4 DEF IInv, Progress
  <2> QED BY <2>3, <2>4 DEF Progress
<1>10. Untouched'
  BY DEF CheckFailed, IInv, Untouched, Held, Done, Busy, main
<1>11. Written'
  BY DEF CheckFailed, IInv, Written, main
<1>12. Complete'
  BY DEF CheckFailed, IInv, Complete, main
<1>13. NothingLeft'
  BY DEF CheckFailed, IInv, NothingLeft, main
<1> QED BY <1>1, <1>2, <1>3, <1>4, <1>5, <1>6, <1>7, <1>8, <1>9, <1>10, <1>11, <1>12,
   <1>13 DEF IInv

\* Writing a class of the chunk at hand.
LEMMA WriteClassKeeps ==
  ASSUME IInv, NEW w \in Workers, WriteClass(w)
  PROVE  IInv'
<1>1. TypeMain' /\ TypeFlags'
  BY DEF WriteClass, IInv, TypeMain, TypeFlags, main
<1>2. TypeQueue'
  BY DEF WriteClass, IInv, TypeQueue
<1>3. TypeWorker'
  BY DEF WriteClass, IInv, TypeWorker
<1>4. TypeDisk'
  BY DEF WriteClass, IInv, TypeDisk, Versions
<1>5. Phases'
  BY DEF WriteClass, IInv, Phases, Busy, main
<1>6. Exits'
  BY DEF WriteClass, IInv, Exits, main
<1>7. Chunks'
  <2>1. wJob[w] \in Chunk /\ wJob[w].unit \in Unit /\ Size[wJob[w].unit] \in Nat /\ wNext[w] \in Nat
    BY DEF WriteClass, IInv, TypeWorker, Chunks, Busy, Chunk
  <2>2. wNext[w] # Size[wJob[w].unit] => wNext[w] + 1 <= Size[wJob[w].unit]
    BY <2>1 DEF WriteClass, IInv, Chunks
  <2>3. /\ \A i \in 1..Len(pending') : Size[pending'[i]] > 0
        /\ \A i \in 1..Len(jobs') : Size[jobs'[i].unit] > 0
    BY DEF WriteClass, main, IInv, Chunks
  <2> QED BY <2>1, <2>2, <2>3 DEF WriteClass, IInv, TypeWorker, Chunks, Busy
<1>8. Accounted'
  BY DEF WriteClass, IInv, Accounted, Waiting, Queued, Held, Done, Busy, main
<1>9. Progress'
  <2> DEFINE d == <<wJob[w].unit, wNext[w]>>
  <2>1. d \in Class /\ wJob[w] \in Chunk /\ wJob[w].unit \in Unit /\ d[1] = wJob[w].unit
    BY ClassParts DEF WriteClass, IInv, TypeWorker, Chunks, Busy, Chunk
  <2> SUFFICES ASSUME ~failed, pc \in {"emit", "join"}
               PROVE Progress'
    BY DEF Progress, WriteClass, main
  <2>2. disk' = [disk EXCEPT ![d] = "new"] /\ done' = done /\ wJob' = wJob
    BY DEF WriteClass
  <2> HIDE DEF d
  <2>3. \A c \in Class : disk'[c] = IF c = d THEN "new" ELSE disk[c]
    BY <2>2 DEF IInv, TypeDisk
  <2>4. \A c \in Class : Done(c[1])' => disk'[c] = "new"
    BY <2>2, <2>3 DEF IInv, Progress, Done
  <2>5. ASSUME NEW v \in Workers, wpc'[v] \in {"write", "give"}, NEW i \in 1..Size[wJob'[v].unit],
               wpc'[v] = "give" \/ i < wNext'[v]
        PROVE  disk'[<<wJob'[v].unit, i>>] = "new"
    <3>1. wpc[v] \in {"write", "give"} /\ wJob[v] \in Chunk /\ wJob[v].unit \in Unit
      BY <2>5 DEF WriteClass, IInv, TypeWorker, Chunks, Busy, Chunk
    <3>2. i \in 1..Size[wJob[v].unit] /\ <<wJob[v].unit, i>> \in Class
      BY <3>1, <2>2, <2>5, ClassParts
    <3>3. CASE v # w
      <4>1. wpc'[v] = wpc[v] /\ wNext'[v] = wNext[v]
        BY <3>3 DEF WriteClass, IInv, TypeWorker
      <4>2. disk[<<wJob[v].unit, i>>] = "new"
        BY <4>1, <3>1, <3>2, <2>5 DEF IInv, Progress
      <4> QED BY <4>2, <3>2, <2>2, <2>3
    <3>4. CASE v = w
      <4>1. i < wNext[w] \/ i = wNext[w]
        BY <3>4, <3>2, <2>5, <2>1 DEF WriteClass, IInv, TypeWorker, Chunks
      <4>2. i < wNext[w] => disk[<<wJob[v].unit, i>>] = "new"
        BY <3>4, <3>1, <3>2 DEF IInv, Progress
      <4>3. i = wNext[w] => <<wJob[v].unit, i>> = d
        BY <3>4 DEF d
      <4> QED BY <4>1, <4>2, <4>3, <3>2, <2>2, <2>3
    <3> QED BY <3>3, <3>4
  <2> QED BY <2>4, <2>5 DEF Progress
<1>10. Untouched'
  <2> DEFINE d == <<wJob[w].unit, wNext[w]>>
  <2>1. d \in Class /\ wJob[w] \in Chunk /\ wJob[w].unit \in Unit /\ d[1] = wJob[w].unit
    BY ClassParts DEF WriteClass, IInv, TypeWorker, Chunks, Busy, Chunk
  <2>2. disk' = [disk EXCEPT ![d] = "new"] /\ done' = done /\ wJob' = wJob /\ pc' = pc
    BY DEF WriteClass, main
  <2>3. \A v \in Workers : Busy(v) => Busy(v)'
    BY DEF WriteClass, IInv, TypeWorker, Busy
  <2>4. Busy(w) /\ \A u : u = d[1] => Held(u)'
    BY <2>1, <2>2, <2>3 DEF Held, WriteClass, Busy
  <2>5. pc # "inline"
    BY <2>4 DEF IInv, Phases, Busy, TypeFlags
  <2> HIDE DEF d
  <2>6. \A u \in Unit : (Held(u) => Held(u)') /\ (Done(u) => Done(u)')
    BY <2>2, <2>3 DEF Held, Done
  <2>7. \A c \in Class : disk'[c] = IF c = d THEN "new" ELSE disk[c]
    BY <2>2 DEF IInv, TypeDisk
  <2> QED BY <2>2, <2>4, <2>5, <2>6, <2>7, ClassParts DEF IInv, Untouched
<1>11. Written'
  BY DEF WriteClass, IInv, Written, main
<1>12. Complete'
  <2>1. pc # "done"
    BY DEF WriteClass, IInv, Phases, Busy
  <2> QED BY <2>1 DEF WriteClass, main, IInv, Phases, Complete
<1>13. NothingLeft'
  <2>1. pc # "done"
    BY DEF WriteClass, IInv, Phases, Busy
  <2> QED BY <2>1 DEF WriteClass, main, IInv, Phases, NothingLeft
<1> QED BY <1>1, <1>2, <1>3, <1>4, <1>5, <1>6, <1>7, <1>8, <1>9, <1>10, <1>11, <1>12,
   <1>13 DEF IInv

\* A write that fails is recorded before the chunk is given back.
LEMMA WriteFailsKeeps ==
  ASSUME IInv, NEW w \in Workers, WriteFails(w)
  PROVE  IInv'
<1>1. TypeMain' /\ TypeFlags'
  BY DEF WriteFails, IInv, TypeMain, TypeFlags, main
<1>2. TypeQueue'
  BY DEF WriteFails, IInv, TypeQueue
<1>3. TypeWorker'
  BY DEF WriteFails, IInv, TypeWorker
<1>4. TypeDisk'
  BY DEF WriteFails, IInv, TypeDisk, Versions
<1>5. Phases'
  BY DEF WriteFails, IInv, Phases, Busy, main
<1>6. Exits'
  BY DEF WriteFails, IInv, Exits, main
<1>7. Chunks'
  BY DEF WriteFails, IInv, Chunks, Busy, main
<1>8. Accounted'
  BY DEF WriteFails, IInv, Accounted, Waiting, Queued, Held, Done, Busy, main
<1>9. Progress'
  BY DEF WriteFails, IInv, Progress, Done
<1>10. Untouched'
  <2> DEFINE d == <<wJob[w].unit, wNext[w]>>
  <2>1. d \in Class /\ wJob[w] \in Chunk /\ wJob[w].unit \in Unit /\ d[1] = wJob[w].unit
    BY ClassParts DEF WriteFails, IInv, TypeWorker, Chunks, Busy, Chunk
  <2>2. /\ \E left \in {disk[d], "cut"} : disk' = [disk EXCEPT ![d] = left]
        /\ done' = done /\ wJob' = wJob /\ pc' = pc
    BY DEF WriteFails, main
  <2>3. \A v \in Workers : Busy(v) => Busy(v)'
    BY DEF WriteFails, IInv, TypeWorker, Busy
  <2>4. Busy(w) /\ \A u : u = d[1] => Held(u)'
    BY <2>1, <2>2, <2>3 DEF Held, WriteFails, Busy
  <2>5. pc # "inline"
    BY <2>4 DEF IInv, Phases, Busy, TypeFlags
  <2> HIDE DEF d
  <2>6. \A u \in Unit : (Held(u) => Held(u)') /\ (Done(u) => Done(u)')
    BY <2>2, <2>3 DEF Held, Done
  <2>7. \A c \in Class : c # d => disk'[c] = disk[c]
    BY <2>2 DEF IInv, TypeDisk
  <2> QED BY <2>2, <2>4, <2>5, <2>6, <2>7, ClassParts DEF IInv, Untouched
<1>11. Written'
  BY DEF WriteFails, IInv, Written
<1>12. Complete'
  <2>1. pc # "done"
    BY DEF WriteFails, IInv, Phases, Busy
  <2> QED BY <2>1 DEF WriteFails, main, IInv, Phases, Complete
<1>13. NothingLeft'
  <2>1. pc # "done"
    BY DEF WriteFails, IInv, Phases, Busy
  <2> QED BY <2>1 DEF WriteFails, main, IInv, Phases, NothingLeft
<1> QED BY <1>1, <1>2, <1>3, <1>4, <1>5, <1>6, <1>7, <1>8, <1>9, <1>10, <1>11, <1>12,
   <1>13 DEF IInv

\* The chunk a writer gives back goes from the writer to the done channel.
LEMMA GiveKeeps ==
  ASSUME IInv, NEW w \in Workers, Give(w)
  PROVE  IInv'
<1>1. TypeMain' /\ TypeFlags'
  BY DEF Give, IInv, TypeMain, TypeFlags, main
<1>2. TypeQueue'
  <2>1. wJob[w] \in Chunk /\ done \in Seq(Chunk) /\ done' = Append(done, wJob[w])
    BY DEF Give, IInv, TypeQueue, Chunks, Busy
  <2> QED BY <2>1, Appended DEF Give, IInv, TypeQueue
<1>3. TypeWorker'
  BY DEF Give, IInv, TypeWorker
<1>4. TypeDisk'
  BY DEF Give, IInv, TypeDisk, Versions
<1>5. Phases'
  BY DEF Give, IInv, Phases, Busy, main
<1>6. Exits'
  BY DEF Give, IInv, Exits, main
<1>7. Chunks'
  BY DEF Give, IInv, Chunks, Busy, TypeWorker, main
<1>8. Accounted'
  <2>1. wJob[w] \in Chunk /\ done \in Seq(Chunk) /\ done' = Append(done, wJob[w])
    BY DEF Give, IInv, TypeQueue, Chunks, Busy
  <2>2. \A u : Done(u) => Done(u)'
    BY <2>1, Appended DEF Done
  <2>3. \A u : u = wJob[w].unit => Done(u)'
    BY <2>1, Appended DEF Done
  <2>4. \A u : Held(u) => Held(u)' \/ u = wJob[w].unit
    BY DEF Give, IInv, TypeWorker, Held, Busy
  <2>5. \A u : (Waiting(u) => Waiting(u)') /\ (Queued(u) => Queued(u)')
    BY DEF Give, main, Waiting, Queued
  <2>6. emitFailed' = emitFailed /\ pc' = pc /\ unit' = unit
    BY DEF Give, main
  <2> QED BY <2>2, <2>3, <2>4, <2>5, <2>6 DEF IInv, Accounted
<1>9. Progress'
  <2>1. wJob[w] \in Chunk /\ done \in Seq(Chunk) /\ done' = Append(done, wJob[w])
    BY DEF Give, IInv, TypeQueue, Chunks, Busy
  <2> SUFFICES ASSUME ~failed, pc \in {"emit", "join"}
               PROVE Progress'
    BY DEF Progress, Give, main
  <2>2. \A u : Done(u)' => Done(u) \/ u = wJob[w].unit
    BY <2>1, Appended DEF Done
  <2>3. ASSUME NEW c \in Class, c[1] = wJob[w].unit PROVE disk[c] = "new"
    <3>1. c[2] \in 1..Size[wJob[w].unit] /\ c = <<wJob[w].unit, c[2]>>
      BY <2>3, ClassParts
    <3> QED BY <3>1 DEF Give, IInv, Progress
  <2>4. \A c \in Class : Done(c[1])' => disk'[c] = "new"
    BY <2>2, <2>3 DEF Give, IInv, Progress
  <2>5. ASSUME NEW v \in Workers, wpc'[v] \in {"write", "give"}
        PROVE  wpc'[v] = wpc[v] /\ wJob'[v] = wJob[v] /\ wNext'[v] = wNext[v]
    BY <2>5 DEF Give, IInv, TypeWorker
  <2> QED BY <2>4, <2>5 DEF Give, IInv, Progress
<1>10. Untouched'
  <2>1. wJob[w] \in Chunk /\ done \in Seq(Chunk) /\ done' = Append(done, wJob[w])
    BY DEF Give, IInv, TypeQueue, Chunks, Busy
  <2>2. \A u : Done(u) => Done(u)'
    BY <2>1, Appended DEF Done
  <2>3. \A u : u = wJob[w].unit => Done(u)'
    BY <2>1, Appended DEF Done
  <2>4. \A u : Held(u) => Held(u)' \/ u = wJob[w].unit
    BY DEF Give, IInv, TypeWorker, Held, Busy
  <2>5. disk' = disk /\ pc' = pc
    BY DEF Give, main
  <2> QED BY <2>2, <2>3, <2>4, <2>5 DEF IInv, Untouched
<1>11. Written'
  BY DEF Give, IInv, Written, main
<1>12. Complete'
  BY DEF Give, IInv, Complete, main
<1>13. NothingLeft'
  BY DEF Give, IInv, NothingLeft, main
<1> QED BY <1>1, <1>2, <1>3, <1>4, <1>5, <1>6, <1>7, <1>8, <1>9, <1>10, <1>11, <1>12,
   <1>13 DEF IInv

-----------------------------------------------------------------------------
(* Emitting a unit.                                                        *)

\* What every way of emitting a unit leaves alone.
EmitFrame ==
  /\ pc = "emit" /\ unit \in Unit /\ unit' = unit + 1
  /\ UNCHANGED <<poolMin, stuck, pc, emitFailed, closed, rx, worker, failed, done, emitted, wide, disk, outcome>>

\* A chunk list that only grows by the unit at hand keeps the invariant: the
\* unit is accounted for where it was put.
LEMMA PushKeeps ==
  ASSUME IInv, EmitFrame,
         pending' \in Seq(Unit), jobs' \in Seq(Chunk), nextSeq' \in Nat, pool' \in BOOLEAN,
         pool' => pending' = <<>>, ~pool' => ~pool /\ jobs' = <<>>,
         \A i \in 1..Len(pending') : Size[pending'[i]] > 0,
         \A i \in 1..Len(jobs') : Size[jobs'[i].unit] > 0,
         ~emitFailed => \A u \in Unit : Waiting(u) \/ Queued(u) \/ (u = unit /\ Size[u] > 0)
                                          => Waiting(u)' \/ Queued(u)'
  PROVE  IInv'
<1>0. /\ wpc' = wpc /\ wJob' = wJob /\ wNext' = wNext /\ disk' = disk /\ done' = done
      /\ closed' = closed /\ failed' = failed /\ emitFailed' = emitFailed /\ pc' = pc /\ pc = "emit"
      /\ outcome' = outcome /\ wide' = wide /\ stuck' = stuck
  BY DEF EmitFrame, worker
<1>1. TypeMain' /\ TypeFlags'
  <2>1. unit + 1 \in 1..(NUnits + 1)
    BY DEF EmitFrame, Unit
  <2> QED BY <2>1, <1>0 DEF EmitFrame, IInv, TypeMain, TypeFlags
<1>2. TypeQueue' /\ TypeWorker' /\ TypeDisk'
  BY <1>0 DEF IInv, TypeQueue, TypeWorker, TypeDisk
<1>3. ~closed /\ \A w \in Workers : wpc[w] # "exited"
  BY <1>0 DEF IInv, Phases, Exits
<1>4. Phases'
  <2>1. ~pool' => done' = <<>> /\ ~closed' /\ \A w \in Workers : wpc'[w] = "idle"
    BY <1>0, <1>3 DEF IInv, Phases
  <2> QED BY <2>1, <1>0, <1>3 DEF IInv, Phases
<1>5. Exits'
  BY <1>0, <1>3 DEF Exits
<1>6. Chunks'
  BY <1>0 DEF IInv, Chunks, Busy
<1>7. \A u : (Held(u) <=> Held(u)') /\ (Done(u) <=> Done(u)')
  BY <1>0 DEF Held, Done, Busy
<1>8. Accounted'
  <2> SUFFICES ASSUME ~emitFailed, NEW u \in Unit, u < unit + 1, Size[u] > 0
               PROVE  Waiting(u)' \/ Queued(u)' \/ Held(u)' \/ Done(u)'
    BY <1>0 DEF EmitFrame, Accounted
  <2>1. u < unit \/ u = unit
    BY DEF EmitFrame, Unit
  <2>2. u < unit => Waiting(u) \/ Queued(u) \/ Held(u) \/ Done(u)
    BY <1>0 DEF IInv, Accounted
  <2> QED BY <2>1, <2>2, <1>7
<1>9. Progress' /\ Untouched'
  BY <1>0, <1>7 DEF IInv, Progress, Untouched
<1>10. Written' /\ Complete' /\ NothingLeft'
  BY <1>0 DEF IInv, Written, Complete, NothingLeft
<1> QED BY <1>1, <1>2, <1>4, <1>5, <1>6, <1>8, <1>9, <1>10 DEF IInv

\* Emitting a unit: it is skipped after a failure, has no classes, or is
\* pushed to the channel, to the waiting list, or to a pool that starts.
LEMMA EmitUnitKeeps ==
  ASSUME IInv, EmitUnit
  PROVE  IInv'
<1>1. EmitFrame
  BY DEF EmitUnit, EmitFrame, IInv, TypeMain, Unit
<1>2. /\ pending \in Seq(Unit) /\ jobs \in Seq(Chunk) /\ nextSeq \in Nat /\ pool \in BOOLEAN
      /\ unit \in Unit
      /\ \A i \in 1..Len(pending) : Size[pending[i]] > 0
      /\ \A i \in 1..Len(jobs) : Size[jobs[i].unit] > 0
      /\ pool => pending = <<>>
      /\ ~pool => jobs = <<>>
  BY <1>1 DEF EmitFrame, IInv, TypeMain, TypeQueue, TypeFlags, Chunks, Phases
<1>0. Size[unit] \in Nat
  BY <1>2
<1>3. CASE emitFailed \/ Size[unit] = 0
  <2>1. UNCHANGED <<pending, pool, nextSeq, jobs>>
    BY <1>3 DEF EmitUnit, Push
  <2>2. \A u \in Unit : (Waiting(u) <=> Waiting(u)') /\ (Queued(u) <=> Queued(u)')
    BY <2>1 DEF Waiting, Queued
  <2>3. pool' => pending' = <<>>
    BY <2>1, <1>2
  <2>4. ~pool' => ~pool /\ jobs' = <<>>
    BY <2>1, <1>2
  <2> QED BY <1>1, <1>2, <1>3, <2>1, <2>2, <2>3, <2>4, PushKeeps
<1>4. CASE ~emitFailed /\ Size[unit] > 0 /\ pool
  <2> DEFINE k == [seq |-> nextSeq, unit |-> unit]
  <2>1. jobs' = Append(jobs, k) /\ nextSeq' = nextSeq + 1 /\ UNCHANGED <<pending, pool>>
    <3>1. Push(unit)
      BY <1>4 DEF EmitUnit
    <3>2. Size[unit] # 0 /\ pool
      BY <1>0, <1>4
    <3> QED BY <3>1, <3>2, Zenon DEF Push
  <2>2. k \in Chunk /\ k.unit = unit
    BY <1>2 DEF Chunk
  <2> HIDE DEF k
  <2>3. jobs' \in Seq(Chunk)
    BY <2>1, <2>2, <1>2, Appended
  <2>4. \A i \in 1..Len(jobs') : Size[jobs'[i].unit] > 0
    BY <2>1, <2>2, <1>2, <1>4, Appended
  <2>5. \A u \in Unit : Queued(u) \/ u = unit => Queued(u)'
    BY <2>1, <2>2, <1>2, Appended DEF Queued
  <2>6. \A u \in Unit : Waiting(u) => Waiting(u)'
    BY <2>1 DEF Waiting
  <2>7. pool' /\ pending' = <<>>
    BY <2>1, <1>2, <1>4
  <2> QED BY <1>1, <1>2, <2>1, <2>3, <2>4, <2>5, <2>6, <2>7, PushKeeps
<1>5. CASE ~emitFailed /\ Size[unit] > 0 /\ ~pool
  <2> DEFINE p == Append(pending, unit)
  <2>1. /\ p \in Seq(Unit)
        /\ \A i \in 1..Len(p) : Size[p[i]] > 0
        /\ \A u \in Unit : Waiting(u) \/ u = unit => \E i \in 1..Len(p) : p[i] = u
    BY <1>2, <1>5, Appended DEF Waiting
  <2>2. ~\E u \in Unit : Queued(u)
    BY <1>2, <1>5 DEF Queued
  <2>3. \/ pending' = p /\ UNCHANGED <<pool, nextSeq, jobs>>
        \/ /\ jobs' = [i \in 1..Len(p) |-> [seq |-> nextSeq + i - 1, unit |-> p[i]]]
           /\ nextSeq' = nextSeq + Len(p) /\ pending' = <<>> /\ pool' = TRUE
    BY <1>5 DEF EmitUnit, Push
  <2> HIDE DEF p
  <2>4. CASE pending' = p /\ UNCHANGED <<pool, nextSeq, jobs>>
    <3>1. \A u \in Unit : Waiting(u) \/ Queued(u) \/ u = unit => Waiting(u)'
      BY <2>1, <2>2, <2>4 DEF Waiting
    <3>2. ~pool' /\ ~pool /\ jobs' = <<>>
      BY <2>4, <1>2, <1>5
    <3> QED BY <1>1, <1>2, <2>1, <2>4, <3>1, <3>2, PushKeeps
  <2>5. CASE /\ jobs' = [i \in 1..Len(p) |-> [seq |-> nextSeq + i - 1, unit |-> p[i]]]
             /\ nextSeq' = nextSeq + Len(p) /\ pending' = <<>> /\ pool' = TRUE
    <3>0. Len(p) \in Nat
      BY <2>1
    <3>1. Len(p) \in Nat /\ nextSeq' \in Nat
      <4>1. nextSeq' = nextSeq + Len(p)
        BY <2>5
      <4> QED BY <4>1, <3>0, <1>2
    <3>2. \A i \in 1..Len(p) : [seq |-> nextSeq + i - 1, unit |-> p[i]] \in Chunk
      BY <2>1, <1>2, <3>1 DEF Chunk
    <3>3. jobs' \in Seq(Chunk) /\ Len(jobs') = Len(p)
      BY <2>5, <3>1, <3>2
    <3>4. \A i \in 1..Len(p) : jobs'[i].unit = p[i]
      BY <2>5, <3>1
    <3>5. \A i \in 1..Len(jobs') : Size[jobs'[i].unit] > 0
      BY <3>3, <3>4, <2>1
    <3>6. \A u \in Unit : Waiting(u) \/ Queued(u) \/ u = unit => Queued(u)'
      BY <3>3, <3>4, <2>1, <2>2 DEF Queued
    <3>7. pending' \in Seq(Unit) /\ \A i \in 1..Len(pending') : Size[pending'[i]] > 0
      BY <2>5
    <3> QED BY <1>1, <2>5, <3>1, <3>3, <3>5, <3>6, <3>7, PushKeeps
  <2> QED BY <2>3, <2>4, <2>5
<1> QED BY <1>0, <1>3, <1>4, <1>5

-----------------------------------------------------------------------------
\* No step of the compile or of a writer breaks the invariant.
LEMMA StepIInv == IInv /\ [Next]_vars => IInv'
<1> SUFFICES ASSUME IInv, [Next]_vars PROVE IInv'
  OBVIOUS
<1>1. CASE Compile
  BY <1>1, EmitUnitKeeps, EmitFailsKeeps, EndEmitKeeps, WriteInlineKeeps, JoinForFinishKeeps,
     JoinForDiscardKeeps, RewriteKeeps, ReportWriteErrorKeeps DEF Compile
<1>2. CASE \E w \in Workers : Writer(w)
  BY <1>2, LockJobsKeeps, RecvKeeps, RecvClosedKeeps, CheckFailedKeeps, WriteClassKeeps,
     WriteFailsKeeps, GiveKeeps DEF Writer
<1>3. CASE UNCHANGED vars
  <2>1. TypeMain' /\ TypeFlags' /\ TypeQueue' /\ TypeWorker' /\ TypeDisk'
    BY <1>3 DEF vars, main, worker, IInv, TypeMain, TypeFlags, TypeQueue, TypeWorker, TypeDisk
  <2>2. Phases' /\ Exits' /\ Chunks'
    BY <1>3 DEF vars, main, worker, IInv, Phases, Exits, Chunks, Busy
  <2>3. Accounted'
    BY <1>3 DEF vars, main, worker, IInv, Accounted, Waiting, Queued, Held, Done, Busy
  <2>4. Progress' /\ Untouched'
    BY <1>3 DEF vars, main, worker, IInv, Progress, Untouched, Held, Done, Busy
  <2>5. Written' /\ Complete' /\ NothingLeft'
    BY <1>3 DEF vars, main, worker, IInv, Written, Complete, NothingLeft
  <2> QED BY <2>1, <2>2, <2>3, <2>4, <2>5 DEF IInv
<1> QED BY <1>1, <1>2, <1>3 DEF Next

\* Every chunk is accounted for in every reachable state.
THEOREM Invariance == Spec => []IInv
<1>1. Init => IInv
  BY InitIInv
<1>2. IInv /\ [Next]_vars => IInv'
  BY StepIInv
<1> QED
  BY <1>1, <1>2, PTL DEF Spec

\* A compile that reports no error has every class of every unit on disk in
\* its final version, for every number of units, classes and writers.
THEOREM SuccessIsComplete == Spec => []Complete
<1>1. IInv => Complete
  BY DEF IInv
<1> QED
  BY <1>1, Invariance, PTL

\* A compile that fails the backend leaves no class file of the run behind
\* but those discard tried to remove and could not, wherever the writers were.
THEOREM WithdrawnLeavesNothing == Spec => []NothingLeft
<1>1. IInv => NothingLeft
  BY DEF IInv
<1> QED
  BY <1>1, Invariance, PTL

-----------------------------------------------------------------------------
\* Writing classes, all or up to a failing one, is a write of the promise.
LEMMA WriteIsWrite ==
  ASSUME TypeDisk, outcome = "running", UNCHANGED <<stuck, outcome>>, disk' \in [Class -> Versions],
         \A c \in Class : disk'[c] \in {disk[c], "cut", "new", "wide"}
  PROVE  Promise!Write
<1> DEFINE S == {c \in Class : disk'[c] # disk[c]}
           f == [c \in S |-> disk'[c]]
<1>1. S \in SUBSET Class /\ f \in [S -> Promise!OfRun]
  BY DEF Promise!OfRun
<1>2. disk' = [c \in Class |-> IF c \in S THEN f[c] ELSE disk[c]]
  BY DEF TypeDisk
<1> QED BY <1>1, <1>2 DEF Promise!Write

\* The writer implements the promise: every step, of the compile or of a
\* writer thread, writes class files, ends the compile as ClassTree allows,
\* or changes nothing the promise speaks of.
THEOREM Implements == Spec => Refines
<1>1. Init => Promise!Init
  BY DEF Init, Promise!Init, Promise!Earlier
<1>2. IInv /\ [Next]_vars => [Promise!Next]_<<disk, stuck, outcome>>
  <2> SUFFICES ASSUME IInv, IInv', [Next]_vars,
                      <<disk, stuck, outcome>>' # <<disk, stuck, outcome>>
               PROVE  Promise!Next
    BY StepIInv
  <2>0. TypeDisk /\ TypeDisk' /\ disk \in [Class -> Versions] /\ disk' \in [Class -> Versions]
    BY DEF IInv, TypeDisk
  <2>1. ASSUME EmitUnit \/ EmitFails \/ JoinForFinish \/ UNCHANGED vars PROVE FALSE
    BY <2>1 DEF EmitUnit, EmitFails, JoinForFinish, vars, main
  <2>2. disk' \in [Class -> Promise!Earlier \cup Promise!OfRun] /\ stuck' \in SUBSET Class
    <3>1. Versions = Promise!Earlier \cup Promise!OfRun
      BY DEF Versions, Promise!Earlier, Promise!OfRun
    <3> QED BY <2>0, <3>1 DEF IInv, TypeMain
  <2>3. CASE EndEmit \/ JoinForDiscard
    <3>1. outcome = "running" /\ outcome' = "withdrawn"
      BY <2>3 DEF EndEmit, JoinForDiscard, IInv, Phases
    <3>2. \A c \in Class : disk'[c] \in {"none", "old"} \/ c \in stuck'
      BY <3>1 DEF IInv, NothingLeft
    <3>3. \A c \in Class : disk'[c] \in {"none", disk[c]} /\ (c \in stuck' => disk'[c] = disk[c])
      BY <2>3 DEF EndEmit, JoinForDiscard, Remove
    <3> QED BY <2>2, <3>1, <3>2, <3>3 DEF Promise!Next, Promise!Withdraw, Promise!Earlier
  <2>4. CASE Rewrite
    <3>1. outcome = "running" /\ outcome' \in {"ok", "error"} /\ UNCHANGED stuck
      BY <2>4 DEF Rewrite, IInv, Phases
    <3>2. CASE outcome' = "ok"
      <4>1. disk' \in [Class -> {"new", "wide"}]
        BY <2>0, <3>2 DEF IInv, Complete
      <4> QED BY <3>1, <3>2, <4>1 DEF Promise!Next, Promise!Succeed
    <3>3. CASE outcome' = "error"
      BY <2>2, <3>1, <3>3 DEF Promise!Next, Promise!Fail
    <3> QED BY <3>1, <3>2, <3>3
  <2>5. CASE ReportWriteError
    <3>1. outcome = "running" /\ outcome' = "error" /\ UNCHANGED stuck
      BY <2>5 DEF ReportWriteError, IInv, Phases
    <3> QED BY <2>2, <3>1 DEF Promise!Next, Promise!Fail
  <2>6. CASE WriteInline
    <3>1. outcome = "running" /\ UNCHANGED <<stuck, outcome>>
      BY <2>6 DEF WriteInline, IInv, Phases
    <3>2. \A c \in Class : disk'[c] \in {disk[c], "cut", "new", "wide"}
      BY <2>6 DEF WriteInline, WriteAll, WriteSome
    <3> QED BY <2>0, <3>1, <3>2, WriteIsWrite DEF Promise!Next
  <2>7. ASSUME NEW w \in Workers, WriteClass(w) \/ WriteFails(w) PROVE Promise!Next
    <3>1. UNCHANGED <<stuck, outcome>> /\ outcome = "running"
      BY <2>7 DEF WriteClass, WriteFails, main, IInv, Phases, Busy
    <3>2. \A c \in Class : disk'[c] \in {disk[c], "cut", "new", "wide"}
      BY <2>0, <2>7 DEF WriteClass, WriteFails
    <3> QED BY <2>0, <3>1, <3>2, WriteIsWrite DEF Promise!Next
  <2>8. ASSUME NEW w \in Workers, LockJobs(w) \/ Recv(w) \/ RecvClosed(w) \/ CheckFailed(w) \/ Give(w)
        PROVE  FALSE
    BY <2>8 DEF LockJobs, Recv, RecvClosed, CheckFailed, Give, main
  <2> QED BY <2>1, <2>2, <2>3, <2>4, <2>5, <2>6, <2>7, <2>8 DEF Next, Compile, Writer
<1> QED
  BY <1>1, <1>2, Invariance, PTL DEF Spec, Refines, Promise!Spec

-----------------------------------------------------------------------------
(* Order.  The chunks on their way from push to the caller have the numbers *)
(* below nextSeq, each once, and larger units have larger numbers.          *)

InFlight == Elems(jobs) \cup {wJob[w] : w \in {v \in Workers : Busy(v)}} \cup Elems(done)

\* Every number that was given out is on a chunk in flight, and the numbers
\* follow the units.
Numbered ==
  /\ \A k \in InFlight : k \in Chunk /\ k.seq < nextSeq /\ k.unit < unit /\ Size[k.unit] > 0
  /\ \A k, l \in InFlight : k.seq < l.seq => k.unit < l.unit
  /\ \A n \in 0..(nextSeq - 1) : \E k \in InFlight : k.seq = n

\* No number is in two places: in the queue, with a writer, or among the done.
QueueApart == \A i, j \in 1..Len(jobs) : i # j => jobs[i].seq # jobs[j].seq
DoneApart  == /\ \A i, j \in 1..Len(done) : i # j => done[i].seq # done[j].seq
              /\ \A i \in 1..Len(jobs), j \in 1..Len(done) : jobs[i].seq # done[j].seq
HeldApart  ==
  \A w \in Workers : Busy(w) =>
    /\ \A v \in Workers : Busy(v) /\ v # w => wJob[v].seq # wJob[w].seq
    /\ \A i \in 1..Len(jobs) : jobs[i].seq # wJob[w].seq
    /\ \A i \in 1..Len(done) : done[i].seq # wJob[w].seq

\* The units held back are in order too, and behind the one emitted next.
HeldBack ==
  /\ \A i \in 1..Len(pending) : pending[i] < unit
  /\ \A i, j \in 1..Len(pending) : i < j => pending[i] < pending[j]

\* What finish gives back.
InPushOrder(s) ==
  /\ Elems(s) = {u \in Unit : Size[u] > 0}
  /\ \A i, j \in 1..Len(s) : i < j => s[i] < s[j]
Returned == pc = "widen" \/ outcome \in {"ok", "error"} => InPushOrder(emitted)

TypeRest == poolMin \in PoolMins /\ rx \in Workers \cup {Nobody} /\ emitted \in Seq(Unit)

OrderIInv == TypeRest /\ Numbered /\ QueueApart /\ DoneApart /\ HeldApart /\ HeldBack /\ Returned

Orders == Numbered /\ QueueApart /\ DoneApart /\ HeldApart /\ HeldBack

\* What is in flight, by place.
LEMMA FlightPlaces ==
  /\ \A i \in 1..Len(jobs) : jobs[i] \in InFlight
  /\ \A i \in 1..Len(done) : done[i] \in InFlight
  /\ \A w \in Workers : Busy(w) => wJob[w] \in InFlight
  /\ \A k \in InFlight : \/ \E i \in 1..Len(jobs) : k = jobs[i]
                         \/ \E i \in 1..Len(done) : k = done[i]
                         \/ \E w \in Workers : Busy(w) /\ k = wJob[w]
BY DEF InFlight, Elems

\* Steps that move no chunk keep the order, also when the next unit is skipped.
LEMMA OrdersKept ==
  ASSUME IInv, Orders,
         jobs' = jobs, done' = done, nextSeq' = nextSeq, pending' = pending,
         unit' \in {unit, unit + 1},
         \A w \in Workers : (Busy(w)' <=> Busy(w)) /\ wJob'[w] = wJob[w]
  PROVE  Orders'
<1>1. InFlight' = InFlight
  BY DEF InFlight, Elems
<1>2. unit \in Int /\ \A k \in InFlight : k.unit \in Int
  BY DEF IInv, TypeMain, Orders, Numbered, Chunk, Unit
<1>3. Numbered'
  <2>1. \A k \in InFlight : k.unit < unit => k.unit < unit'
    BY <1>2
  <2> QED BY <1>1, <2>1 DEF Orders, Numbered
<1>4. QueueApart' /\ DoneApart'
  BY DEF Orders, QueueApart, DoneApart
<1>5. HeldApart'
  BY DEF Orders, HeldApart
<1>6. HeldBack'
  <2>1. \A i \in 1..Len(pending) : pending[i] \in Int
    BY DEF IInv, TypeMain, Unit
  <2> QED BY <1>2, <2>1 DEF Orders, HeldBack
<1> QED BY <1>3, <1>4, <1>5, <1>6 DEF Orders

\* A writer takes the first chunk of the queue.
LEMMA RecvOrders ==
  ASSUME IInv, Orders, NEW w \in Workers, Recv(w)
  PROVE  Orders'
<1>1. /\ jobs \in Seq(Chunk) /\ jobs # <<>> /\ wJob \in [Workers -> Chunk \cup {NoJob}]
      /\ wpc \in [Workers -> {"idle", "recv", "check", "write", "give", "exited"}]
  BY DEF IInv, TypeQueue, TypeWorker, Recv
<1>2. jobs' = Tail(jobs) /\ UNCHANGED <<done, nextSeq, pending, unit>>
  BY DEF Recv, main
<1>3. /\ ~Busy(w) /\ Busy(w)' /\ wJob'[w] = Head(jobs)
      /\ \A v \in Workers : v # w => (Busy(v)' <=> Busy(v)) /\ wJob'[v] = wJob[v]
  BY <1>1 DEF Recv, Busy
<1>4. Len(jobs) \in Nat \ {0} /\ Head(jobs) = jobs[1] /\ 1 \in 1..Len(jobs)
  BY <1>1
<1>5. /\ Len(jobs') = Len(jobs) - 1
      /\ \A i \in 1..Len(jobs') : i + 1 \in 1..Len(jobs) /\ i + 1 # 1 /\ jobs'[i] = jobs[i + 1]
  BY <1>1, <1>2, <1>4
<1>6. \A i \in 1..Len(jobs) : i # 1 => i - 1 \in 1..Len(jobs') /\ jobs[i] = jobs'[i - 1]
  BY <1>4, <1>5
<1>7. InFlight' = InFlight
  <2>1. \A k \in InFlight : k \in InFlight'
    <3> SUFFICES ASSUME NEW k \in InFlight PROVE k \in InFlight'
      OBVIOUS
    <3>1. CASE \E i \in 1..Len(jobs) : k = jobs[i]
      <4>1. PICK i \in 1..Len(jobs) : k = jobs[i]
        BY <3>1
      <4>2. CASE i = 1
        BY <4>1, <4>2, <1>3, <1>4 DEF InFlight
      <4>3. CASE i # 1
        <5>1. i - 1 \in 1..Len(jobs') /\ k = jobs'[i - 1]
          BY <4>1, <4>3, <1>6
        <5> QED BY <5>1 DEF InFlight, Elems
      <4> QED BY <4>2, <4>3
    <3>2. CASE \E i \in 1..Len(done) : k = done[i]
      BY <3>2, <1>2 DEF InFlight, Elems
    <3>3. CASE \E v \in Workers : Busy(v) /\ k = wJob[v]
      BY <3>3, <1>3 DEF InFlight
    <3> QED BY <3>1, <3>2, <3>3, FlightPlaces
  <2>2. \A k \in InFlight' : k \in InFlight
    <3> SUFFICES ASSUME NEW k \in InFlight' PROVE k \in InFlight
      OBVIOUS
    <3>1. \/ \E i \in 1..Len(jobs') : k = jobs'[i]
          \/ \E i \in 1..Len(done) : k = done[i]
          \/ \E v \in Workers : Busy(v)' /\ k = wJob'[v]
      BY <1>2 DEF InFlight, Elems
    <3> QED BY <3>1, <1>3, <1>4, <1>5, FlightPlaces
  <2> QED BY <2>1, <2>2
<1>8. Numbered' /\ HeldBack'
  BY <1>2, <1>7 DEF Orders, Numbered, HeldBack
<1>9. QueueApart'
  <2> SUFFICES ASSUME NEW i \in 1..Len(jobs'), NEW j \in 1..Len(jobs'), i # j
               PROVE  jobs'[i].seq # jobs'[j].seq
    BY DEF QueueApart
  <2>1. i + 1 # j + 1
    BY <1>4, <1>5
  <2> QED BY <2>1, <1>5 DEF Orders, QueueApart
<1>10. DoneApart'
  BY <1>2, <1>5 DEF Orders, DoneApart
<1>11. HeldApart'
  <2>1. \A i \in 1..Len(jobs') : jobs'[i].seq # Head(jobs).seq
    BY <1>4, <1>5 DEF Orders, QueueApart
  <2>2. \A i \in 1..Len(done) : done[i].seq # Head(jobs).seq
    BY <1>4 DEF Orders, DoneApart
  <2>3. \A v \in Workers : Busy(v) => wJob[v].seq # Head(jobs).seq
    BY <1>4 DEF Orders, HeldApart
  <2>4. \A v \in Workers : Busy(v) => \A i \in 1..Len(jobs') : jobs'[i].seq # wJob[v].seq
    BY <1>5 DEF Orders, HeldApart
  <2>5. \A v \in Workers : Busy(v) => \A i \in 1..Len(done) : done[i].seq # wJob[v].seq
    BY DEF Orders, HeldApart
  <2>6. \A v, u \in Workers : Busy(v) /\ Busy(u) /\ u # v => wJob[u].seq # wJob[v].seq
    BY DEF Orders, HeldApart
  <2> QED BY <1>2, <1>3, <2>1, <2>2, <2>3, <2>4, <2>5, <2>6 DEF HeldApart
<1> QED BY <1>8, <1>9, <1>10, <1>11 DEF Orders

\* A writer gives its chunk back.
LEMMA GiveOrders ==
  ASSUME IInv, Orders, NEW w \in Workers, Give(w)
  PROVE  Orders'
<1>1. /\ done \in Seq(Chunk) /\ wJob \in [Workers -> Chunk \cup {NoJob}]
      /\ wpc \in [Workers -> {"idle", "recv", "check", "write", "give", "exited"}]
  BY DEF IInv, TypeQueue, TypeWorker
<1>2. done' = Append(done, wJob[w]) /\ UNCHANGED <<jobs, nextSeq, pending, unit>>
  BY DEF Give, main
<1>3. /\ Busy(w) /\ ~Busy(w)'
      /\ \A v \in Workers : v # w => (Busy(v)' <=> Busy(v)) /\ wJob'[v] = wJob[v]
  BY <1>1 DEF Give, Busy
<1>4. wJob[w] \in Chunk
  BY <1>3 DEF IInv, Chunks
<1>5. /\ Len(done') = Len(done) + 1 /\ Len(done) \in Nat
      /\ \A i \in 1..Len(done) : i \in 1..Len(done') /\ done'[i] = done[i]
      /\ Len(done') \in 1..Len(done') /\ done'[Len(done')] = wJob[w]
      /\ \A i \in 1..Len(done') : i \in 1..Len(done) \/ i = Len(done')
  BY <1>1, <1>2, <1>4
<1>6. InFlight' = InFlight
  <2>1. \A k \in InFlight : k \in InFlight'
    <3> SUFFICES ASSUME NEW k \in InFlight PROVE k \in InFlight'
      OBVIOUS
    <3>1. CASE \E i \in 1..Len(jobs) : k = jobs[i]
      BY <3>1, <1>2 DEF InFlight, Elems
    <3>2. CASE \E i \in 1..Len(done) : k = done[i]
      <4>1. \E i \in 1..Len(done') : k = done'[i]
        BY <3>2, <1>5
      <4> QED BY <4>1 DEF InFlight, Elems
    <3>3. CASE \E v \in Workers : Busy(v) /\ k = wJob[v]
      <4>1. PICK v \in Workers : Busy(v) /\ k = wJob[v]
        BY <3>3
      <4>2. CASE v = w
        <5>1. \E i \in 1..Len(done') : k = done'[i]
          BY <4>1, <4>2, <1>5
        <5> QED BY <5>1 DEF InFlight, Elems
      <4>3. CASE v # w
        BY <4>1, <4>3, <1>3 DEF InFlight
      <4> QED BY <4>2, <4>3
    <3> QED BY <3>1, <3>2, <3>3, FlightPlaces
  <2>2. \A k \in InFlight' : k \in InFlight
    <3> SUFFICES ASSUME NEW k \in InFlight' PROVE k \in InFlight
      OBVIOUS
    <3>1. \/ \E i \in 1..Len(jobs) : k = jobs[i]
          \/ \E i \in 1..Len(done') : k = done'[i]
          \/ \E v \in Workers : Busy(v)' /\ k = wJob'[v]
      BY <1>2 DEF InFlight, Elems
    <3> QED BY <3>1, <1>3, <1>5, FlightPlaces
  <2> QED BY <2>1, <2>2
<1>7. Numbered' /\ HeldBack'
  BY <1>2, <1>6 DEF Orders, Numbered, HeldBack
<1>8. QueueApart'
  BY <1>2 DEF Orders, QueueApart
<1>9. DoneApart'
  <2>1. \A i \in 1..Len(done) : done[i].seq # wJob[w].seq
    BY <1>3 DEF Orders, HeldApart
  <2>2. \A i \in 1..Len(jobs) : jobs[i].seq # wJob[w].seq
    BY <1>3 DEF Orders, HeldApart
  <2>3. \A i, j \in 1..Len(done') : i # j => done'[i].seq # done'[j].seq
    BY <2>1, <1>5 DEF Orders, DoneApart
  <2>4. \A i \in 1..Len(jobs), j \in 1..Len(done') : jobs[i].seq # done'[j].seq
    BY <2>2, <1>5 DEF Orders, DoneApart
  <2> QED BY <2>3, <2>4, <1>2 DEF DoneApart
<1>10. HeldApart'
  <2>1. \A v, u \in Workers : Busy(v) /\ Busy(u) /\ u # v => wJob[u].seq # wJob[v].seq
    BY DEF Orders, HeldApart
  <2>2. \A v \in Workers : Busy(v) /\ v # w => \A i \in 1..Len(done') : done'[i].seq # wJob[v].seq
    BY <2>1, <1>3, <1>5 DEF Orders, HeldApart
  <2>3. \A v \in Workers : Busy(v) => \A i \in 1..Len(jobs) : jobs[i].seq # wJob[v].seq
    BY DEF Orders, HeldApart
  <2> QED BY <2>1, <2>2, <2>3, <1>2, <1>3 DEF HeldApart
<1> QED BY <1>7, <1>8, <1>9, <1>10 DEF Orders

\* Without a pool nothing is in flight and no number has been given out.
LEMMA NothingInFlight ==
  ASSUME IInv, Orders, ~pool
  PROVE  /\ jobs = <<>> /\ done = <<>> /\ \A w \in Workers : ~Busy(w)
         /\ InFlight = {} /\ nextSeq = 0
<1>1. jobs = <<>> /\ done = <<>> /\ \A w \in Workers : ~Busy(w)
  BY DEF IInv, Phases, Busy
<1>2. InFlight = {}
  <2>1. Elems(jobs) = {} /\ Elems(done) = {}
    BY <1>1 DEF Elems
  <2> QED BY <1>1, <2>1 DEF InFlight
<1>3. nextSeq = 0
  <2>1. nextSeq \in Nat /\ (nextSeq # 0 => 0 \in 0..(nextSeq - 1))
    BY DEF IInv, TypeMain
  <2> QED BY <1>2, <2>1 DEF Orders, Numbered
<1> QED BY <1>1, <1>2, <1>3

\* A unit pushed to the pool is the last, and gets the next number.
LEMMA SendOrders ==
  ASSUME IInv, Orders, unit \in Unit, Size[unit] > 0, unit' = unit + 1,
         jobs' = Append(jobs, [seq |-> nextSeq, unit |-> unit]), nextSeq' = nextSeq + 1,
         UNCHANGED <<pending, done, wJob, wpc>>
  PROVE  Orders'
<1> DEFINE c == [seq |-> nextSeq, unit |-> unit]
<1>1. /\ nextSeq \in Nat /\ jobs \in Seq(Chunk) /\ unit \in Int
      /\ c \in Chunk /\ c.seq = nextSeq /\ c.unit = unit
  BY DEF IInv, TypeMain, TypeQueue, Chunk, Unit
<1>2. jobs' = Append(jobs, c)
  OBVIOUS
<1> HIDE DEF c
<1>3. /\ Len(jobs') = Len(jobs) + 1 /\ Len(jobs) \in Nat
      /\ \A i \in 1..Len(jobs) : i \in 1..Len(jobs') /\ jobs'[i] = jobs[i]
      /\ Len(jobs') \in 1..Len(jobs') /\ jobs'[Len(jobs')] = c
      /\ \A i \in 1..Len(jobs') : i \in 1..Len(jobs) \/ i = Len(jobs')
  BY <1>1, <1>2
<1>4. \A w \in Workers : Busy(w)' <=> Busy(w)
  BY DEF Busy
<1>5. InFlight' = InFlight \cup {c}
  <2>1. Elems(jobs') = Elems(jobs) \cup {c}
    BY <1>3 DEF Elems
  <2> QED BY <1>4, <2>1 DEF InFlight, Elems
<1>6. \A k \in InFlight : /\ k \in Chunk /\ k.seq \in Nat /\ k.unit \in Int
                          /\ k.seq < nextSeq /\ k.unit < unit /\ Size[k.unit] > 0
  BY DEF Orders, Numbered, Chunk, Unit
<1>7. Numbered'
  <2>1. \A k \in InFlight' : k \in Chunk /\ k.seq < nextSeq' /\ k.unit < unit' /\ Size[k.unit] > 0
    BY <1>1, <1>5, <1>6
  <2>2. \A k, l \in InFlight' : k.seq < l.seq => k.unit < l.unit
    <3> SUFFICES ASSUME NEW k \in InFlight', NEW l \in InFlight', k.seq < l.seq PROVE k.unit < l.unit
      OBVIOUS
    <3>1. CASE k = c
      BY <3>1, <1>1, <1>5, <1>6
    <3>2. CASE k \in InFlight /\ l = c
      BY <3>2, <1>1, <1>6
    <3>3. CASE k \in InFlight /\ l \in InFlight
      BY <3>3 DEF Orders, Numbered
    <3> QED BY <3>1, <3>2, <3>3, <1>5
  <2>3. \A n \in 0..(nextSeq' - 1) : \E k \in InFlight' : k.seq = n
    <3> SUFFICES ASSUME NEW n \in 0..(nextSeq' - 1) PROVE \E k \in InFlight' : k.seq = n
      OBVIOUS
    <3>1. CASE n = nextSeq
      BY <3>1, <1>1, <1>5
    <3>2. CASE n # nextSeq
      <4>1. n \in 0..(nextSeq - 1)
        BY <3>2, <1>1
      <4> QED BY <4>1, <1>5 DEF Orders, Numbered
    <3> QED BY <3>1, <3>2
  <2> QED BY <2>1, <2>2, <2>3 DEF Numbered
<1>8. \A k \in InFlight : k.seq # c.seq
  BY <1>1, <1>6
<1>9. QueueApart'
  <2>1. \A i \in 1..Len(jobs) : jobs[i].seq # c.seq
    BY <1>8, FlightPlaces
  <2> QED BY <2>1, <1>3 DEF Orders, QueueApart
<1>10. DoneApart'
  <2>1. \A i \in 1..Len(done) : done[i].seq # c.seq
    BY <1>8, FlightPlaces
  <2> QED BY <2>1, <1>3 DEF Orders, DoneApart
<1>11. HeldApart'
  <2>1. \A w \in Workers : Busy(w) => wJob[w].seq # c.seq
    BY <1>8, FlightPlaces
  <2> QED BY <2>1, <1>3, <1>4 DEF Orders, HeldApart
<1>12. HeldBack'
  <2>1. \A i \in 1..Len(pending) : pending[i] \in Int
    BY DEF IInv, TypeMain, Unit
  <2> QED BY <2>1, <1>1 DEF Orders, HeldBack
<1> QED BY <1>7, <1>9, <1>10, <1>11, <1>12 DEF Orders

\* The units held back, with the one at hand, are in order.
LEMMA PendingOrder ==
  ASSUME IInv, Orders, unit \in Unit
  PROVE  LET p == Append(pending, unit) IN
         /\ p \in Seq(Unit) /\ Len(p) \in Nat
         /\ \A i \in 1..Len(p) : p[i] < unit + 1
         /\ \A i, j \in 1..Len(p) : i < j => p[i] < p[j]
<1> DEFINE p == Append(pending, unit)
<1>1. pending \in Seq(Unit) /\ unit \in Int /\ Len(pending) \in Nat
  BY DEF IInv, TypeMain, Unit
<1>2. \A i \in 1..Len(pending) : pending[i] \in Int /\ pending[i] < unit
  BY <1>1 DEF Orders, HeldBack, Unit
<1>3. /\ p \in Seq(Unit) /\ Len(p) = Len(pending) + 1 /\ p[Len(p)] = unit
      /\ \A i \in 1..Len(pending) : p[i] = pending[i]
      /\ \A i \in 1..Len(p) : i \in 1..Len(pending) \/ i = Len(p)
  BY <1>1
<1> HIDE DEF p
<1>4. \A i \in 1..Len(p) : p[i] < unit + 1
  BY <1>1, <1>2, <1>3
<1>5. \A i, j \in 1..Len(p) : i < j => p[i] < p[j]
  <2> SUFFICES ASSUME NEW i \in 1..Len(p), NEW j \in 1..Len(p), i < j PROVE p[i] < p[j]
    OBVIOUS
  <2>1. i \in 1..Len(pending)
    BY <1>1, <1>3
  <2>2. CASE j = Len(p)
    BY <2>1, <2>2, <1>2, <1>3
  <2>3. CASE j \in 1..Len(pending)
    BY <2>1, <2>3, <1>3 DEF Orders, HeldBack
  <2> QED BY <2>2, <2>3, <1>3
<1>6. p \in Seq(Unit) /\ Len(p) \in Nat
  BY <1>1, <1>3
<1> QED BY <1>4, <1>5, <1>6 DEF p

\* The pool starts with the units held back, numbered as they come.
LEMMA StartOrders ==
  ASSUME IInv, Orders, unit \in Unit, ~pool, unit' = unit + 1,
         NEW p \in Seq(Unit),
         \A i \in 1..Len(p) : Size[p[i]] > 0 /\ p[i] < unit + 1,
         \A i, j \in 1..Len(p) : i < j => p[i] < p[j],
         jobs' = [i \in 1..Len(p) |-> [seq |-> nextSeq + i - 1, unit |-> p[i]]],
         nextSeq' = nextSeq + Len(p), pending' = <<>>,
         UNCHANGED <<done, wJob, wpc>>
  PROVE  Orders'
<1>1. /\ nextSeq = 0 /\ done = <<>> /\ Len(p) \in Nat /\ nextSeq' = Len(p)
      /\ \A w \in Workers : ~Busy(w)'
  BY NothingInFlight DEF Busy
<1>2. /\ Len(jobs') = Len(p)
      /\ \A i \in 1..Len(p) : jobs'[i] \in Chunk /\ jobs'[i].seq = i - 1 /\ jobs'[i].unit = p[i]
  <2>1. \A i \in 1..Len(p) : [seq |-> nextSeq + i - 1, unit |-> p[i]] \in Chunk
    BY <1>1 DEF Chunk
  <2>2. jobs' \in Seq(Chunk) /\ Len(jobs') = Len(p)
    BY <1>1, <2>1
  <2> QED BY <1>1, <2>1, <2>2
<1>3. /\ InFlight' = {jobs'[i] : i \in 1..Len(p)}
  <2>1. Elems(done') = {} /\ Elems(jobs') = {jobs'[i] : i \in 1..Len(p)}
    BY <1>1, <1>2 DEF Elems
  <2> QED BY <1>1, <2>1 DEF InFlight, Elems
<1>4. Numbered'
  <2>1. \A k \in InFlight' : k \in Chunk /\ k.seq < nextSeq' /\ k.unit < unit' /\ Size[k.unit] > 0
    BY <1>1, <1>2, <1>3
  <2>2. \A k, l \in InFlight' : k.seq < l.seq => k.unit < l.unit
    <3> SUFFICES ASSUME NEW i \in 1..Len(p), NEW j \in 1..Len(p), jobs'[i].seq < jobs'[j].seq
                 PROVE  jobs'[i].unit < jobs'[j].unit
      BY <1>3
    <3>1. i < j
      BY <1>2
    <3> QED BY <3>1, <1>2
  <2>3. \A n \in 0..(nextSeq' - 1) : \E k \in InFlight' : k.seq = n
    <3> SUFFICES ASSUME NEW n \in 0..(nextSeq' - 1) PROVE \E k \in InFlight' : k.seq = n
      OBVIOUS
    <3>1. n + 1 \in 1..Len(p) /\ jobs'[n + 1].seq = n
      BY <1>1, <1>2
    <3> QED BY <3>1, <1>3
  <2> QED BY <2>1, <2>2, <2>3 DEF Numbered
<1>5. QueueApart'
  BY <1>2 DEF QueueApart
<1>6. DoneApart'
  BY <1>1 DEF DoneApart
<1>7. HeldApart' /\ HeldBack'
  BY <1>1 DEF HeldApart, HeldBack
<1> QED BY <1>4, <1>5, <1>6, <1>7 DEF Orders

\* Emitting a unit keeps the order, wherever the unit goes.
LEMMA EmitUnitOrders ==
  ASSUME IInv, Orders, EmitUnit
  PROVE  Orders'
<1>1. /\ unit' = unit + 1 /\ unit \in Unit /\ Size[unit] \in Nat
      /\ done' = done /\ wJob' = wJob /\ wpc' = wpc
  BY DEF EmitUnit, IInv, TypeMain, Unit, worker
<1>2. CASE emitFailed \/ Size[unit] = 0
  <2>1. UNCHANGED <<pending, pool, nextSeq, jobs>>
    BY <1>2 DEF EmitUnit, Push
  <2>2. \A w \in Workers : (Busy(w)' <=> Busy(w)) /\ wJob'[w] = wJob[w]
    BY <1>1 DEF Busy
  <2> QED BY <1>1, <2>1, <2>2, OrdersKept
<1>3. CASE ~emitFailed /\ Size[unit] > 0 /\ pool
  <2>1. Push(unit) /\ Size[unit] # 0 /\ pool
    BY <1>1, <1>3 DEF EmitUnit
  <2>2. /\ jobs' = Append(jobs, [seq |-> nextSeq, unit |-> unit]) /\ nextSeq' = nextSeq + 1
        /\ UNCHANGED <<pending, pool>>
    BY <2>1, Zenon DEF Push
  <2> QED BY <1>1, <1>3, <2>2, SendOrders
<1>4. CASE ~emitFailed /\ Size[unit] > 0 /\ ~pool
  <2> DEFINE p == Append(pending, unit)
  <2>1. \/ pending' = p /\ UNCHANGED <<pool, nextSeq, jobs>>
        \/ /\ jobs' = [i \in 1..Len(p) |-> [seq |-> nextSeq + i - 1, unit |-> p[i]]]
           /\ nextSeq' = nextSeq + Len(p) /\ pending' = <<>> /\ pool' = TRUE
    BY <1>4 DEF EmitUnit, Push
  <2>2. /\ p \in Seq(Unit) /\ Len(p) \in Nat
        /\ \A i \in 1..Len(p) : p[i] < unit + 1
        /\ \A i, j \in 1..Len(p) : i < j => p[i] < p[j]
    BY <1>1, PendingOrder
  <2>3. \A i \in 1..Len(p) : Size[p[i]] > 0
    <3>1. pending \in Seq(Unit) /\ \A i \in 1..Len(pending) : Size[pending[i]] > 0
      BY DEF IInv, TypeMain, Chunks
    <3> QED BY <3>1, <1>1, <1>4, Appended
  <2> HIDE DEF p
  <2>4. CASE pending' = p /\ UNCHANGED <<pool, nextSeq, jobs>>
    <3>1. /\ jobs = <<>> /\ done = <<>> /\ InFlight = {} /\ nextSeq = 0
          /\ \A w \in Workers : ~Busy(w)' /\ ~Busy(w)
      BY <1>1, <1>4, NothingInFlight DEF Busy
    <3>2. InFlight' = {}
      BY <1>1, <2>4, <3>1 DEF InFlight, Elems
    <3>3. Numbered'
      BY <3>1, <3>2, <2>4 DEF Numbered
    <3>4. QueueApart' /\ DoneApart' /\ HeldApart'
      BY <3>1, <1>1, <2>4 DEF QueueApart, DoneApart, HeldApart
    <3>5. HeldBack'
      BY <1>1, <2>2, <2>4 DEF HeldBack
    <3> QED BY <3>3, <3>4, <3>5 DEF Orders
  <2>5. CASE /\ jobs' = [i \in 1..Len(p) |-> [seq |-> nextSeq + i - 1, unit |-> p[i]]]
             /\ nextSeq' = nextSeq + Len(p) /\ pending' = <<>> /\ pool' = TRUE
    BY <1>1, <1>4, <2>2, <2>3, <2>5, StartOrders
  <2> QED BY <2>1, <2>4, <2>5
<1> QED BY <1>1, <1>2, <1>3, <1>4

-----------------------------------------------------------------------------
\* Two sequences as long as one another, each with what the other has.
LEMMA SameElems ==
  ASSUME NEW s, NEW t, Len(t) = Len(s),
         \A i \in 1..Len(s) : \E j \in 1..Len(s) : t[i] = s[j],
         \A j \in 1..Len(s) : \E i \in 1..Len(s) : t[i] = s[j]
  PROVE  Elems(t) = Elems(s)
<1>1. ASSUME NEW i \in 1..Len(s) PROVE t[i] \in Elems(s)
  <2>1. PICK j \in 1..Len(s) : t[i] = s[j]
    OBVIOUS
  <2> QED BY <2>1 DEF Elems
<1>2. ASSUME NEW j \in 1..Len(s) PROVE s[j] \in Elems(t)
  <2>1. PICK i \in 1..Len(s) : t[i] = s[j]
    OBVIOUS
  <2> QED BY <2>1 DEF Elems
<1>3. ASSUME NEW e \in Elems(t) PROVE e \in Elems(s)
  BY <1>1, <1>3 DEF Elems
<1>4. ASSUME NEW e \in Elems(s) PROVE e \in Elems(t)
  BY <1>2, <1>4 DEF Elems
<1> QED BY <1>3, <1>4

\* Numbers that are distinct, and are the first Len(s) numbers, can be put in
\* order: sort_by_key gives the chunks by number, each of them once.
LEMMA SortOrders ==
  ASSUME NEW s \in Seq(Chunk), NEW n \in Nat,
         \A i, j \in 1..Len(s) : i # j => s[i].seq # s[j].seq,
         \A i \in 1..Len(s) : s[i].seq \in 0..(n - 1),
         \A m \in 0..(n - 1) : \E i \in 1..Len(s) : s[i].seq = m
  PROVE  LET t == InSeqOrder(s) IN
         /\ t \in Seq(Chunk) /\ Len(t) = Len(s) /\ Elems(t) = Elems(s)
         /\ \A i, j \in 1..Len(t) : i < j => t[i].seq < t[j].seq
<1> DEFINE Place == 1..Len(s)
           First(i, j) == s[i].seq < s[j].seq \/ (s[i].seq = s[j].seq /\ i < j)
           Sorts(p) == \A i, j \in Place : i < j => First(p[i], p[j])
           order == CHOOSE p \in [Place -> Place] : Sorts(p)
<1>1. Len(s) \in Nat /\ \A i \in Place : s[i] \in Chunk /\ s[i].seq \in Nat
  <2>1. Len(s) \in Nat /\ \A i \in Place : s[i] \in Chunk
    OBVIOUS
  <2>2. \A k \in Chunk : k.seq \in Nat
    BY DEF Chunk
  <2> QED BY <2>1, <2>2
<1>2. IsFiniteSet(Place) /\ Cardinality(Place) = Len(s)
  <2>1. IsFiniteSet(Place) /\ Cardinality(Place) = IF 1 > Len(s) THEN 0 ELSE Len(s) - 1 + 1
    BY <1>1, FS_Interval
  <2> QED BY <1>1, <2>1
<1>3. Len(s) = n
  <2> DEFINE f == [i \in Place |-> s[i].seq]
  <2>1. f \in Bijection(Place, 0..(n - 1))
    <3>1. f \in [Place -> 0..(n - 1)]
      OBVIOUS
    <3>2. \A i, j \in Place : f[i] = f[j] => i = j
      OBVIOUS
    <3>3. \A m \in 0..(n - 1) : \E i \in Place : f[i] = m
      OBVIOUS
    <3> QED BY <3>1, <3>2, <3>3 DEF Bijection, Injection, Surjection, IsInjective
  <2>2. ExistsBijection(Place, 0..(n - 1))
    BY <2>1 DEF ExistsBijection
  <2>3. Cardinality(0..(n - 1)) = Cardinality(Place)
    BY <1>2, <2>2, FS_Bijection
  <2>4. Cardinality(0..(n - 1)) = IF 0 > n - 1 THEN 0 ELSE (n - 1) - 0 + 1
    <3>1. 0 \in Int /\ n - 1 \in Int
      OBVIOUS
    <3> QED BY <3>1, FS_Interval
  <2>5. Cardinality(0..(n - 1)) = n
    BY <2>4
  <2> QED BY <1>2, <2>3, <2>5
<1>4. \E p \in [Place -> Place] : Sorts(p)
  <2> DEFINE q == [i \in Place |-> CHOOSE j \in Place : s[j].seq = i - 1]
  <2>1. \A i \in Place : q[i] \in Place /\ s[q[i]].seq = i - 1
    <3> SUFFICES ASSUME NEW i \in Place PROVE q[i] \in Place /\ s[q[i]].seq = i - 1
      OBVIOUS
    <3>1. \E j \in Place : s[j].seq = i - 1
      BY <1>3
    <3> QED BY <3>1
  <2>2. q \in [Place -> Place]
    BY <2>1
  <2> HIDE DEF q
  <2>3. Sorts(q)
    BY <2>1
  <2> QED BY <2>2, <2>3
<1>5. order \in [Place -> Place] /\ Sorts(order)
  BY <1>4
<1>6. InSeqOrder(s) = [i \in Place |-> s[order[i]]]
  BY DEF InSeqOrder
<1> HIDE DEF order
<1> DEFINE t == [i \in Place |-> s[order[i]]]
<1>7. \A i, j \in Place : i < j => order[i] # order[j] /\ t[i].seq < t[j].seq
  <2> SUFFICES ASSUME NEW i \in Place, NEW j \in Place, i < j
               PROVE  order[i] # order[j] /\ s[order[i]].seq < s[order[j]].seq
    OBVIOUS
  <2>1. order[i] \in Place /\ order[j] \in Place /\ First(order[i], order[j])
    BY <1>5
  <2>2. order[i] \in Nat /\ s[order[i]].seq \in Nat /\ s[order[j]].seq \in Nat
    BY <1>1, <2>1
  <2>3. order[i] # order[j]
    BY <2>1, <2>2
  <2> QED BY <2>1, <2>2, <2>3
<1>8. t \in Seq(Chunk) /\ Len(t) = Len(s)
  BY <1>1, <1>5
<1>9. order \in Surjection(Place, Place)
  <2>1. \A i, j \in Place : order[i] = order[j] => i = j
    BY <1>1, <1>7
  <2>2. order \in Injection(Place, Place)
    BY <2>1, <1>5 DEF Injection, IsInjective
  <2> QED BY <2>2, <1>2, FS_Injection
<1>10. Elems(t) = Elems(s)
  <2>1. \A j \in Place : \E i \in Place : order[i] = j
    BY <1>9 DEF Surjection
  <2>2. \A j \in Place : \E i \in Place : t[i] = s[j]
    BY <2>1
  <2>3. \A i \in Place : \E j \in Place : t[i] = s[j]
    BY <1>5
  <2> QED BY <2>2, <2>3, <1>8, SameElems
<1> HIDE DEF t
<1>11. \A i, j \in 1..Len(t) : i < j => t[i].seq < t[j].seq
  BY <1>7, <1>8
<1>12. InSeqOrder(s) = t
  BY <1>6 DEF t
<1> QED BY <1>8, <1>10, <1>11, <1>12

\* When the writers have exited every unit's chunk is done; finish sorts them.
LEMMA FinishOrder ==
  ASSUME IInv, Orders, JoinForFinish
  PROVE  emitted' \in Seq(Unit) /\ InPushOrder(emitted')
<1> DEFINE t == InSeqOrder(done)
<1>1. jobs = <<>> /\ pending = <<>> /\ \A w \in Workers : ~Busy(w)
  BY DEF JoinForFinish, IInv, Phases, Exits, Busy
<1>2. InFlight = Elems(done)
  <2>1. Elems(jobs) = {}
    BY <1>1 DEF Elems
  <2> QED BY <1>1, <2>1 DEF InFlight
<1>3. done \in Seq(Chunk) /\ nextSeq \in Nat
  BY DEF IInv, TypeMain, TypeQueue
<1>4. \A i \in 1..Len(done) : done[i] \in InFlight /\ done[i].seq \in 0..(nextSeq - 1)
  <2> SUFFICES ASSUME NEW i \in 1..Len(done) PROVE done[i] \in InFlight /\ done[i].seq \in 0..(nextSeq - 1)
    OBVIOUS
  <2>1. done[i] \in InFlight
    BY FlightPlaces
  <2>2. done[i].seq \in Nat /\ done[i].seq < nextSeq
    BY <2>1 DEF Orders, Numbered, Chunk
  <2> QED BY <1>3, <2>1, <2>2
<1>5. \A m \in 0..(nextSeq - 1) : \E i \in 1..Len(done) : done[i].seq = m
  BY <1>2 DEF Orders, Numbered, Elems
<1>6. \A i, j \in 1..Len(done) : i # j => done[i].seq # done[j].seq
  BY DEF Orders, DoneApart
<1>7. /\ t \in Seq(Chunk) /\ Elems(t) = Elems(done)
      /\ \A i, j \in 1..Len(t) : i < j => t[i].seq < t[j].seq
  BY <1>3, <1>4, <1>5, <1>6, SortOrders
<1>8. emitted' = UnitsOf(t)
  BY DEF JoinForFinish
<1> HIDE DEF t
<1>9. Len(t) \in Nat /\ \A i \in 1..Len(t) : t[i] \in Chunk /\ t[i].unit \in Unit
  <2>1. Len(t) \in Nat /\ \A i \in 1..Len(t) : t[i] \in Chunk
    BY <1>7
  <2>2. \A k \in Chunk : k.unit \in Unit
    BY DEF Chunk
  <2> QED BY <2>1, <2>2
<1>10. /\ emitted' \in Seq(Unit) /\ Len(emitted') = Len(t)
       /\ \A i \in 1..Len(t) : emitted'[i] = t[i].unit
  BY <1>8, <1>9 DEF UnitsOf
<1>11. \A i \in 1..Len(t) : t[i] \in InFlight
  BY <1>2, <1>7 DEF Elems
<1>12. \A i, j \in 1..Len(emitted') : i < j => emitted'[i] < emitted'[j]
  BY <1>7, <1>10, <1>11 DEF Orders, Numbered
<1>13. \A i \in 1..Len(emitted') : emitted'[i] \in {u \in Unit : Size[u] > 0}
  BY <1>9, <1>10, <1>11 DEF Orders, Numbered
<1>14. \A u \in Unit : Size[u] > 0 => \E i \in 1..Len(emitted') : emitted'[i] = u
  <2> SUFFICES ASSUME NEW u \in Unit, Size[u] > 0 PROVE \E i \in 1..Len(emitted') : emitted'[i] = u
    OBVIOUS
  <2>1. u < unit
    BY DEF JoinForFinish, IInv, Phases, Unit
  <2>2. Done(u)
    BY <2>1, <1>1 DEF JoinForFinish, IInv, Accounted, Waiting, Queued, Held
  <2>3. \E k \in Elems(done) : k.unit = u
    BY <2>2 DEF Done, Elems
  <2>4. \E i \in 1..Len(t) : t[i].unit = u
    BY <2>3, <1>7 DEF Elems
  <2> QED BY <2>4, <1>10
<1>15. Elems(emitted') = {u \in Unit : Size[u] > 0}
  BY <1>13, <1>14 DEF Elems
<1> QED BY <1>10, <1>12, <1>15 DEF InPushOrder

\* Too few classes for a pool: all units are held back, in order.
LEMMA InlineOrder ==
  ASSUME IInv, Orders, WriteInline
  PROVE  emitted' \in Seq(Unit) /\ InPushOrder(emitted')
<1>1. emitted' = pending /\ pending \in Seq(Unit) /\ ~pool /\ ~emitFailed /\ unit = NUnits + 1
  BY DEF WriteInline, IInv, TypeMain, Phases
<1>2. jobs = <<>> /\ done = <<>> /\ \A w \in Workers : ~Busy(w)
  BY <1>1, NothingInFlight
<1>3. \A u \in Unit : Size[u] > 0 => \E i \in 1..Len(pending) : pending[i] = u
  <2> SUFFICES ASSUME NEW u \in Unit, Size[u] > 0 PROVE Waiting(u)
    BY DEF Waiting
  <2>1. u < unit
    BY <1>1 DEF Unit
  <2> QED BY <2>1, <1>1, <1>2 DEF WriteInline, IInv, Accounted, Queued, Held, Done
<1>4. \A i \in 1..Len(pending) : pending[i] \in Unit /\ Size[pending[i]] > 0
  BY <1>1 DEF IInv, Chunks
<1>5. Elems(pending) = {u \in Unit : Size[u] > 0}
  BY <1>3, <1>4 DEF Elems
<1>6. InPushOrder(pending)
  BY <1>5 DEF InPushOrder, Orders, HeldBack
<1> QED BY <1>1, <1>6

\* Every step keeps the order of the chunks.
LEMMA OrdersStep == IInv /\ Orders /\ [Next]_vars => Orders'
<1> SUFFICES ASSUME IInv, Orders, [Next]_vars PROVE Orders'
  OBVIOUS
<1>0. wpc \in [Workers -> {"idle", "recv", "check", "write", "give", "exited"}] /\ unit \in Int
  BY DEF IInv, TypeWorker, TypeMain
<1>1. CASE EmitUnit
  BY <1>1, EmitUnitOrders
<1>2. CASE EmitFails \/ EndEmit \/ WriteInline \/ JoinForFinish \/ JoinForDiscard \/ Rewrite
           \/ ReportWriteError \/ UNCHANGED vars
  <2>1. /\ UNCHANGED <<jobs, done, nextSeq, pending, wpc, wJob>>
        /\ unit' \in {unit, unit + 1}
    BY <1>2 DEF EmitFails, EndEmit, WriteInline, JoinForFinish, JoinForDiscard, Rewrite,
                ReportWriteError, vars, main, worker
  <2>2. \A w \in Workers : (Busy(w)' <=> Busy(w)) /\ wJob'[w] = wJob[w]
    BY <2>1 DEF Busy
  <2> QED BY <2>1, <2>2, OrdersKept
<1>3. ASSUME NEW w \in Workers, LockJobs(w) \/ RecvClosed(w) \/ CheckFailed(w) \/ WriteClass(w) \/ WriteFails(w)
      PROVE  Orders'
  <2>1. UNCHANGED <<jobs, done, nextSeq, pending, wJob, unit>>
    BY <1>3 DEF LockJobs, RecvClosed, CheckFailed, WriteClass, WriteFails, main
  <2>2. \A v \in Workers : Busy(v)' <=> Busy(v)
    BY <1>0, <1>3 DEF LockJobs, RecvClosed, CheckFailed, WriteClass, WriteFails, Busy
  <2> QED BY <2>1, <2>2, OrdersKept
<1>4. ASSUME NEW w \in Workers, Recv(w) \/ Give(w) PROVE Orders'
  BY <1>4, RecvOrders, GiveOrders
<1> QED BY <1>1, <1>2, <1>3, <1>4 DEF Next, Compile, Writer

\* Every step keeps what finish has given back, and the remaining types.
LEMMA ReturnedStep ==
  IInv /\ OrderIInv /\ [Next]_vars => TypeRest' /\ Returned'
<1> SUFFICES ASSUME IInv, OrderIInv, [Next]_vars PROVE TypeRest' /\ Returned'
  OBVIOUS
<1>0. Orders /\ TypeRest /\ Returned
  BY DEF OrderIInv, Orders
<1>1. poolMin' = poolMin
  BY DEF Next, Compile, Writer, EmitUnit, EmitFails, EndEmit, WriteInline, JoinForFinish,
         JoinForDiscard, Rewrite, ReportWriteError, LockJobs, Recv, RecvClosed, CheckFailed,
         WriteClass, WriteFails, Give, vars, main
<1>2. rx' \in Workers \cup {Nobody}
  BY <1>0 DEF TypeRest, Next, Compile, Writer, EmitUnit, EmitFails, EndEmit, WriteInline,
         JoinForFinish, JoinForDiscard, Rewrite, ReportWriteError, LockJobs, Recv, RecvClosed,
         CheckFailed, WriteClass, WriteFails, Give, vars, main
<1>3. emitted' \in Seq(Unit) /\ Returned'
  <2>1. CASE WriteInline
    BY <2>1, <1>0, InlineOrder DEF Returned, InPushOrder
  <2>2. CASE JoinForFinish
    BY <2>2, <1>0, FinishOrder DEF Returned, InPushOrder
  <2>3. CASE Rewrite \/ ReportWriteError
    <3>1. pc = "widen" /\ emitted' = emitted
      BY <2>3 DEF Rewrite, ReportWriteError
    <3> QED BY <3>1, <1>0 DEF TypeRest, Returned, InPushOrder
  <2>4. CASE EmitUnit \/ EmitFails \/ EndEmit \/ JoinForDiscard
    <3>1. emitted' = emitted /\ pc' # "widen" /\ outcome' \in {outcome, "withdrawn"}
      BY <2>4 DEF EmitUnit, EmitFails, EndEmit, JoinForDiscard
    <3> QED BY <3>1, <1>0 DEF TypeRest, Returned, InPushOrder
  <2>5. CASE UNCHANGED vars \/ \E w \in Workers : Writer(w)
    <3>1. UNCHANGED <<emitted, pc, outcome>>
      BY <2>5 DEF vars, main, Writer, LockJobs, Recv, RecvClosed, CheckFailed, WriteClass,
                  WriteFails, Give
    <3> QED BY <3>1, <1>0 DEF TypeRest, Returned, InPushOrder
  <2> QED BY <2>1, <2>2, <2>3, <2>4, <2>5 DEF Next, Compile
<1> QED BY <1>0, <1>1, <1>2, <1>3 DEF TypeRest

\* The chunks in flight are numbered and in order in every reachable state.
THEOREM OrderInvariance == Spec => []OrderIInv
<1>1. Init => OrderIInv
  <2> SUFFICES ASSUME Init PROVE OrderIInv
    OBVIOUS
  <2>1. /\ jobs = <<>> /\ done = <<>> /\ pending = <<>> /\ nextSeq = 0 /\ emitted = <<>>
        /\ pc = "emit" /\ outcome = "running" /\ \A w \in Workers : ~Busy(w)
    BY DEF Init, Busy
  <2>2. InFlight = {}
    BY <2>1 DEF InFlight, Elems
  <2>3. Numbered /\ QueueApart /\ DoneApart /\ HeldApart /\ HeldBack
    BY <2>1, <2>2 DEF Numbered, QueueApart, DoneApart, HeldApart, HeldBack
  <2>4. TypeRest /\ Returned
    BY <2>1 DEF TypeRest, Returned, Init
  <2> QED BY <2>3, <2>4 DEF OrderIInv
<1>2. IInv /\ OrderIInv /\ [Next]_vars => OrderIInv'
  BY OrdersStep, ReturnedStep DEF OrderIInv, Orders
<1> QED
  BY <1>1, <1>2, Invariance, PTL DEF Spec

\* finish gives back every unit's classes once and in the order they were
\* pushed, whatever the writers did in the meantime and also when a write
\* failed (WritePool::join sorts by the number push gave).
THEOREM GivesBackInOrder == Spec => []PushOrder
<1>1. OrderIInv => PushOrder
  BY DEF OrderIInv, Returned, InPushOrder, PushOrder
<1> QED
  BY <1>1, OrderInvariance, PTL

\* The writer model's types, for every number of units, classes and writers:
\* among them that finish gives back units of the run (WritePool::join).
THEOREM WriterTypes == Spec => []TypeOK
<1>1. IInv /\ OrderIInv => TypeOK
  BY DEF IInv, OrderIInv, TypeMain, TypeFlags, TypeQueue, TypeWorker, TypeDisk, TypeRest,
         Versions, TypeOK
<1> QED
  BY <1>1, Invariance, OrderInvariance, PTL
=============================================================================
