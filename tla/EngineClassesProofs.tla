------------------------- MODULE EngineClassesProofs -------------------------
(***************************************************************************)
(* The engine's own classes and the classes that it loads for a run, for   *)
(* every set of compilers, helper classes, files, classpaths and loaders.  *)
(*                                                                         *)
(* EngineCache: the main class is never seen without the classes it refers *)
(* to unless a sweep took those, and a compiler told Ok has such an engine. *)
(* MainClassLast is not inductive: a compiler that moves classes in one by *)
(* one may have seen its earlier ones swept.  What it has moved is fresh,  *)
(* and stays so while anybody moves (Moved); when the main class is all    *)
(* that is left, the others are therefore there.                           *)
(*                                                                         *)
(* RuntimeLoaders: what a loader records of a class file (place, stamp,    *)
(* bytes) stays true for as long as the file has that stamp, so that       *)
(* compatible may compare stamps; and the misses of its mirror are among   *)
(* those that forgetMissing is asked to undo.                              *)
(***************************************************************************)
EXTENDS EngineCache, RuntimeLoaders, SequenceTheorems, WellFoundedInduction, TLAPS

-----------------------------------------------------------------------------
(* Publishing the engine's classes (EngineCache).                          *)

Places == {"idle", "javac", "rename", "lost", "isdir", "moving", "failed", "ok", "err", "dead"}

\* Types.
CacheTypes ==
  /\ upc \in [CacheUsers -> Places] /\ builds \in [CacheUsers -> Nat]
  /\ staging \in [CacheUsers -> SUBSET EngineFiles]
  /\ published \in [EngineFiles -> {"absent", "fresh", "old"}]
  /\ swept \subseteq Helpers

\* What a compiler has moved into the directory is there, and is fresh.
Moved ==
  \A u \in CacheUsers : upc[u] = "moving" =>
    \A f \in EngineClasses \ staging[u] : published[f] = "fresh"

\* The inductive invariant.
CacheIInv == CacheTypes /\ Moved /\ MainClassLast

-----------------------------------------------------------------------------
\* At the start the directory is empty and no compiler has begun.
LEMMA CacheInitIInv == CacheInit => CacheIInv
BY DEF CacheInit, CacheIInv, CacheTypes, Places, Moved, MainClassLast, ValidEngine,
       Present, EngineFiles, EngineClasses

\* Every step keeps the types.
LEMMA CacheTypesStep == CacheTypes /\ [CacheNext]_cacheVars => CacheTypes'
<1> SUFFICES ASSUME CacheTypes, [CacheNext]_cacheVars PROVE CacheTypes'
  OBVIOUS
<1> USE DEF CacheTypes, Places
<1>1. ASSUME NEW u \in CacheUsers,
             \/ AskEngine(u) \/ Compile(u) \/ CompileFails(u) \/ PublishWhole(u)
             \/ RenameFails(u) \/ LostRace(u)
      PROVE  CacheTypes'
  BY <1>1 DEF AskEngine, Compile, CompileFails, PublishWhole, RenameFails, LostRace, Leave
<1>2. ASSUME NEW u \in CacheUsers,
             \/ EnterDir(u) \/ MovedAll(u) \/ MoveFails(u) \/ AfterFailure(u)
             \/ StartDaemon(u) \/ KillCompiler(u)
      PROVE  CacheTypes'
  BY <1>2 DEF EnterDir, MovedAll, MoveFails, AfterFailure, StartDaemon, KillCompiler,
              Leave, EngineFiles, users
<1>3. ASSUME NEW u \in CacheUsers, NEW f \in EngineClasses, MoveClass(u, f)
      PROVE  CacheTypes'
  BY <1>3 DEF MoveClass, EngineFiles, EngineClasses
<1>4. ASSUME NEW f \in EngineFiles, SweepFile(f) PROVE CacheTypes'
  BY <1>4 DEF SweepFile, users
<1>5. CASE GrowOld \/ SweepDirectory
  BY <1>5 DEF GrowOld, SweepDirectory, users
<1>6. CASE UNCHANGED cacheVars
  BY <1>6 DEF cacheVars, users
<1> QED
  BY <1>1, <1>2, <1>3, <1>4, <1>5, <1>6 DEF CacheNext

\* Nothing that is fresh grows old while a compiler moves its classes.
LEMMA MovedStep == CacheIInv /\ [CacheNext]_cacheVars => Moved'
<1> SUFFICES ASSUME CacheIInv, [CacheNext]_cacheVars,
                    NEW v \in CacheUsers, upc'[v] = "moving",
                    NEW g \in EngineClasses \ staging'[v]
             PROVE  published'[g] = "fresh"
  BY DEF Moved
<1> CacheTypes /\ Moved
  BY DEF CacheIInv
<1> g \in EngineFiles
  BY DEF EngineFiles
<1> USE DEF CacheTypes, Moved
<1>1. ASSUME NEW u \in CacheUsers,
             \/ AskEngine(u) \/ Compile(u) \/ CompileFails(u)
             \/ RenameFails(u) \/ LostRace(u)
      PROVE  published'[g] = "fresh"
  BY <1>1 DEF AskEngine, Compile, CompileFails, RenameFails, LostRace, Leave
<1>2. ASSUME NEW u \in CacheUsers, PublishWhole(u) PROVE published'[g] = "fresh"
  BY <1>2 DEF PublishWhole
<1>3. ASSUME NEW u \in CacheUsers,
             \/ EnterDir(u) \/ MovedAll(u) \/ MoveFails(u) \/ AfterFailure(u)
             \/ StartDaemon(u) \/ KillCompiler(u)
      PROVE  published'[g] = "fresh"
  BY <1>3 DEF EnterDir, MovedAll, MoveFails, AfterFailure, StartDaemon, KillCompiler,
              Leave, users
<1>4. ASSUME NEW u \in CacheUsers, NEW f \in EngineClasses, MoveClass(u, f)
      PROVE  published'[g] = "fresh"
  <2>1. CASE f = g
    BY <1>4, <2>1 DEF MoveClass
  <2>2. CASE f # g
    <3>1. upc[v] = "moving" /\ g \notin staging[v]
      BY <1>4, <2>2 DEF MoveClass
    <3> QED
      BY <1>4, <2>2, <3>1 DEF MoveClass
  <2> QED BY <2>1, <2>2
<1>5. CASE GrowOld
  BY <1>5 DEF GrowOld, users
<1>6. ASSUME NEW f \in EngineFiles, SweepFile(f) PROVE published'[g] = "fresh"
  BY <1>6 DEF SweepFile, users
<1>7. CASE SweepDirectory
  BY <1>7 DEF SweepDirectory, users
<1>8. CASE UNCHANGED cacheVars
  BY <1>8 DEF cacheVars, users
<1> QED
  BY <1>1, <1>2, <1>3, <1>4, <1>5, <1>6, <1>7, <1>8 DEF CacheNext

\* The main class comes when the helpers are there.
LEMMA MainClassStep == CacheIInv /\ [CacheNext]_cacheVars => MainClassLast'
<1> SUFFICES ASSUME CacheIInv, [CacheNext]_cacheVars, ValidEngine', NEW h \in Helpers
             PROVE  h \in Present' \cup swept'
  BY DEF MainClassLast
<1> CacheTypes /\ Moved /\ MainClassLast
  BY DEF CacheIInv
<1> h \in EngineFiles /\ h \in EngineClasses /\ Main \in EngineFiles /\ h # Main
  BY EngineCacheConstants DEF EngineFiles, EngineClasses
<1> USE DEF CacheTypes, ValidEngine, Present, MainClassLast
<1>1. CASE UNCHANGED <<published, swept>>
  BY <1>1
<1>2. ASSUME NEW u \in CacheUsers, PublishWhole(u) PROVE h \in Present' \cup swept'
  BY <1>2 DEF PublishWhole
<1>3. ASSUME NEW u \in CacheUsers, NEW f \in EngineClasses, MoveClass(u, f)
      PROVE  h \in Present' \cup swept'
  <2> f \in EngineFiles
    BY DEF EngineFiles
  <2>1. CASE f = Main
    <3>1. published[h] = "fresh"
      BY <1>3, <2>1 DEF MoveClass, Moved
    <3> QED
      BY <1>3, <2>1, <3>1 DEF MoveClass
  <2>2. CASE f # Main
    BY <1>3, <2>2 DEF MoveClass
  <2> QED BY <2>1, <2>2
<1>4. ASSUME NEW f \in EngineFiles, SweepFile(f) PROVE h \in Present' \cup swept'
  BY <1>4 DEF SweepFile
<1>5. CASE GrowOld
  BY <1>5 DEF GrowOld
<1>6. ASSUME NEW u \in CacheUsers,
             \/ AskEngine(u) \/ Compile(u) \/ CompileFails(u) \/ RenameFails(u)
             \/ LostRace(u) \/ EnterDir(u) \/ MovedAll(u) \/ MoveFails(u)
             \/ AfterFailure(u) \/ StartDaemon(u) \/ KillCompiler(u)
      PROVE  UNCHANGED <<published, swept>>
  BY <1>6 DEF AskEngine, Compile, CompileFails, RenameFails, LostRace, EnterDir, MovedAll,
              MoveFails, AfterFailure, StartDaemon, KillCompiler
<1>7. CASE SweepDirectory
  BY <1>1, <1>7 DEF SweepDirectory
<1>8. CASE UNCHANGED cacheVars
  BY <1>1, <1>8 DEF cacheVars
<1> QED
  BY <1>1, <1>2, <1>3, <1>4, <1>5, <1>6, <1>7, <1>8 DEF CacheNext

-----------------------------------------------------------------------------
\* The invariant holds throughout.
THEOREM CacheInvariant == CacheSpec => []CacheIInv
<1>1. CacheIInv /\ [CacheNext]_cacheVars => CacheIInv'
  BY CacheTypesStep, MovedStep, MainClassStep DEF CacheIInv
<1> QED
  BY CacheInitIInv, <1>1, PTL DEF CacheSpec

\* compile_engine publishes the main class last: whichever compilers publish at
\* once, fail or are killed, nobody sees it before the classes it refers to.
THEOREM PublishedWhole == CacheSpec => []MainClassLast
<1>1. CacheIInv => MainClassLast
  BY DEF CacheIInv
<1> QED
  BY CacheInvariant, <1>1, PTL

\* compile_engine says Ok only of a directory with the main class and every
\* helper that no sweep has taken since, and of a complete one when the compiler
\* has published it itself.
THEOREM OkIsPublished == CacheSpec => OkMeansPublished
<1> DEFINE Good(u) == /\ ValidEngine'
                      /\ upc[u] \in {"rename", "moving"} => Helpers \subseteq Present'
<1>1. ASSUME CacheIInv, CacheIInv', CacheNext, NEW u \in CacheUsers,
             upc'[u] = "ok", upc[u] # "ok" \/ builds'[u] # builds[u]
      PROVE  Good(u)
  <2> CacheTypes /\ Moved /\ Main \in EngineFiles /\ Main \in EngineClasses
    BY <1>1 DEF CacheIInv, EngineFiles, EngineClasses
  <2> Helpers \subseteq EngineFiles /\ Helpers \subseteq EngineClasses
    BY DEF EngineFiles, EngineClasses
  <2> USE DEF CacheTypes, ValidEngine, Present
  <2>1. ASSUME NEW v \in CacheUsers, PublishWhole(v) PROVE Good(u)
    BY <1>1, <2>1 DEF PublishWhole
  <2>2. ASSUME NEW v \in CacheUsers, MovedAll(v) PROVE Good(u)
    <3>1. u = v /\ \A f \in EngineClasses : published[f] = "fresh"
      BY <1>1, <2>2 DEF MovedAll, Leave, Moved
    <3>2. Present' = Present
      BY <2>2 DEF MovedAll
    <3>3. EngineClasses \subseteq Present
      BY <3>1 DEF EngineFiles
    <3>4. ValidEngine' /\ Helpers \subseteq Present'
      <4> HIDE DEF Present
      <4> QED BY <3>2, <3>3
    <3> QED BY <3>4
  <2>3. ASSUME NEW v \in CacheUsers, AskEngine(v) \/ LostRace(v) \/ AfterFailure(v)
        PROVE  Good(u)
    BY <1>1, <2>3 DEF AskEngine, LostRace, AfterFailure, Leave
  <2>4. ASSUME NEW v \in CacheUsers,
               \/ Compile(v) \/ CompileFails(v) \/ RenameFails(v) \/ EnterDir(v)
               \/ MoveFails(v) \/ StartDaemon(v) \/ KillCompiler(v)
        PROVE  FALSE
    BY <1>1, <2>4 DEF Compile, CompileFails, RenameFails, EnterDir, MoveFails, StartDaemon,
                      KillCompiler, Leave, users
  <2>5. ASSUME NEW v \in CacheUsers, NEW f \in EngineClasses, MoveClass(v, f) PROVE FALSE
    BY <1>1, <2>5 DEF MoveClass
  <2>6. ASSUME NEW f \in EngineFiles, SweepFile(f) PROVE FALSE
    BY <1>1, <2>6 DEF SweepFile, users
  <2>7. CASE GrowOld \/ SweepDirectory
    BY <1>1, <2>7 DEF GrowOld, SweepDirectory, users
  <2> QED
    BY <1>1, <2>1, <2>2, <2>3, <2>4, <2>5, <2>6, <2>7 DEF CacheNext
<1> HIDE DEF Good
<1>2. ASSUME CacheIInv, CacheIInv', CacheNext, NEW u \in CacheUsers,
             upc'[u] = "ok", upc[u] # "ok" \/ builds'[u] # builds[u]
      PROVE  /\ ValidEngine' /\ Helpers \subseteq Present' \cup swept'
             /\ upc[u] \in {"rename", "moving"} => Helpers \subseteq Present'
  <2>1. Good(u)
    BY <1>1, <1>2
  <2>2. Helpers \subseteq Present' \cup swept'
    BY <1>2, <2>1 DEF Good, CacheIInv, MainClassLast
  <2> QED BY <2>1, <2>2 DEF Good
<1>3. CacheIInv /\ CacheIInv' /\ [CacheNext]_cacheVars
        => [\A u \in CacheUsers : upc'[u] = "ok" /\ (upc[u] # "ok" \/ builds'[u] # builds[u])
             => /\ ValidEngine' /\ Helpers \subseteq Present' \cup swept'
                /\ upc[u] \in {"rename", "moving"} => Helpers \subseteq Present']_cacheVars
  BY <1>2
<1> QED
  BY <1>3, CacheInvariant, PTL DEF CacheSpec, OkMeansPublished

-----------------------------------------------------------------------------
(* Loading the classes of a run (RuntimeLoaders).                          *)

Files == [Paths -> Contents \cup {Absent}]
Snapshots == [files : Files, stamp : [Paths -> Nat]]
Resources == [url : Entries \cup {Absent}, stamp : Nat, bytes : Contents \cup {Absent},
              torn : BOOLEAN]
Loaders == [loaded : [Paths -> Resources], missing : SUBSET Paths,
            negatives : SUBSET Paths, unread : SUBSET Paths]

FilesOK ==
  /\ disk \in [Entries -> Files] /\ stamps \in [Entries -> [Paths -> Nat]]
  /\ writes \in Nat /\ runs \in Nat
  /\ under \in [Entries -> [Paths -> SUBSET (Contents \cup {Absent})]]
  /\ \A e \in Entries, p \in Paths : disk[e][p] \in under[e][p]
  /\ \A e \in Entries, p \in Paths : stamps[e][p] <= writes

RunOK ==
  /\ path \in Seq(Entries) /\ kinds \in [Entries -> Snapshots \cup {Unknown}]
  /\ found \in [Paths -> Entries \cup {Absent, Unknown}]
  /\ path # <<>> => pool # <<>>

\* A class file of the entry e, recorded with a stamp and its bytes: as long as
\* the stamp is the file's, the bytes are some that it has had under this stamp.
TrueOf(e, p, stamp, bytes) ==
  /\ stamp \in 0..writes
  /\ stamp = stamps[e][p] => bytes \in under[e][p]

\* An archive is kept as it was opened.
SnapshotsTrue ==
  \A e \in Jars, p \in Paths :
    kinds[e] # Unknown => TrueOf(e, p, kinds[e].stamp[p], kinds[e].files[p])

\* An archive in which a class was found has been opened.
FoundOpened == \A p \in Paths : found[p] \in Jars => kinds[found[p]] # Unknown

\* What is true of a loader in the pool.
RecordsTrue(l) ==
  \A p \in Paths : l.loaded[p].url # Absent /\ ~l.loaded[p].torn =>
    TrueOf(l.loaded[p].url, p, l.loaded[p].stamp, l.loaded[p].bytes)
MissesKnown(l) == l.negatives \subseteq l.missing \cup l.unread

Sound == {l \in Loaders : RecordsTrue(l) /\ MissesKnown(l)}

\* The class file being loaded, recorded now.
LoadingTrue ==
  loading # <<>> =>
    \E p \in Paths, e \in Entries, b \in Contents, torn \in BOOLEAN :
      /\ loading = <<p, e, b, torn>> /\ InRun
      /\ e \in Jars => kinds[e] # Unknown
      /\ Stamp(e, p) \in Nat
      /\ ~torn => TrueOf(e, p, Stamp(e, p), b)

LoaderIInv == FilesOK /\ RunOK /\ SnapshotsTrue /\ FoundOpened /\ pool \in Seq(Sound) /\ LoadingTrue

-----------------------------------------------------------------------------
(* Sets of places, and the first of them.                                  *)

\* A set of numbers that is not empty has a least one.
LEMMA LeastExists ==
  ASSUME NEW S \in SUBSET Nat, S # {}
  PROVE  \E i \in S : \A j \in S : i <= j
<1>1. PICK i \in S : \A j \in S : ~(<<j, i>> \in OpToRel(<, Nat))
  BY NatLessThanWellFounded, WFMin
<1>2. \A j \in S : ~(j < i)
  BY <1>1 DEF OpToRel
<1> QED
  BY <1>2

\* find gives an entry of the classpath, or none.
LEMMA FindNowPlace ==
  ASSUME NEW cp \in Seq(Entries), NEW p \in Paths
  PROVE  /\ FindNow(cp, p) \in Entries \cup {Absent}
         /\ FindNow(cp, p) # Absent => \E i \in DOMAIN cp : cp[i] = FindNow(cp, p)
<1> DEFINE at == {i \in DOMAIN cp : disk[cp[i]][p] # Absent}
<1>1. CASE at = {}
  BY <1>1 DEF FindNow, First
<1>2. CASE at # {}
  <2>1. \E i \in at : \A j \in at : i <= j
    <3>1. at \in SUBSET Nat
      OBVIOUS
    <3> HIDE DEF at
    <3> QED BY <1>2, <3>1, LeastExists
  <2>2. (CHOOSE i \in at : \A j \in at : i <= j) \in DOMAIN cp
    BY <2>1
  <2> DEFINE k == CHOOSE i \in at : \A j \in at : i <= j
  <2>3. FindNow(cp, p) = cp[k] /\ k \in DOMAIN cp
    BY <1>2, <2>2 DEF FindNow, First
  <2> HIDE DEF k
  <2> QED BY <2>3
<1> QED
  BY <1>1, <1>2

\* A search of the classpath gives an entry of it, or none.
LEMMA FindPlace ==
  ASSUME RunOK, NEW p \in Paths
  PROVE  /\ Find(p) \in Entries \cup {Absent}
         /\ found[p] = Unknown /\ Find(p) # Absent => \E i \in DOMAIN path : path[i] = Find(p)
<1> DEFINE at == {i \in DOMAIN path : Holds(path[i], p)}
<1>1. CASE found[p] # Unknown
  BY <1>1 DEF Find, RunOK
<1>2. CASE found[p] = Unknown /\ at = {}
  BY <1>2 DEF Find, First
<1>3. CASE found[p] = Unknown /\ at # {}
  <2>1. \E i \in at : \A j \in at : i <= j
    <3>1. at \in SUBSET Nat
      BY DEF RunOK
    <3> HIDE DEF at
    <3> QED BY <1>3, <3>1, LeastExists
  <2>2. (CHOOSE i \in at : \A j \in at : i <= j) \in DOMAIN path
    BY <2>1
  <2> DEFINE k == CHOOSE i \in at : \A j \in at : i <= j
  <2>3. Find(p) = path[k] /\ k \in DOMAIN path
    BY <1>3, <2>2 DEF Find, First
  <2> HIDE DEF k
  <2> QED BY <2>3 DEF RunOK
<1> QED
  BY <1>1, <1>2, <1>3

\* An entry of a classpath has a first place on it.
LEMMA FirstPlace ==
  ASSUME NEW cp \in Seq(Entries), NEW e, \E i \in DOMAIN cp : cp[i] = e
  PROVE  \E i \in DOMAIN cp : cp[i] = e /\ \A j \in 1..(i - 1) : cp[j] # e
<1> DEFINE at == {i \in DOMAIN cp : cp[i] = e}
<1>1. PICK i \in at : \A j \in at : i <= j
  <2>1. at \in SUBSET Nat /\ at # {}
    OBVIOUS
  <2> HIDE DEF at
  <2> QED BY <2>1, LeastExists
<1>2. \A j \in 1..(i - 1) : j \in DOMAIN cp /\ j \notin at
  BY <1>1
<1> QED
  BY <1>1, <1>2

-----------------------------------------------------------------------------
(* What a run sees of an entry.                                            *)

\* What is seen of an entry is what is there while its stamp is the one seen.
LEMMA SeenTrue ==
  ASSUME FilesOK, RunOK, SnapshotsTrue, NEW e \in Entries
  PROVE  /\ Seen(e) \in Snapshots
         /\ \A p \in Paths : e \in Jars => TrueOf(e, p, Seen(e).stamp[p], Seen(e).files[p])
<1>1. CASE kinds[e] # Unknown
  BY <1>1 DEF Seen, RunOK, SnapshotsTrue
<1>2. CASE kinds[e] = Unknown
  <2>1. Seen(e) = [files |-> disk[e], stamp |-> stamps[e]]
    BY <1>2 DEF Seen
  <2>2. disk[e] \in Files /\ stamps[e] \in [Paths -> Nat]
    BY DEF FilesOK
  <2>3. \A p \in Paths : stamps[e][p] \in 0..writes /\ disk[e][p] \in under[e][p]
    BY <2>2 DEF FilesOK
  <2> QED BY <2>1, <2>2, <2>3 DEF Snapshots, TrueOf
<1> QED
  BY <1>1, <1>2

\* What is read of a class file and the stamp that is recorded with it agree.
LEMMA ReadTrue ==
  ASSUME FilesOK, RunOK, SnapshotsTrue, NEW e \in Entries, NEW p \in Paths
  PROVE  /\ Read(e, p) \in Contents \cup {Absent} /\ Stamp(e, p) \in Nat
         /\ TrueOf(e, p, Stamp(e, p), Read(e, p))
<1>1. CASE e \in Jars
  BY <1>1, SeenTrue DEF Read, Stamp, Snapshots, Files
<1>2. CASE e \notin Jars
  <2>1. Read(e, p) = disk[e][p] /\ Stamp(e, p) = stamps[e][p]
    BY <1>2 DEF Read, Stamp
  <2> QED BY <2>1 DEF FilesOK, Files, TrueOf
<1> QED
  BY <1>1, <1>2

\* Looking for a class opens entries, and changes nothing of what is seen.
LEMMA RememberKeeps ==
  ASSUME FilesOK, RunOK, SnapshotsTrue, FoundOpened, NEW p \in Paths, Remember(p), UNCHANGED loaderFiles
  PROVE  /\ found' \in [Paths -> Entries \cup {Absent, Unknown}]
         /\ kinds' \in [Entries -> Snapshots \cup {Unknown}]
         /\ path' = path /\ SnapshotsTrue' /\ FoundOpened'
         /\ found'[p] = Find(p)
         /\ \A e \in Entries : Seen(e)' = Seen(e)
<1>1. found' \in [Paths -> Entries \cup {Absent, Unknown}]
  BY FindPlace DEF Remember, RunOK
<1>2. kinds' \in [Entries -> Snapshots \cup {Unknown}]
      /\ \A e \in Entries : kinds'[e] = kinds[e] \/ kinds'[e] = Seen(e)
  BY SeenTrue DEF Remember, RunOK, Touched
<1>3. \A e \in Entries : Seen(e)' = Seen(e)
  BY <1>2 DEF Seen, loaderFiles
<1>4. SnapshotsTrue'
  <2> SUFFICES ASSUME NEW e \in Jars, NEW q \in Paths, kinds'[e] # Unknown
               PROVE  TrueOf(e, q, kinds[e].stamp[q], kinds[e].files[q])'
    BY DEF SnapshotsTrue
  <2>1. e \in Entries
    BY DEF Entries
  <2>2. kinds'[e] = Seen(e)
    BY <1>2, <2>1 DEF Seen
  <2> QED BY <2>1, <2>2, SeenTrue DEF TrueOf, loaderFiles
<1>5. \A e \in Entries : Seen(e) # Unknown
  BY SeenTrue, RuntimeLoadersConstants DEF Snapshots, Files
<1>6. found'[p] = Find(p) /\ \A q \in Paths : q # p => found'[q] = found[q]
  BY DEF Remember, RunOK
<1>7. \A e \in Entries : kinds[e] # Unknown => kinds'[e] # Unknown
  BY <1>2, <1>5
<1>8. found[p] = Unknown /\ Find(p) \in Jars => kinds'[Find(p)] # Unknown
  <2> SUFFICES ASSUME found[p] = Unknown, Find(p) \in Jars PROVE kinds'[Find(p)] # Unknown
    OBVIOUS
  <2>1. Find(p) \in Entries /\ Find(p) # Absent
    BY RuntimeLoadersConstants DEF Entries
  <2>2. PICK i \in DOMAIN path : path[i] = Find(p) /\ \A j \in 1..(i - 1) : path[j] # Find(p)
    BY <2>1, FindPlace, FirstPlace DEF RunOK
  <2>3. Find(p) \in Touched(path, {p}, Find)
    BY <2>1, <2>2 DEF Touched
  <2>4. kinds'[Find(p)] = Seen(Find(p))
    BY <2>1, <2>3 DEF Remember
  <2> QED BY <1>5, <2>1, <2>4
<1>9. FoundOpened'
  <2> SUFFICES ASSUME NEW q \in Paths, found'[q] \in Jars PROVE kinds'[found'[q]] # Unknown
    BY DEF FoundOpened
  <2>1. CASE q = p /\ found[p] = Unknown
    BY <1>6, <1>8, <2>1
  <2>2. CASE ~(q = p /\ found[p] = Unknown)
    <3>1. found'[q] = found[q]
      BY <1>6, <2>2 DEF Find
    <3> QED BY <1>7, <3>1 DEF FoundOpened, Entries
  <2> QED BY <2>1, <2>2
<1> QED
  BY <1>1, <1>2, <1>3, <1>4, <1>6, <1>9 DEF Remember

\* A file that is written gets a stamp that nothing has been recorded with, or
\* keeps its stamp and what it has held under it.
LEMMA WriteKeepsTrue ==
  ASSUME FilesOK, NEW e \in Entries, NEW p \in Paths, NEW c \in Contents \cup {Absent},
         WriteFile(e, p, c) \/ WriteUnseen(e, p, c),
         NEW f \in Entries, NEW q \in Paths, NEW s, NEW b,
         TrueOf(f, q, s, b)
  PROVE  TrueOf(f, q, s, b)'
<1>1. writes \in Nat /\ writes' = writes + 1 /\ s \in 0..writes
  BY DEF WriteFile, WriteUnseen, TrueOf, FilesOK
<1>2. CASE WriteFile(e, p, c) /\ f = e /\ (e \in Jars \/ q = p)
  <2>1. stamps'[f][q] = writes'
    BY <1>2 DEF WriteFile, FilesOK
  <2> QED BY <1>1, <2>1 DEF TrueOf
<1>3. CASE WriteFile(e, p, c) /\ ~(f = e /\ (e \in Jars \/ q = p))
  <2>1. stamps'[f][q] = stamps[f][q] /\ under'[f][q] = under[f][q]
    BY <1>3 DEF WriteFile, FilesOK
  <2> QED BY <1>1, <2>1 DEF TrueOf
<1>4. CASE WriteUnseen(e, p, c)
  <2>1. stamps' = stamps /\ under[f][q] \subseteq under'[f][q]
    BY <1>4 DEF WriteUnseen, FilesOK
  <2> QED BY <1>1, <2>1 DEF TrueOf
<1> QED
  BY <1>2, <1>3, <1>4

-----------------------------------------------------------------------------
(* The pool.                                                               *)

\* A loader that has loaded nothing says nothing wrong.
LEMMA NewLoaderSound == FilesOK => NewLoader \in Sound
<1> SUFFICES ASSUME FilesOK PROVE NewLoader \in Sound
  OBVIOUS
<1>1. NewLoader \in Loaders
  BY DEF NewLoader, NoResource, Loaders, Resources
<1>2. RecordsTrue(NewLoader) /\ MissesKnown(NewLoader)
  BY DEF NewLoader, NoResource, RecordsTrue, MissesKnown
<1> QED
  BY <1>1, <1>2 DEF Sound

\* Forgetting misses, all of them or some of the mirror's, leaves a loader sound.
LEMMA ForgetSound ==
  ASSUME NEW l \in Sound, NEW ps
  PROVE  /\ Forget(l, ps) \in Sound /\ Forget(l, ps).loaded = l.loaded
         /\ GaveUp(l, ps) \in Sound
<1>1. /\ Forget(l, ps) \in Loaders /\ Forget(l, ps).loaded = l.loaded
      /\ GaveUp(l, ps) \in Loaders /\ GaveUp(l, ps).loaded = l.loaded
  BY DEF Sound, Loaders, Forget, GaveUp
<1>2. RecordsTrue(Forget(l, ps)) /\ RecordsTrue(GaveUp(l, ps))
  BY <1>1 DEF Sound, RecordsTrue
<1>3. MissesKnown(Forget(l, ps)) /\ MissesKnown(GaveUp(l, ps))
  BY DEF Sound, Loaders, MissesKnown, Forget, GaveUp
<1> QED
  BY <1>1, <1>2, <1>3 DEF Sound

\* The loader that resetRun puts first is new, or one of the pool that is
\* compatible with the classpath and has forgotten what has appeared on it.
LEMMA ResetPool ==
  ASSUME LoaderIInv, NEW cp \in Seq(Entries), NEW stuck, NEW lost, ResetRun(cp, stuck, lost)
  PROVE  /\ pool' \in Seq(Sound) /\ pool' # <<>>
         /\ \/ pool'[1] = NewLoader
            \/ \E i \in DOMAIN pool :
                 Compatible(pool[i], cp) /\ pool'[1] = Forget(pool[i], Appeared(pool[i], cp))
<1> DEFINE usable == {i \in DOMAIN pool : /\ Compatible(pool[i], cp)
                                          /\ Appeared(pool[i], cp) # {} => i \notin stuck}
           i == CHOOSE i \in usable : \A j \in usable : i <= j
           tried == [j \in DOMAIN pool |->
                       IF Compatible(pool[j], cp) /\ j \in stuck /\ \A k \in usable : j < k
                       THEN GaveUp(pool[j], Appeared(pool[j], cp) \cap lost) ELSE pool[j]]
           reused == Forget(pool[i], Appeared(pool[i], cp))
<1>1. /\ usable # {} => pool' = <<reused>> \o SubSeq(tried, 1, i - 1)
                                           \o SubSeq(tried, i + 1, Len(pool))
      /\ usable = {} => pool' = <<NewLoader>> \o
                (IF Len(pool) < PoolSize THEN tried ELSE SubSeq(tried, 1, PoolSize - 1))
  BY DEF ResetRun
<1>2. pool \in Seq(Sound)
  BY DEF LoaderIInv
<1>3. tried \in Seq(Sound) /\ Len(tried) = Len(pool)
  <2>1. \A j \in DOMAIN pool : tried[j] \in Sound
    BY <1>2, ForgetSound
  <2>2. DOMAIN pool = 1..Len(pool) /\ Len(pool) \in Nat
    BY <1>2
  <2>3. tried \in [1..Len(pool) -> Sound]
    BY <2>1, <2>2
  <2> HIDE DEF tried
  <2> QED BY <2>2, <2>3
<1>4. CASE usable # {}
  <2>1. i \in usable
    <3>1. usable \in SUBSET Nat
      BY <1>2
    <3> HIDE DEF usable
    <3>2. \E k \in usable : \A j \in usable : k <= j
      BY <1>4, <3>1, LeastExists
    <3> QED BY <3>2
  <2>2. i \in DOMAIN pool /\ Compatible(pool[i], cp)
    BY <2>1
  <2>3. reused \in Sound
    BY <1>2, <2>2, ForgetSound
  <2>4. pool' = <<reused>> \o SubSeq(tried, 1, i - 1) \o SubSeq(tried, i + 1, Len(pool))
    BY <1>1, <1>4
  <2>5. i \in 1..Len(pool) /\ Len(pool) \in Nat
    BY <1>2, <2>2
  <2> HIDE DEF usable, i, tried, reused
  <2>6. SubSeq(tried, 1, i - 1) \in Seq(Sound) /\ SubSeq(tried, i + 1, Len(pool)) \in Seq(Sound)
    BY <1>3, <2>5
  <2>7. pool' \in Seq(Sound) /\ pool' # <<>> /\ pool'[1] = reused
    BY <2>3, <2>4, <2>6
  <2> QED BY <2>2, <2>7 DEF reused
<1>5. CASE usable = {}
  <2> DEFINE rest == IF Len(pool) < PoolSize THEN tried ELSE SubSeq(tried, 1, PoolSize - 1)
  <2>1. pool' = <<NewLoader>> \o rest
    BY <1>1, <1>5
  <2> HIDE DEF tried
  <2>2. rest \in Seq(Sound)
    BY <1>2, <1>3, RuntimeLoadersConstants
  <2>3. NewLoader \in Sound
    BY NewLoaderSound DEF LoaderIInv
  <2> HIDE DEF rest
  <2> QED BY <2>1, <2>2, <2>3
<1> QED
  BY <1>4, <1>5

-----------------------------------------------------------------------------
(* Each step keeps the invariant.                                          *)

\* Nothing has been loaded, and no stamp given out twice.
LEMMA LoaderInitIInv == LoaderInit => LoaderIInv
<1> SUFFICES ASSUME LoaderInit PROVE LoaderIInv
  OBVIOUS
<1>1. FilesOK
  BY DEF LoaderInit, FilesOK, Files
<1>2. RunOK /\ SnapshotsTrue
  BY DEF LoaderInit, RunOK, SnapshotsTrue, NothingSeen, NothingFound, Entries
<1>3. FoundOpened
  BY RuntimeLoadersConstants DEF LoaderInit, FoundOpened, NothingFound, Entries
<1>4. pool \in Seq(Sound) /\ LoadingTrue
  BY DEF LoaderInit, LoadingTrue
<1> QED
  BY <1>1, <1>2, <1>3, <1>4 DEF LoaderIInv

\* Another program writes a class file or an archive.
LEMMA WriteStep ==
  ASSUME LoaderIInv, NEW e \in Entries, NEW p \in Paths, NEW c \in Contents \cup {Absent},
         WriteFile(e, p, c) \/ WriteUnseen(e, p, c)
  PROVE  LoaderIInv'
<1> USE DEF LoaderIInv
<1>1. FilesOK'
  <2>1. disk' \in [Entries -> Files]
    <3>1. disk' = [disk EXCEPT ![e][p] = c]
      BY DEF WriteFile, WriteUnseen
    <3> QED BY <3>1 DEF FilesOK, Files
  <2>2. writes \in Nat /\ writes' \in Nat /\ writes' = writes + 1 /\ runs' \in Nat
    <3>1. writes' = writes + 1 /\ runs' = runs
      BY DEF WriteFile, WriteUnseen
    <3> QED BY <3>1 DEF FilesOK
  <2>3. /\ stamps' \in [Entries -> [Paths -> Nat]]
        /\ \A f \in Entries, q \in Paths :
             stamps'[f][q] = stamps[f][q] \/ stamps'[f][q] = writes'
    <3>1. CASE WriteFile(e, p, c)
      BY <2>2, <3>1 DEF WriteFile, FilesOK
    <3>2. CASE WriteUnseen(e, p, c)
      BY <3>2 DEF WriteUnseen, FilesOK
    <3> QED BY <3>1, <3>2
  <2>4. \A f \in Entries, q \in Paths : stamps'[f][q] <= writes'
    <3> TAKE f \in Entries, q \in Paths
    <3>1. stamps[f][q] \in Nat /\ stamps[f][q] <= writes
      BY DEF FilesOK
    <3>2. stamps'[f][q] = stamps[f][q] \/ stamps'[f][q] = writes'
      BY <2>3
    <3> QED BY <2>2, <3>1, <3>2
  <2>5. CASE WriteFile(e, p, c)
    <3>1. /\ under' \in [Entries -> [Paths -> SUBSET (Contents \cup {Absent})]]
          /\ \A f \in Entries, q \in Paths :
               \/ under'[f][q] = {disk'[f][q]}
               \/ under'[f][q] = under[f][q] /\ disk'[f][q] = disk[f][q]
      BY <2>1, <2>5 DEF WriteFile, FilesOK, Files
    <3> QED BY <2>1, <2>2, <2>3, <2>4, <3>1 DEF FilesOK
  <2>6. CASE WriteUnseen(e, p, c)
    <3>1. /\ under' \in [Entries -> [Paths -> SUBSET (Contents \cup {Absent})]]
          /\ \A f \in Entries, q \in Paths : disk'[f][q] \in under'[f][q]
      BY <2>6 DEF WriteUnseen, FilesOK, Files
    <3> QED BY <2>1, <2>2, <2>3, <2>4, <3>1 DEF FilesOK
  <2> QED BY <2>5, <2>6
<1>2. UNCHANGED <<pool, runState>> /\ RunOK' /\ FoundOpened'
  BY DEF WriteFile, WriteUnseen, RunOK, FoundOpened, runState
<1>3. SnapshotsTrue'
  <2> SUFFICES ASSUME NEW f \in Jars, NEW q \in Paths, kinds[f] # Unknown
               PROVE  TrueOf(f, q, kinds[f].stamp[q], kinds[f].files[q])'
    BY <1>2 DEF SnapshotsTrue, runState
  <2>1. TrueOf(f, q, kinds[f].stamp[q], kinds[f].files[q]) /\ f \in Entries
    BY DEF SnapshotsTrue, Entries
  <2>2. kinds' = kinds
    BY <1>2 DEF runState
  <2> QED BY <2>1, <2>2, WriteKeepsTrue
<1>4. pool' \in Seq(Sound')
  <2>1. \A l \in Sound : l \in Sound'
    <3> TAKE l \in Sound
    <3>1. l \in Loaders /\ MissesKnown(l)
      BY DEF Sound
    <3>2. ASSUME NEW q \in Paths, l.loaded[q].url # Absent, ~l.loaded[q].torn
          PROVE  TrueOf(l.loaded[q].url, q, l.loaded[q].stamp, l.loaded[q].bytes)'
      <4>1. l.loaded[q].url \in Entries
        BY <3>1, <3>2 DEF Loaders, Resources
      <4>2. TrueOf(l.loaded[q].url, q, l.loaded[q].stamp, l.loaded[q].bytes)
        BY <3>2 DEF Sound, RecordsTrue
      <4> QED BY <4>1, <4>2, WriteKeepsTrue
    <3> QED BY <3>1, <3>2 DEF Sound, RecordsTrue, MissesKnown
  <2> HIDE DEF Sound
  <2> QED BY <1>2, <2>1
<1>5. LoadingTrue'
  <2> SUFFICES ASSUME loading # <<>> PROVE LoadingTrue'
    BY DEF LoadingTrue, WriteFile, WriteUnseen
  <2>1. PICK q \in Paths, f \in Entries, b \in Contents, torn \in BOOLEAN :
          /\ loading = <<q, f, b, torn>> /\ InRun
          /\ f \in Jars => kinds[f] # Unknown
          /\ Stamp(f, q) \in Nat /\ (~torn => TrueOf(f, q, Stamp(f, q), b))
    BY DEF LoadingTrue
  <2>2. InRun' /\ kinds' = kinds
    BY <1>2, <2>1 DEF InRun, runState
  <2>3. Stamp(f, q)' \in Nat
    BY <1>1, <2>1, <2>2 DEF Stamp, Seen, FilesOK
  <2>4. CASE WriteFile(e, p, c) /\ e \in Dirs /\ q = p /\ f = e
    <3>1. loading' = <<q, f, b, TRUE>>
      BY <2>1, <2>4 DEF WriteFile
    <3>2. f \notin Jars
      BY <2>4, RuntimeLoadersConstants
    <3> QED BY <2>1, <2>2, <2>3, <3>1, <3>2 DEF LoadingTrue
  <2>5. CASE ~(WriteFile(e, p, c) /\ e \in Dirs /\ q = p /\ f = e)
    <3>1. loading' = <<q, f, b, torn>>
      BY <2>1, <2>5 DEF WriteFile, WriteUnseen
    <3>2. Stamp(f, q)' = Stamp(f, q)
      <4>1. CASE f \in Jars
        BY <2>1, <2>2, <4>1 DEF Stamp, Seen
      <4>2. CASE f \notin Jars
        <5>1. f \in Dirs
          BY <4>2 DEF Entries
        <5>2. stamps'[f][q] = stamps[f][q]
          <6>1. CASE WriteFile(e, p, c)
            BY <2>5, <4>2, <5>1, <6>1 DEF WriteFile, FilesOK
          <6>2. CASE WriteUnseen(e, p, c)
            BY <6>2 DEF WriteUnseen
          <6> QED BY <6>1, <6>2
        <5> QED BY <4>2, <5>2 DEF Stamp
      <4> QED BY <4>1, <4>2
    <3>3. ~torn => TrueOf(f, q, Stamp(f, q), b)'
      BY <2>1, <3>2, WriteKeepsTrue
    <3> QED BY <2>1, <2>2, <2>3, <3>1, <3>3 DEF LoadingTrue
  <2> QED BY <2>4, <2>5
<1> QED
  BY <1>1, <1>2, <1>3, <1>4, <1>5

\* A run begins: a loader is chosen or made, and the pool is cut to its limit.
LEMMA ResetStep ==
  ASSUME LoaderIInv, NEW cp \in ClassPaths, NEW stuck, NEW lost, ResetRun(cp, stuck, lost)
  PROVE  LoaderIInv'
<1> USE DEF LoaderIInv
<1>1. cp \in Seq(Entries)
  BY DEF ClassPaths
<1>2. pool' \in Seq(Sound) /\ pool' # <<>>
  BY <1>1, ResetPool
<1>3. UNCHANGED <<loaderFiles, loading>> /\ path' = cp /\ runs' = runs + 1 /\ ~InRun
  BY DEF ResetRun
<1>4. FilesOK' /\ LoadingTrue'
  BY <1>3 DEF FilesOK, LoadingTrue, loaderFiles
<1>5. /\ kinds' \in [Entries -> Snapshots \cup {Unknown}]
      /\ \A e \in Entries : kinds'[e] \in {Seen(e), Unknown, kinds[e]}
  <2>1. \/ kinds' = kinds
        \/ \E opened : kinds' = [e \in Entries |-> IF e \in opened THEN Seen(e) ELSE Unknown]
    BY DEF ResetRun
  <2> QED BY <2>1, SeenTrue DEF RunOK
<1>6. found' \in [Paths -> Entries \cup {Absent, Unknown}]
  <2>1. \A p \in Paths : FindNow(cp, p) \in Entries \cup {Absent}
    BY <1>1, FindNowPlace
  <2> QED BY <2>1 DEF ResetRun, RunOK
<1>7. SnapshotsTrue'
  <2> SUFFICES ASSUME NEW e \in Jars, NEW q \in Paths, kinds'[e] # Unknown
               PROVE  TrueOf(e, q, kinds[e].stamp[q], kinds[e].files[q])'
    BY DEF SnapshotsTrue
  <2>1. e \in Entries
    BY DEF Entries
  <2>2. kinds'[e] = Seen(e)
    BY <1>5, <2>1 DEF Seen
  <2> QED BY <1>3, <2>1, <2>2, SeenTrue DEF TrueOf, loaderFiles
<1>8. Sound' = Sound
  BY <1>3 DEF Sound, RecordsTrue, TrueOf, MissesKnown, loaderFiles
<1>9. FoundOpened'
  <2>1. CASE UNCHANGED <<found, kinds>>
    BY <2>1 DEF FoundOpened
  <2>2. CASE ~UNCHANGED <<found, kinds>>
    <3> DEFINE Where(p) == FindNow(cp, p)
    <3>1. PICK asked : /\ found' = [p \in Paths |-> IF p \in asked THEN Where(p) ELSE Unknown]
                       /\ kinds' = [e \in Entries |-> IF e \in Touched(cp, asked, Where)
                                                       THEN Seen(e) ELSE Unknown]
      BY <2>2 DEF ResetRun
    <3> SUFFICES ASSUME NEW p \in Paths, found'[p] \in Jars PROVE kinds'[found'[p]] # Unknown
      BY DEF FoundOpened
    <3>2. found'[p] \in Entries /\ Unknown \notin Entries /\ Absent \notin Entries
      BY RuntimeLoadersConstants DEF Entries
    <3>3. p \in asked /\ found'[p] = Where(p)
      BY <3>1, <3>2
    <3>4. \E i \in DOMAIN cp : cp[i] = Where(p)
      BY <1>1, <3>2, <3>3, FindNowPlace
    <3>5. found'[p] \in Touched(cp, asked, Where)
      <4>1. PICK i \in DOMAIN cp : cp[i] = Where(p) /\ \A j \in 1..(i - 1) : cp[j] # Where(p)
        BY <1>1, <3>4, FirstPlace
      <4> QED BY <3>2, <3>3, <4>1 DEF Touched
    <3>6. kinds'[found'[p]] = Seen(found'[p])
      BY <3>1, <3>2, <3>3, <3>5
    <3> QED BY <3>2, <3>6, SeenTrue, RuntimeLoadersConstants DEF Snapshots, Files
  <2> QED BY <2>1, <2>2
<1> QED
  BY <1>1, <1>2, <1>3, <1>4, <1>5, <1>6, <1>7, <1>8, <1>9 DEF RunOK

\* The steps of a run that look for a class.
LEMMA LookStep ==
  ASSUME LoaderIInv, NEW p \in Paths,
         LookUp(p) \/ LoadMisses(p) \/ LoadFails(p) \/ LoadReads(p)
  PROVE  LoaderIInv'
<1> USE DEF LoaderIInv
<1>1. /\ Remember(p) /\ UNCHANGED <<loaderFiles, runs>> /\ loading = <<>>
      /\ InRun /\ pool # <<>>
  BY DEF LookUp, LoadMisses, LoadFails, LoadReads, RunOK, InRun
<1>2. FilesOK'
  BY <1>1 DEF FilesOK, loaderFiles
<1>3. /\ found' \in [Paths -> Entries \cup {Absent, Unknown}]
      /\ kinds' \in [Entries -> Snapshots \cup {Unknown}]
      /\ path' = path /\ SnapshotsTrue' /\ FoundOpened'
      /\ found'[p] = Find(p)
      /\ \A e \in Entries : Seen(e)' = Seen(e)
  BY <1>1, RememberKeeps
<1>4. Sound' = Sound
  BY <1>1 DEF Sound, RecordsTrue, TrueOf, MissesKnown, loaderFiles
<1>5. pool[1] \in Sound
  BY <1>1
<1>6. CASE LookUp(p)
  BY <1>1, <1>2, <1>3, <1>4, <1>6 DEF LookUp, RunOK, LoadingTrue
<1>7. CASE LoadMisses(p)
  <2> DEFINE l == [pool[1] EXCEPT !.missing = @ \cup {p}, !.negatives = @ \cup {p}]
  <2>1. pool' = [pool EXCEPT ![1] = l]
    BY <1>1, <1>5, <1>7 DEF LoadMisses, Sound, Loaders
  <2>2. l \in Sound
    BY <1>5 DEF Sound, Loaders, RecordsTrue, MissesKnown
  <2> HIDE DEF l
  <2>3. pool' \in Seq(Sound) /\ pool' # <<>>
    BY <1>1, <2>1, <2>2
  <2> QED BY <1>1, <1>2, <1>3, <1>4, <1>7, <2>3 DEF LoadMisses, RunOK, LoadingTrue
<1>8. CASE LoadFails(p)
  <2> DEFINE l == [pool[1] EXCEPT !.negatives = @ \cup {p}, !.unread = @ \cup {p}]
  <2>1. pool' = [pool EXCEPT ![1] = l]
    BY <1>1, <1>5, <1>8 DEF LoadFails, Sound, Loaders
  <2>2. l \in Sound
    BY <1>5 DEF Sound, Loaders, RecordsTrue, MissesKnown
  <2> HIDE DEF l
  <2>3. pool' \in Seq(Sound) /\ pool' # <<>>
    BY <1>1, <2>1, <2>2
  <2> QED BY <1>1, <1>2, <1>3, <1>4, <1>8, <2>3 DEF LoadFails, RunOK, LoadingTrue
<1>9. CASE LoadReads(p)
  <2> DEFINE e == Find(p)
  <2>1. /\ e \in Entries /\ Read(e, p) \in Contents /\ loading' = <<p, e, Read(e, p), FALSE>>
        /\ e \in Jars => kinds'[e] # Unknown
    BY <1>3, <1>9, FindPlace, ReadTrue DEF LoadReads, FoundOpened
  <2>2. Stamp(e, p) \in Nat /\ TrueOf(e, p, Stamp(e, p), Read(e, p))
    BY <2>1, ReadTrue
  <2>3. \A f \in Entries : Stamp(f, p)' = Stamp(f, p)
    BY <1>1, <1>3 DEF Stamp, loaderFiles
  <2>4. \A f \in Entries, b \in Contents :
          Stamp(f, p) \in Nat /\ TrueOf(f, p, Stamp(f, p), b)
            => Stamp(f, p)' \in Nat /\ TrueOf(f, p, Stamp(f, p), b)'
    BY <1>1, <2>3 DEF TrueOf, loaderFiles
  <2>5. LoadingTrue'
    BY <1>1, <1>3, <2>1, <2>2, <2>4 DEF LoadingTrue, InRun
  <2> QED BY <1>1, <1>2, <1>3, <1>4, <1>9, <2>5 DEF LoadReads, RunOK
<1> QED
  BY <1>6, <1>7, <1>8, <1>9

\* The class is recorded with the stamp of what was read.
LEMMA DefineStep ==
  ASSUME LoaderIInv, LoadDefines
  PROVE  LoaderIInv'
<1> USE DEF LoaderIInv
<1>1. PICK p \in Paths, e \in Entries, b \in Contents, torn \in BOOLEAN :
        /\ loading = <<p, e, b, torn>> /\ InRun
        /\ Stamp(e, p) \in Nat /\ (~torn => TrueOf(e, p, Stamp(e, p), b))
  BY DEF LoadDefines, LoadingTrue
<1>2. UNCHANGED <<loaderFiles, runs, runState>> /\ loading' = <<>>
  BY DEF LoadDefines
<1>3. pool # <<>> /\ pool[1] \in Sound
  BY <1>1 DEF RunOK, InRun
<1> DEFINE r == [url |-> e, stamp |-> Stamp(e, p), bytes |-> b, torn |-> torn]
           l == [pool[1] EXCEPT !.loaded[p] = r]
<1>4. pool' = [pool EXCEPT ![1] = l]
  BY <1>1, <1>3 DEF LoadDefines, Sound, Loaders
<1>5. l \in Sound
  <2>1. r \in Resources
    BY <1>1 DEF Resources
  <2>2. l \in Loaders /\ MissesKnown(l)
    BY <1>3, <2>1 DEF Sound, Loaders, MissesKnown
  <2>3. \A q \in Paths : l.loaded[q] = IF q = p THEN r ELSE pool[1].loaded[q]
    BY <1>3 DEF Sound, Loaders
  <2>4. RecordsTrue(l)
    BY <1>1, <1>3, <2>3 DEF RecordsTrue, Sound
  <2> QED BY <2>2, <2>4 DEF Sound
<1>6. Sound' = Sound
  BY <1>2 DEF Sound, RecordsTrue, TrueOf, MissesKnown, loaderFiles
<1> HIDE DEF l
<1>7. pool' \in Seq(Sound') /\ pool' # <<>>
  BY <1>3, <1>4, <1>5, <1>6
<1>8. FilesOK' /\ RunOK' /\ SnapshotsTrue' /\ FoundOpened' /\ LoadingTrue'
  BY <1>2, <1>7 DEF FilesOK, RunOK, SnapshotsTrue, FoundOpened, LoadingTrue, TrueOf, loaderFiles, runState
<1> QED
  BY <1>7, <1>8

\* Every step keeps the invariant.
LEMMA LoaderStep == LoaderIInv /\ [LoaderNext]_loaderVars => LoaderIInv'
<1> SUFFICES ASSUME LoaderIInv, [LoaderNext]_loaderVars PROVE LoaderIInv'
  OBVIOUS
<1>1. CASE EndOfRun
  <2>1. Sound' = Sound
    BY <1>1 DEF EndOfRun, Sound, RecordsTrue, TrueOf, MissesKnown, loaderFiles
  <2> QED BY <1>1, <2>1, RuntimeLoadersConstants DEF EndOfRun, LoaderIInv, FilesOK, RunOK, SnapshotsTrue, LoadingTrue,
                loaderFiles, NothingSeen, NothingFound, Entries, FoundOpened
<1>2. CASE UNCHANGED loaderVars
  <2>1. Sound' = Sound
    BY <1>2 DEF loaderVars, Sound, RecordsTrue, TrueOf, MissesKnown, loaderFiles
  <2> QED BY <1>2, <2>1 DEF loaderVars, LoaderIInv, FilesOK, RunOK, SnapshotsTrue, FoundOpened, TrueOf,
                LoadingTrue, InRun, Stamp, Seen, loaderFiles, runState
<1> QED
  BY <1>1, <1>2, WriteStep, ResetStep, LookStep, DefineStep DEF LoaderNext

-----------------------------------------------------------------------------
(* The theorems.                                                           *)

\* What the pool has recorded of class files and archives is true of them for
\* as long as they have the recorded stamps (readClass, kind).
THEOREM LoaderInvariant == LoaderSpec => []LoaderIInv
  BY LoaderInitIInv, LoaderStep, PTL DEF LoaderSpec

\* A run is served by a kept loader only if the classes it has defined that still
\* resolve come from the files on the run's classpath, unchanged as far as stamps
\* can tell (resetRun, compatible, readClass), whatever is written meanwhile; the
\* exception is a class whose file got a new stamp while it was being loaded.
THEOREM ReusesUnchanged == LoaderSpec => ReusedUnchanged
<1>1. ASSUME LoaderIInv, LoaderNext, StartsRun, NEW p \in Paths,
             pool'[1].loaded[p] # NoResource, FindNow(path', p) # Absent
      PROVE  /\ pool'[1].loaded[p].url = FindNow(path', p)
             /\ \/ pool'[1].loaded[p].bytes \in under[FindNow(path', p)][p]
                \/ pool'[1].loaded[p].torn
  <2>1. PICK cp, stuck, lost : cp \in ClassPaths /\ ResetRun(cp, stuck, lost)
    BY <1>1 DEF LoaderNext, StartsRun, WriteFile, WriteUnseen, LookUp, LoadMisses, LoadFails, LoadReads,
                LoadDefines, EndOfRun
  <2>2. cp \in Seq(Entries) /\ path' = cp
    BY <2>1 DEF ClassPaths, ResetRun
  <2>3. pool'[1] # NewLoader
    BY <1>1 DEF NewLoader
  <2>4. PICK i \in DOMAIN pool : /\ Compatible(pool[i], cp)
                                 /\ pool'[1] = Forget(pool[i], Appeared(pool[i], cp))
    BY <1>1, <2>1, <2>2, <2>3, ResetPool
  <2>5. pool[i] \in Sound
    BY <1>1, <2>4 DEF LoaderIInv
  <2>6. pool'[1].loaded = pool[i].loaded
    BY <2>4, <2>5, ForgetSound
  <2> DEFINE r == pool[i].loaded[p]
             at == FindNow(cp, p)
  <2>7. r.url = at /\ (r.stamp = stamps[at][p] \/ r.bytes = disk[at][p])
    BY <1>1, <2>2, <2>4, <2>6 DEF Compatible
  <2>8. r.torn \/ TrueOf(r.url, p, r.stamp, r.bytes)
    BY <1>1, <2>2, <2>5, <2>7 DEF Sound, RecordsTrue
  <2>9. at \in Entries /\ disk[at][p] \in under[at][p]
    BY <1>1, <2>2, FindNowPlace DEF LoaderIInv, FilesOK
  <2> QED BY <2>2, <2>6, <2>7, <2>8, <2>9 DEF TrueOf
<1>2. LoaderIInv /\ [LoaderNext]_loaderVars =>
        [StartsRun => \A p \in Paths :
           LET l == pool'[1].loaded[p]  at == FindNow(path', p) IN
           l # NoResource /\ at # Absent
             => l.url = at /\ (l.bytes \in under[at][p] \/ l.torn)]_loaderVars
  BY <1>1
<1> QED
  BY <1>2, LoaderInvariant, PTL DEF LoaderSpec, ReusedUnchanged

\* A class that is on the run's classpath is not among the misses of the mirror
\* that serves the run (compatible, forgetMissing), unless it was found and gone
\* when it was read.
THEOREM ForgetsMisses == LoaderSpec => MissesForgotten
<1>1. ASSUME LoaderIInv, LoaderNext, StartsRun, NEW p \in pool'[1].negatives \ pool'[1].unread
      PROVE  FindNow(path', p) = Absent
  <2>1. PICK cp, stuck, lost : cp \in ClassPaths /\ ResetRun(cp, stuck, lost)
    BY <1>1 DEF LoaderNext, StartsRun, WriteFile, WriteUnseen, LookUp, LoadMisses, LoadFails, LoadReads,
                LoadDefines, EndOfRun
  <2>2. cp \in Seq(Entries) /\ path' = cp
    BY <2>1 DEF ClassPaths, ResetRun
  <2>3. pool'[1] # NewLoader
    BY <1>1 DEF NewLoader
  <2>4. PICK i \in DOMAIN pool : pool'[1] = Forget(pool[i], Appeared(pool[i], cp))
    BY <1>1, <2>1, <2>2, <2>3, ResetPool
  <2>5. pool[i] \in Loaders /\ MissesKnown(pool[i])
    BY <1>1, <2>4 DEF LoaderIInv, Sound
  <2>6. p \in pool[i].missing /\ p \notin Appeared(pool[i], cp)
    BY <1>1, <2>4, <2>5 DEF Forget, Loaders, MissesKnown
  <2> QED BY <2>2, <2>6 DEF Appeared
<1>2. LoaderIInv /\ [LoaderNext]_loaderVars =>
        [StartsRun => \A p \in pool'[1].negatives \ pool'[1].unread :
           FindNow(path', p) = Absent]_loaderVars
  BY <1>1
<1> QED
  BY <1>2, LoaderInvariant, PTL DEF LoaderSpec, MissesForgotten
=============================================================================
