--------------------------- MODULE RuntimeLoaders ----------------------------
(***************************************************************************)
(* The class loaders a macro daemon keeps from run to run                  *)
(* (typer/java/ScalaRsMacroEngine.java, ClassPath, RuntimeLoader, resetRun).*)
(* A run brings a classpath of directories and archives; the class files   *)
(* behind it are rewritten by other programs.  A loader keeps every class  *)
(* it has defined, so it may serve a later run only while those classes    *)
(* still are what the later classpath would give; its mirror also          *)
(* remembers the classes it did not find.                                  *)
(*                                                                         *)
(* A file's stamp (length and modification time) is a number; a rewrite    *)
(* gives a new one or, within the clock's resolution, keeps the old, except*)
(* that an archive always gets a new one.  The digest of a file stands for *)
(* its contents.  Every class is in a top-level package of its own.        *)
(***************************************************************************)
EXTENDS Naturals, FiniteSets, Sequences

CONSTANTS
  Dirs, Jars,         \* classpath entries
  Paths,              \* class files
  Contents,           \* what a class file may hold
  Absent, Unknown,
  PoolSize,           \* RUNTIME_LOADER_POOL
  MaxRuns, MaxWrites  \* bounds: runs, and changes made to the files

Entries == Dirs \cup Jars

ASSUME RuntimeLoadersConstants ==
  /\ Dirs \cap Jars = {} /\ Absent \notin Contents \cup Entries
  /\ Unknown \notin Contents \cup Entries \cup {Absent}
  /\ PoolSize \in Nat \ {0} /\ MaxRuns \in Nat /\ MaxWrites \in Nat
  /\ Unknown \notin [files : [Paths -> Contents \cup {Absent}], stamp : [Paths -> Nat]]

VARIABLES
  disk,     \* contents of each class file of each entry
  stamps,   \* each class file's stamp; an archive's is that of all its files
  writes,   \* changes so far, the source of stamps
  under,    \* (history) what each class file has held under its present stamp
  pool,     \* runtimeLoaders, the current run's loader first
  runs,
  path,     \* the run's classpath, <<>> between runs
  kinds,    \* the entries the run has looked into, and what it saw there
  found,    \* ClassPath.found: where each class file was found
  loading   \* the class file being loaded, or <<>>: path, entry, bytes and (history)
            \* whether it has a new stamp since the bytes were read

loaderFiles == <<disk, stamps, writes, under>>
runState    == <<path, kinds, found>>
loaderVars  == <<loaderFiles, pool, runs, runState, loading>>

NoResource == [url |-> Absent, stamp |-> 0, bytes |-> Absent, torn |-> FALSE]

\* A loader: what it has defined and from where, the classes the classpath
\* did not have, those its mirror believes not to exist, and (history) those
\* of them that were found and could not be read.
NewLoader ==
  [loaded |-> [p \in Paths |-> NoResource], missing |-> {}, negatives |-> {},
   unread |-> {}]

NothingSeen == [e \in Entries |-> Unknown]
NothingFound == [p \in Paths |-> Unknown]

LoaderInit ==
  /\ disk = [e \in Entries |-> [p \in Paths |-> Absent]]
  /\ stamps = [e \in Entries |-> [p \in Paths |-> 0]] /\ writes = 0
  /\ under = [e \in Entries |-> [p \in Paths |-> {Absent}]]
  /\ pool = <<>> /\ runs = 0
  /\ path = <<>> /\ kinds = NothingSeen /\ found = NothingFound
  /\ loading = <<>>

InRun == path # <<>>

\* Another program writes or deletes a class file, or packs an archive anew.
WriteFile(e, p, c) ==
  /\ writes < MaxWrites
  /\ c = Absent => disk[e][p] # Absent
  /\ writes' = writes + 1
  /\ disk' = [disk EXCEPT ![e][p] = c]
  /\ stamps' = [stamps EXCEPT ![e] =
                  [q \in Paths |-> IF e \in Jars \/ q = p THEN writes' ELSE @[q]]]
  /\ under' = [under EXCEPT ![e] =
                 [q \in Paths |-> IF e \in Jars \/ q = p THEN {disk'[e][q]} ELSE @[q]]]
  /\ loading' = IF loading # <<>> /\ e \in Dirs /\ loading[1] = p /\ loading[2] = e
                THEN <<p, e, loading[3], TRUE>> ELSE loading
  /\ UNCHANGED <<pool, runs, runState>>

\* It writes a class file of a directory again, with the same length and within
\* the same instant of the clock.
WriteUnseen(e, p, c) ==
  /\ e \in Dirs
  /\ writes < MaxWrites
  /\ disk[e][p] # Absent /\ c # Absent
  /\ writes' = writes + 1
  /\ disk' = [disk EXCEPT ![e][p] = c]
  /\ under' = [under EXCEPT ![e][p] = @ \cup {c}]
  /\ UNCHANGED <<stamps, pool, runs, runState, loading>>

\* The first entry of a classpath that has a file, where Has says which do.
First(cp, Has(_)) ==
  LET at == {i \in DOMAIN cp : Has(cp[i])}
  IN  IF at = {} THEN Absent
      ELSE cp[CHOOSE i \in at : \A j \in at : i <= j]

\* find on a classpath that was just made.
FindNow(cp, p) == First(cp, LAMBDA e : disk[e][p] # Absent)

\* kind: an entry is looked at once in a run.  An archive stays as it was
\* opened, with its stamp; of a directory only the top-level names stay.
Seen(e) == IF kinds[e] # Unknown THEN kinds[e]
           ELSE [files |-> disk[e], stamp |-> stamps[e]]

\* holds
Holds(e, p) == /\ Seen(e).files[p] # Absent
               /\ e \in Dirs => disk[e][p] # Absent

\* find
Find(p) == IF found[p] # Unknown THEN found[p]
           ELSE First(path, LAMBDA e : Holds(e, p))

\* The entries that a lookup of the paths ps has looked into.
Touched(cp, ps, Where(_)) ==
  {e \in Entries : \E p \in ps, i \in DOMAIN cp :
     cp[i] = e /\ \A j \in 1..(i - 1) : cp[j] # Where(p)}

\* What find remembers: where the file was, and the entries it opened.
Remember(p) ==
  /\ found' = [found EXCEPT ![p] = Find(p)]
  /\ kinds' = IF found[p] # Unknown THEN kinds
              ELSE [e \in Entries |-> IF e \in Touched(path, {p}, Find)
                                      THEN Seen(e) ELSE kinds[e]]
  /\ UNCHANGED path

\* read: from the archive as it was opened, or from the directory now.
Read(e, p) == IF e \in Jars THEN Seen(e).files[p] ELSE disk[e][p]

\* stamp: of the archive as it was opened, or of the class file now.
Stamp(e, p) == IF e \in Jars THEN Seen(e).stamp[p] ELSE stamps[e][p]

\* Mutant: where a class is found now is not compared.
CompatibleAnywhere(l, cp) ==
  \A p \in Paths : LET at == FindNow(cp, p) IN
    l.loaded[p] # NoResource /\ at # Absent
      => \/ l.loaded[p].stamp = stamps[at][p]
         \/ l.loaded[p].bytes = disk[at][p]

\* compatible: every class the loader has defined is still found in the same
\* place, with the same stamp or the same digest, or not at all.
Compatible(l, cp) ==
  \A p \in Paths : LET at == FindNow(cp, p) IN
    l.loaded[p] # NoResource /\ at # Absent
      => /\ l.loaded[p].url = at
         /\ \/ l.loaded[p].stamp = stamps[at][p]
            \/ l.loaded[p].bytes = disk[at][p]

\* Mutant: nobody asks what has appeared.
NothingAppears(l, cp) == {}

\* compatible: what the loader missed and the classpath has.
Appeared(l, cp) == {p \in l.missing : FindNow(cp, p) # Absent}

\* forgetMissing
Forget(l, ps) == [l EXCEPT !.missing = @ \ ps, !.negatives = @ \ ps]

\* forgetMissing gave up on the mirror, which has forgotten some of it by then.
GaveUp(l, ps) == [l EXCEPT !.negatives = @ \ ps]

\* resetRun: the most recent loader that is compatible with the classpath and
\* whose mirror could be made to forget serves the run, else a new one.  The
\* mirrors in stuck could not, beyond the classes in lost.
ResetRun(cp, stuck, lost) ==
  LET usable == {i \in DOMAIN pool : /\ Compatible(pool[i], cp)
                                     /\ Appeared(pool[i], cp) # {} => i \notin stuck}
      i == CHOOSE i \in usable : \A j \in usable : i <= j
      tried == [j \in DOMAIN pool |->
                  IF Compatible(pool[j], cp) /\ j \in stuck /\ \A k \in usable : j < k
                  THEN GaveUp(pool[j], Appeared(pool[j], cp) \cap lost) ELSE pool[j]]
      reused == Forget(pool[i], Appeared(pool[i], cp))
      asked == {p \in Paths : pool[i].loaded[p] # NoResource} \cup pool[i].missing
      Where(p) == FindNow(cp, p)
  IN
  /\ ~InRun /\ runs < MaxRuns
  /\ runs' = runs + 1 /\ path' = cp
  /\ IF usable # {}
     THEN /\ pool' = <<reused>> \o SubSeq(tried, 1, i - 1)
                                \o SubSeq(tried, i + 1, Len(pool))
          /\ found' = [p \in Paths |-> IF p \in asked THEN Where(p) ELSE Unknown]
          /\ kinds' = [e \in Entries |-> IF e \in Touched(cp, asked, Where)
                                         THEN Seen(e) ELSE Unknown]
     ELSE /\ pool' = <<NewLoader>> \o
                     (IF Len(pool) < PoolSize THEN tried ELSE SubSeq(tried, 1, PoolSize - 1))
          /\ UNCHANGED <<found, kinds>>
  /\ UNCHANGED <<loaderFiles, loading>>

\* findResource, or the lookups of a loader that resetRun turned down.
LookUp(p) ==
  /\ InRun /\ loading = <<>> /\ found[p] = Unknown
  /\ Remember(p)
  /\ UNCHANGED <<loaderFiles, pool, runs, loading>>

\* readClass: the class is not on the classpath.
LoadMisses(p) ==
  /\ InRun /\ loading = <<>> /\ p \notin pool[1].negatives
  /\ pool[1].loaded[p] = NoResource
  /\ Find(p) = Absent
  /\ Remember(p)
  /\ pool' = [pool EXCEPT ![1].missing = @ \cup {p}, ![1].negatives = @ \cup {p}]
  /\ UNCHANGED <<loaderFiles, runs, loading>>

\* readClass: the class was found, and is gone when it is read.  The mirror
\* notes a miss that missingResources does not have.
LoadFails(p) ==
  /\ InRun /\ loading = <<>> /\ p \notin pool[1].negatives
  /\ pool[1].loaded[p] = NoResource
  /\ Find(p) # Absent /\ Read(Find(p), p) = Absent
  /\ Remember(p)
  /\ pool' = [pool EXCEPT ![1].negatives = @ \cup {p}, ![1].unread = @ \cup {p}]
  /\ UNCHANGED <<loaderFiles, runs, loading>>

\* readClass: the bytes are read,
LoadReads(p) ==
  /\ InRun /\ loading = <<>> /\ p \notin pool[1].negatives
  /\ pool[1].loaded[p] = NoResource
  /\ Find(p) # Absent /\ Read(Find(p), p) # Absent
  /\ Remember(p)
  /\ loading' = <<p, Find(p), Read(Find(p), p), FALSE>>
  /\ UNCHANGED <<loaderFiles, pool, runs>>

\* and then recorded with the stamp the file has by now.
LoadDefines ==
  /\ loading # <<>>
  /\ LET p == loading[1]  e == loading[2] IN
     pool' = [pool EXCEPT ![1].loaded[p] =
                [url |-> e, stamp |-> Stamp(e, p), bytes |-> loading[3], torn |-> loading[4]]]
  /\ loading' = <<>>
  /\ UNCHANGED <<loaderFiles, runs, runState>>

EndOfRun ==
  /\ InRun /\ loading = <<>>
  /\ path' = <<>> /\ kinds' = NothingSeen /\ found' = NothingFound
  /\ UNCHANGED <<loaderFiles, pool, runs, loading>>

ClassPaths == {cp \in UNION {[1..n -> Entries] : n \in 1..Cardinality(Entries)} :
                 \A i, j \in DOMAIN cp : cp[i] = cp[j] => i = j}

LoaderNext ==
  \/ \E e \in Entries, p \in Paths, c \in Contents \cup {Absent} :
       WriteFile(e, p, c) \/ WriteUnseen(e, p, c)
  \/ \E cp \in ClassPaths, stuck \in SUBSET {i \in DOMAIN pool : pool[i].missing # {}} :
       \E lost \in SUBSET UNION {pool[i].missing : i \in stuck} : ResetRun(cp, stuck, lost)
  \/ \E p \in Paths : LookUp(p) \/ LoadMisses(p) \/ LoadFails(p) \/ LoadReads(p)
  \/ LoadDefines
  \/ EndOfRun

LoaderSpec == LoaderInit /\ [][LoaderNext]_loaderVars

-----------------------------------------------------------------------------
(* Properties *)

StartsRun == runs' # runs

\* A run is served by a loader only if every class the loader has defined that
\* still resolves on the run's classpath comes from the file that is there now,
\* unchanged: a changed or shadowed class gets a new loader.  What stamps cannot
\* tell is excepted: contents the file has had under its present stamp, and a
\* class file that got a new stamp between the read of its bytes and of its stamp.
\* Classes that no longer resolve are passed over by compatible, and nothing is
\* said of them.
ReusedUnchanged ==
  [][StartsRun => \A p \in Paths :
       LET l == pool'[1].loaded[p]  at == FindNow(path', p) IN
       l # NoResource /\ at # Absent
         => l.url = at /\ (l.bytes \in under[at][p] \/ l.torn)]_loaderVars

\* A class that has appeared since a kept mirror looked for it in vain is not
\* taken to be missing by the run that has it on its classpath.  The exception
\* is a class that was found and went away before it was read (LoadFails).
MissesForgotten ==
  [][StartsRun => \A p \in pool'[1].negatives \ pool'[1].unread :
       FindNow(path', p) = Absent]_loaderVars
=============================================================================
