----------------------------- MODULE EngineCache -----------------------------
(***************************************************************************)
(* The cache of the macro engine's class files (typer/src/expand.rs,       *)
(* start_engine, compile_engine, valid_engine_class).  Every compiler of a *)
(* machine uses one directory, named after the engine's source; the one    *)
(* that finds no main class there compiles the engine into a staging       *)
(* directory of its own and publishes it with one rename.  A temporary-    *)
(* file sweep (external) may have removed the class files and left the     *)
(* directory, because a daemon's endpoint directory is inside it; the      *)
(* classes are then moved in one by one, the main class last.              *)
(***************************************************************************)
EXTENDS Naturals, FiniteSets

CONSTANTS
  CacheUsers,     \* compilers
  Helpers,        \* the classes the main class refers to
  Main,           \* ScalaRsMacroEngine.class, the one valid_engine_class reads
  JavaSource,     \* ScalaRsMacroEngine.java, which javac is given
  MaxBuilds       \* bound: how often a compiler asks for the engine

EngineClasses == Helpers \cup {Main}
EngineFiles   == EngineClasses \cup {JavaSource}

ASSUME EngineCacheConstants ==
  /\ Main \notin Helpers /\ JavaSource \notin EngineClasses
  /\ MaxBuilds \in Nat

VARIABLES
  upc,       \* each compiler
  builds,    \* how often it has asked
  staging,   \* the files in its staging directory
  engineDir, \* the shared directory exists
  occupied,  \* a daemon's endpoint directory is in it
  published, \* each file of the shared directory: "absent", "fresh" or "old"
  swept      \* history: helpers swept since the main class was published

users     == <<upc, builds, staging>>
cacheVars == <<users, engineDir, occupied, published, swept>>

CacheInit ==
  /\ upc = [u \in CacheUsers |-> "idle"] /\ builds = [u \in CacheUsers |-> 0]
  /\ staging = [u \in CacheUsers |-> {}]
  /\ engineDir = FALSE /\ occupied = FALSE
  /\ published = [f \in EngineFiles |-> "absent"]
  /\ swept = {}

Present == {f \in EngineFiles : published[f] # "absent"}

\* valid_engine_class: the main class can be read.  A file is only ever
\* renamed into place, so that it is there whole or not at all.
ValidEngine == Main \in Present

\* Leaving compile_engine removes the staging directory.
Leave(u, result) ==
  /\ upc' = [upc EXCEPT ![u] = result]
  /\ staging' = [staging EXCEPT ![u] = {}]

\* start_engine: a compilation needs the engine, and looks at the main class.
AskEngine(u) ==
  /\ upc[u] \in {"idle", "ok", "err"} /\ builds[u] < MaxBuilds
  /\ builds' = [builds EXCEPT ![u] = @ + 1]
  /\ upc' = [upc EXCEPT ![u] = IF ValidEngine THEN "ok" ELSE "javac"]
  /\ UNCHANGED <<staging, engineDir, occupied, published, swept>>

\* javac compiles the source into the staging directory.
Compile(u) ==
  /\ upc[u] = "javac"
  /\ upc' = [upc EXCEPT ![u] = "rename"]
  /\ staging' = [staging EXCEPT ![u] = EngineFiles]
  /\ UNCHANGED <<builds, engineDir, occupied, published, swept>>

\* The staging directory cannot be written, there is no javac, it fails, or
\* what it made is not a class file of Java 8.
CompileFails(u) ==
  /\ upc[u] = "javac"
  /\ Leave(u, "err")
  /\ UNCHANGED <<builds, engineDir, occupied, published, swept>>

\* rename(staging, dir) replaces nothing but an empty directory.
PublishWhole(u) ==
  /\ upc[u] = "rename"
  /\ engineDir => Present = {} /\ ~occupied
  /\ Leave(u, "ok")
  /\ engineDir' = TRUE /\ published' = [f \in EngineFiles |-> "fresh"]
  /\ swept' = {}
  /\ UNCHANGED <<builds, occupied>>

RenameFails(u) ==
  /\ upc[u] = "rename"
  /\ engineDir /\ (Present # {} \/ occupied)
  /\ upc' = [upc EXCEPT ![u] = "lost"]
  /\ UNCHANGED <<builds, staging, engineDir, occupied, published, swept>>

\* Mutant: whoever is in the way is taken to have published.
TrustWinner(u) ==
  /\ upc[u] = "lost"
  /\ Leave(u, "ok")
  /\ UNCHANGED <<builds, engineDir, occupied, published, swept>>

\* Another compiler won the race, or nobody did.
LostRace(u) ==
  /\ upc[u] = "lost"
  /\ \/ ValidEngine /\ Leave(u, "ok")
     \/ ~ValidEngine /\ upc' = [upc EXCEPT ![u] = "isdir"] /\ UNCHANGED staging
  /\ UNCHANGED <<builds, engineDir, occupied, published, swept>>

\* The directory is there without the main class: the class files are moved
\* in.  When it has gone in the meantime the error of the rename stands.
EnterDir(u) ==
  /\ upc[u] = "isdir"
  /\ \/ /\ engineDir
        /\ upc' = [upc EXCEPT ![u] = "moving"]
        /\ staging' = [staging EXCEPT ![u] = EngineClasses]
     \/ ~engineDir /\ Leave(u, "err")
  /\ UNCHANGED <<builds, engineDir, occupied, published, swept>>

\* Mutant: the names are not sorted.
MoveAnyClass(u, f) ==
  /\ upc[u] = "moving" /\ f \in staging[u] /\ engineDir
  /\ staging' = [staging EXCEPT ![u] = @ \ {f}]
  /\ published' = [published EXCEPT ![f] = "fresh"]
  /\ swept' = IF f = Main THEN {} ELSE swept \ {f}
  /\ UNCHANGED <<upc, builds, engineDir, occupied>>

\* One class is renamed into the directory; sort_by_key puts the main class
\* last and leaves the others in the order of read_dir.
MoveClass(u, f) ==
  /\ upc[u] = "moving" /\ f \in staging[u] /\ engineDir
  /\ f = Main => staging[u] = {Main}
  /\ staging' = [staging EXCEPT ![u] = @ \ {f}]
  /\ published' = [published EXCEPT ![f] = "fresh"]
  /\ swept' = IF f = Main THEN {} ELSE swept \ {f}
  /\ UNCHANGED <<upc, builds, engineDir, occupied>>

MovedAll(u) ==
  /\ upc[u] = "moving" /\ staging[u] = {}
  /\ Leave(u, "ok")
  /\ UNCHANGED <<builds, engineDir, occupied, published, swept>>

\* A rename fails, of the operating system's own accord or because the
\* directory has been swept away; the staging directory is removed.
MoveFails(u) ==
  /\ upc[u] = "moving" /\ staging[u] # {}
  /\ Leave(u, "failed")
  /\ UNCHANGED <<builds, engineDir, occupied, published, swept>>

\* Somebody else's classes will do.
AfterFailure(u) ==
  /\ upc[u] = "failed"
  /\ upc' = [upc EXCEPT ![u] = IF ValidEngine THEN "ok" ELSE "err"]
  /\ UNCHANGED <<builds, staging, engineDir, occupied, published, swept>>

\* A compiler that has the engine starts its daemon, whose endpoint directory
\* is created in the engine's.
StartDaemon(u) ==
  /\ upc[u] = "ok" /\ engineDir /\ ~occupied
  /\ occupied' = TRUE
  /\ UNCHANGED <<users, engineDir, published, swept>>

\* The compiler is killed; its staging directory stays behind, under a name
\* nobody else uses.
KillCompiler(u) ==
  /\ upc[u] \in {"javac", "rename", "lost", "isdir", "moving", "failed"}
  /\ upc' = [upc EXCEPT ![u] = "dead"]
  /\ staging' = [staging EXCEPT ![u] = {}]
  /\ UNCHANGED <<builds, engineDir, occupied, published, swept>>

\* Days pass: no publication takes that long.
GrowOld ==
  /\ \A u \in CacheUsers : upc[u] # "moving"
  /\ \E f \in EngineFiles : published[f] = "fresh"
  /\ published' = [f \in EngineFiles |->
                   IF published[f] = "absent" THEN "absent" ELSE "old"]
  /\ UNCHANGED <<users, engineDir, occupied, swept>>

\* The sweep removes old files, and directories that are empty.
SweepFile(f) ==
  /\ published[f] = "old"
  /\ published' = [published EXCEPT ![f] = "absent"]
  /\ swept' = IF f \in Helpers THEN swept \cup {f} ELSE swept
  /\ UNCHANGED <<users, engineDir, occupied>>

SweepDirectory ==
  /\ engineDir /\ Present = {}
  /\ \/ occupied /\ occupied' = FALSE /\ UNCHANGED engineDir
     \/ ~occupied /\ engineDir' = FALSE /\ UNCHANGED occupied
  /\ UNCHANGED <<users, published, swept>>

CacheNext ==
  \/ \E u \in CacheUsers :
       \/ AskEngine(u) \/ Compile(u) \/ CompileFails(u)
       \/ PublishWhole(u) \/ RenameFails(u) \/ LostRace(u) \/ EnterDir(u)
       \/ \E f \in EngineClasses : MoveClass(u, f)
       \/ MovedAll(u) \/ MoveFails(u) \/ AfterFailure(u)
       \/ StartDaemon(u) \/ KillCompiler(u)
  \/ GrowOld
  \/ \E f \in EngineFiles : SweepFile(f)
  \/ SweepDirectory

CacheSpec == CacheInit /\ [][CacheNext]_cacheVars

-----------------------------------------------------------------------------
(* Properties *)

\* No process sees the main class before the classes it refers to, whichever
\* compilers publish at once, fail or are killed in the middle: a helper is
\* missing beside the main class only when it was swept afterwards.
MainClassLast == ValidEngine => Helpers \subseteq Present \cup swept

\* compile_engine and start_engine take a directory for an engine only when its
\* main class is there, with every helper that no sweep has taken since that
\* class was published; a compiler that has just published one itself, by the
\* rename or class by class, finds all of it there.
OkMeansPublished ==
  [][\A u \in CacheUsers : upc'[u] = "ok" /\ (upc[u] # "ok" \/ builds'[u] # builds[u])
       => /\ ValidEngine' /\ Helpers \subseteq Present' \cup swept'
          /\ upc[u] \in {"rename", "moving"} => Helpers \subseteq Present']_cacheVars
=============================================================================
