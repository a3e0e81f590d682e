---- MODULE MCParts ----
(***************************************************************************)
(* The parts of one compiler process and of its engine that share no state,*)
(* checked side by side: a behaviour works on one part, chosen at the      *)
(* start, and leaves the others as they begin.                             *)
(***************************************************************************)
EXTENDS EngineCache, RuntimeLoaders, Linearization, InheritanceCycles, LazySig,
        PatmatSolver, LiftCaptures, SignatureCodec, ResidentCaches

\* A class with two parents, of which the second extends the first.
Outright(cs) == [i \in DOMAIN cs |-> [class |-> cs[i], outright |-> TRUE]]
Diamond == [c \in Classes |-> Outright(CASE c = 3 -> <<1, 2>> [] c = 2 -> <<1>> [] OTHER -> <<>>)]

VARIABLE part  \* the part this behaviour is about

Parts == {"cache", "loaders", "lin", "cycles", "lazy", "solver", "lift", "codec", "resident"}

PartsInit ==
  /\ part \in Parts
  /\ CacheInit /\ LoaderInit /\ LinInit /\ CycleInit /\ LazyInit
  /\ SolverInit /\ LiftInit /\ CodecInit /\ CachesInit

PartsNext ==
  /\ UNCHANGED part
  /\ \/ /\ part = "cache" /\ CacheNext
        /\ UNCHANGED <<loaderVars, linVars, cycleVars, lazyVars,
                      solverVars, liftVars, codecVars, cachesVars>>
     \/ /\ part = "loaders" /\ LoaderNext
        /\ UNCHANGED <<cacheVars, linVars, cycleVars, lazyVars,
                      solverVars, liftVars, codecVars, cachesVars>>
     \/ /\ part = "lin" /\ LinNext
        /\ UNCHANGED <<cacheVars, loaderVars, cycleVars, lazyVars,
                      solverVars, liftVars, codecVars, cachesVars>>
     \/ /\ part = "cycles" /\ CycleNext
        /\ UNCHANGED <<cacheVars, loaderVars, linVars, lazyVars,
                      solverVars, liftVars, codecVars, cachesVars>>
     \/ /\ part = "lazy" /\ LazyNext
        /\ UNCHANGED <<cacheVars, loaderVars, linVars, cycleVars,
                      solverVars, liftVars, codecVars, cachesVars>>
     \/ /\ part = "solver" /\ SolverNext
        /\ UNCHANGED <<cacheVars, loaderVars, linVars, cycleVars,
                      lazyVars, liftVars, codecVars, cachesVars>>
     \/ /\ part = "lift" /\ LiftNext
        /\ UNCHANGED <<cacheVars, loaderVars, linVars, cycleVars,
                      lazyVars, solverVars, codecVars, cachesVars>>
     \/ /\ part = "codec" /\ CodecNext
        /\ UNCHANGED <<cacheVars, loaderVars, linVars, cycleVars,
                      lazyVars, solverVars, liftVars, cachesVars>>
     \/ /\ part = "resident" /\ CachesNext
        /\ UNCHANGED <<cacheVars, loaderVars, linVars, cycleVars,
                      lazyVars, solverVars, liftVars, codecVars>>

PartsSpec ==
  PartsInit /\ [][PartsNext]_<<part, cacheVars, loaderVars, linVars, cycleVars, lazyVars,
                              solverVars, liftVars, codecVars, cachesVars>>
====
