------------------------ MODULE ProfilerServerProofs ------------------------
(***************************************************************************)
(* What the COM server and the metadata cache of its profiler promise when *)
(* they are put together.  Each part keeps its own specification, so that  *)
(* what was proved about it alone (ComServerProofs, MetadataCacheProofs)   *)
(* holds here: the server because no step of the composition does anything *)
(* to it that it does not do itself, the cache because the reference       *)
(* counts keep the destructor away from the callbacks.                     *)
(***************************************************************************)
EXTENDS ProfilerServer, FiniteSetTheorems, TLAPS

\* The two parts, with what was proved about them.
SP == INSTANCE ComServerProofs WITH Profilers <- {Profiler}
CP == INSTANCE MetadataCacheProofs WITH pc <- work

-----------------------------------------------------------------------------
(***************************************************************************)
(* The parts' theorems speak of the parts' own copies of what ComServer    *)
(* and MetadataCache define, and assume what those modules assume.         *)
(***************************************************************************)
LEMMA ServerConstants ==
  /\ SP!IsFiniteSet(Threads) /\ SP!IsFiniteSet(Factories)
  /\ SP!IsFiniteSet({Profiler})
  /\ Factories \cap {Profiler} = {}
  /\ None \notin SP!Objects
  /\ MaxRefs \in Nat /\ MaxLocks \in Nat
<1>1. \A S : SP!IsFiniteSet(S) <=> IsFiniteSet(S)
  BY DEF SP!IsFiniteSet, IsFiniteSet
<1> QED BY <1>1, CompositionAssumption, FS_Singleton DEF SP!Objects

LEMMA CacheConstants ==
  /\ CP!IsFiniteSet(Threads) /\ CP!IsFiniteSet(Modules)
  /\ None \notin Modules
  /\ MaxGenerations \in Nat \ {0}
<1>1. \A S : CP!IsFiniteSet(S) <=> IsFiniteSet(S)
  BY DEF CP!IsFiniteSet, IsFiniteSet
<1> QED BY <1>1, CompositionAssumption

LEMMA SameServerInit == Server!Init => SP!Init
  BY DEF Server!Init, SP!Init, Server!Objects, SP!Objects, Server!At, SP!At,
         Server!Idle, SP!Idle, Server!Indeterminate, SP!Indeterminate

LEMMA SameServerNext ==
  [Server!Next]_serverVars => [SP!Next]_SP!vars
  BY DEF serverVars, SP!vars,
         Server!Next, SP!Next, Server!Call, SP!Call, Server!Continue,
         SP!Continue, Server!Crashed, SP!Crashed, Server!server, SP!server,
         Server!host, SP!host, Server!Objects, SP!Objects, Server!At, SP!At,
         Server!Idle, SP!Idle, Server!Enters, SP!Enters, Server!Returns,
         SP!Returns, Server!MayGiveUp, SP!MayGiveUp, Server!CountObject,
         SP!CountObject, Server!DiscountObject, SP!DiscountObject,
         Server!Construct, SP!Construct, Server!DllGetClassObject,
         SP!DllGetClassObject, Server!GetClassRefused, SP!GetClassRefused,
         Server!NewFactory, SP!NewFactory, Server!CreateInstance,
         SP!CreateInstance, Server!CreateRefused, SP!CreateRefused,
         Server!NewProfiler, SP!NewProfiler, Server!NewProfilerThrows,
         SP!NewProfilerThrows, Server!QueryGranted, SP!QueryGranted,
         Server!DestructorOf, SP!DestructorOf, Server!QueryRefused,
         SP!QueryRefused, Server!AddRef, SP!AddRef, Server!Increment,
         SP!Increment, Server!NoInterface, SP!NoInterface, Server!Release,
         SP!Release, Server!Decrement, SP!Decrement, Server!Last, SP!Last,
         Server!TestCount, SP!TestCount, Server!ClrRefsOf, SP!ClrRefsOf,
         Server!ReleasePointers, SP!ReleasePointers,
         Server!ReleaseIndeterminate, SP!ReleaseIndeterminate,
         Server!DllUnlock, SP!DllUnlock, Server!Leave, SP!Leave,
         Server!LockServer, SP!LockServer, Server!Initialize, SP!Initialize,
         Server!Callback, SP!Callback, Server!CallbackReturns,
         SP!CallbackReturns, Server!DllCanUnloadNow, SP!DllCanUnloadNow,
         Server!LoadLibrary, SP!LoadLibrary, Server!UnloadLibrary,
         SP!UnloadLibrary, Server!Indeterminate, SP!Indeterminate,
         Server!vars

LEMMA SameCacheInit == Cache!Init => CP!Init
  BY DEF Cache!Init, CP!Init, Cache!Generations, CP!Generations,
         Cache!Instances, CP!Instances, Cache!At, CP!At, Cache!Idle, CP!Idle

LEMMA SameCacheNext ==
  [Cache!Next]_cacheVars => [CP!Next]_CP!vars
  BY DEF cacheVars,
         Cache!Next, CP!Next, Cache!containers, CP!containers, Cache!clr,
         CP!clr, Cache!world, CP!world, Cache!Generations, CP!Generations,
         Cache!Instances, CP!Instances, Cache!At, CP!At, Cache!Idle, CP!Idle,
         Cache!LoadSteps, CP!LoadSteps, Cache!Loading, CP!Loading, Cache!Goes,
         CP!Goes, Cache!Returns, CP!Returns, Cache!ModuleLoadFinished,
         CP!ModuleLoadFinished, Cache!ImportRefused, CP!ImportRefused,
         Cache!GetMetadataImportByModuleID, CP!GetMetadataImportByModuleID,
         Cache!FindEntry, CP!FindEntry, Cache!Outcomes, CP!Outcomes,
         Cache!InsertEntry, CP!InsertEntry, Cache!ListDefinitions,
         CP!ListDefinitions, Cache!AppendDefinitions, CP!AppendDefinitions,
         Cache!ListReferences, CP!ListReferences, Cache!AppendReferences,
         CP!AppendReferences, Cache!JITCompilationStarted,
         CP!JITCompilationStarted, Cache!GetFullMethodName,
         CP!GetFullMethodName, Cache!ModuleUnloads, CP!ModuleUnloads,
         Cache!Cached, CP!Cached, Cache!ReleaseMetadataCache,
         CP!ReleaseMetadataCache, Cache!Working, CP!Working, Cache!Finished,
         CP!Finished, Cache!vars, CP!vars

-----------------------------------------------------------------------------
(***************************************************************************)
(* The composition does to the server what the server does: a step of the  *)
(* cache leaves it alone, and a step that both take is one of its own.  So *)
(* every theorem about ComServer is one about the composition.             *)
(***************************************************************************)
THEOREM ServerUndisturbed == Spec => Server!Spec
<1>1. Init => Server!Init
  BY DEF Init
<1>2. [Next]_vars => [Server!Next]_Server!vars
  <2> SUFFICES ASSUME [Next]_vars PROVE [Server!Next]_Server!vars
    OBVIOUS
  <2>1. ASSUME NEW t \in Threads, fault = "none",
               \/ NewProfiler(t) \/ Initialize(t)
               \/ Callback(t) \/ CallbackWorks(t) \/ CallbackReturns(t)
               \/ Destroy(t) \/ ServerOnly(t)
        PROVE  [Server!Next]_Server!vars
    <3>1. CallbackWorks(t) => UNCHANGED Server!vars
      BY DEF CallbackWorks, serverVars, Server!vars
    <3>2. ~CallbackWorks(t) => Server!Call(t) \/ Server!Continue(t)
      BY <2>1 DEF NewProfiler, Initialize, Callback, CallbackReturns,
                  Destroy, ServerOnly, Server!Call, Server!Continue
    <3> QED BY <2>1, <3>1, <3>2 DEF Server!Next
  <2>2. LibraryMoves /\ fault = "none" => Server!Next
    BY DEF LibraryMoves, Server!Next
  <2>3. \A m \in Modules : ModuleUnloads(m) => UNCHANGED Server!vars
    BY DEF ModuleUnloads, serverVars, Server!vars
  <2>4. Crashed \/ UNCHANGED vars => UNCHANGED Server!vars
    BY DEF Crashed, vars, serverVars, Server!vars
  <2> QED BY <2>1, <2>2, <2>3, <2>4 DEF Next
<1> QED BY <1>1, <1>2, PTL DEF Spec, Server!Spec

LEMMA ServerInvariant == Spec => []SP!IInv
<1>1. [Server!Next]_Server!vars => [SP!Next]_SP!vars
  BY SameServerNext DEF serverVars, Server!vars
<1>2. SP!Spec => []SP!IInv
  BY ServerConstants, SP!Inductive, PTL
<1> QED BY <1>1, <1>2, SameServerInit, ServerUndisturbed, PTL
        DEF Server!Spec, SP!Spec

-----------------------------------------------------------------------------
(***************************************************************************)
(* What ties the parts together: who works on the cache is in a callback,  *)
(* the flag the cache goes by is the one Initialize set, the cache goes    *)
(* when the destructor has released the pointers and never comes back, and *)
(* no import is taken before there is an m_CorProfilerInfo to ask.         *)
(***************************************************************************)
Profiling == fields[Profiler].info = "ref"
Dying == \E t \in Threads : pc[t].at = "unlock" /\ pc[t].obj = Profiler

Workers == \A t \in Threads : ~Resting(t) =>
             /\ pc[t].at = "callback" /\ pc[t].on = Profiler
             /\ work[t].at = "import" => m_CanUseV2Interfaces

Foretold ==
  /\ fields[Profiler].v2 # "uninit" =>
       m_CanUseV2Interfaces = (fields[Profiler].v2 = "yes")
  /\ Profiling => fields[Profiler].v2 # "uninit"

OneLife == ~alive => Profiler \notin alloc \/ Dying

Unused ==
  alive /\ ~Profiling => \A i \in Cache!Instances : imports[i] = 0

Link == Workers /\ Foretold /\ OneLife /\ Unused

LEMMA Types ==
  ASSUME SP!IInv, CP!CacheInv
  PROVE  /\ pc \in [Threads -> [at : SP!Steps, on : SP!Objects \cup {None},
                                obj : SP!Objects \cup {None}, res : Nat]]
         /\ fields \in [{Profiler} -> [info  : {"uninit", "null", "ref"},
                                       info2 : {"uninit", "null", "ref"},
                                       v2    : {"uninit", "yes", "no"}]]
         /\ work \in [Threads -> CP!Place]
         /\ imports \in [CP!Instances -> Nat]
  BY DEF SP!IInv, SP!TypeOK, CP!CacheInv, CP!Shape

\* A profiler whose cache is worked on exists, may ask the CLR and is in
\* nobody's hands to be destroyed.
LEMMA WorkedOn ==
  ASSUME SP!IInv, Link, NEW t \in Threads, ~Resting(t)
  PROVE  /\ pc[t].at = "callback" /\ pc[t].on = Profiler
         /\ Profiling
         /\ Profiler \in alloc
         /\ \A u \in Threads : SP!Owns(u) => pc[u].obj # Profiler
<1>1. pc[t].at = "callback" /\ pc[t].on = Profiler
  BY DEF Link, Workers
<1>2. SP!PlaceOK(t) /\ Profiler \in SP!Objects
  BY DEF SP!IInv, SP!PlacesOK, SP!Objects
<1>3. refs[Profiler] > 0 /\ Profiling
  <2>1. Profiler # None
    BY CompositionAssumption
  <2> QED BY <1>1, <1>2, <2>1 DEF SP!PlaceOK, Profiling
<1> QED BY <1>1, <1>2, <1>3, ServerConstants, SP!HeldNotOwned

\* The thread that is about to release the pointers finds the cache in place
\* and at rest.
LEMMA DestroyedAlone ==
  ASSUME SP!IInv, Link, NEW t \in Threads, pc[t].at = "dtor"
  PROVE  /\ pc[t].obj = Profiler
         /\ alive
         /\ \A u \in Threads : Resting(u)
<1>1. pc[t].obj = Profiler
  BY DEF SP!IInv, SP!PlacesOK, SP!PlaceOK
<1>2. SP!Owns(t)
  BY DEF SP!Owns
<1>3. /\ Profiler \in alloc
      /\ \A u \in Threads : SP!Owns(u) /\ pc[u].obj = Profiler => u = t
  BY <1>1, <1>2 DEF SP!IInv, SP!OneDestroyer
<1>4. ~Dying
  BY <1>3 DEF Dying, SP!Owns
<1>5. alive
  BY <1>3, <1>4 DEF Link, OneLife
<1> QED BY <1>1, <1>2, <1>5, WorkedOn

-----------------------------------------------------------------------------
(***************************************************************************)
(* The steps of the composition.                                           *)
(***************************************************************************)
LEMMA LinkInit == ASSUME Init PROVE Link
<1>1. \A t \in Threads : Resting(t)
  BY DEF Init, Cache!Init, Resting
<1>2. fields[Profiler] = Server!Indeterminate /\ alive
      /\ \A i \in Cache!Instances : imports[i] = 0
  BY DEF Init, Server!Init, Cache!Init
<1> QED BY <1>1, <1>2 DEF Link, Workers, Foretold, OneLife, Unused, Profiling,
                          Server!Indeterminate

\* The steps of the server alone.  They make no profiler, and forget the
\* profiler's pointers only when those are released.
LEMMA ServerOnlyFrame ==
  ASSUME SP!IInv, CP!CacheInv, NEW t \in Threads, ServerOnly(t)
  PROVE  /\ \A u \in Threads \ {t} : pc'[u] = pc[u]
         /\ pc[t].at # "callback"
         /\ Profiler \in alloc' => Profiler \in alloc
         /\ pc[t].at = "unlock" /\ pc[t].obj = Profiler => Profiler \notin alloc'
         /\ \/ fields'[Profiler] = fields[Profiler]
            \/ ~Profiling /\ fields'[Profiler] = Server!Indeterminate
         /\ UNCHANGED cacheVars
<1> USE Types
<1>1. CASE Server!DllUnlock(t)
  <2>1. pc[t].obj = Profiler => ~Profiling
    BY <1>1 DEF Server!DllUnlock, SP!IInv, SP!PlacesOK, SP!PlaceOK, Profiling
  <2> QED BY <1>1, <2>1 DEF Server!DllUnlock, ServerOnly
<1>2. CASE Server!NewFactory(t)
  BY <1>2, CompositionAssumption
     DEF Server!NewFactory, Server!Construct, ServerOnly
<1>3. CASE \/ \E f \in Factories, b \in BOOLEAN : Server!LockServer(t, f, b)
           \/ \E o \in Server!Objects : Server!AddRef(t, o) \/ Server!Release(t, o)
           \/ \E f \in Factories : Server!CreateInstance(t, f)
           \/ Server!DllGetClassObject(t)
  BY <1>3 DEF Server!LockServer, Server!AddRef, Server!Release,
              Server!CreateInstance, Server!DllGetClassObject, Server!Enters,
              Server!Idle, Server!At, Server!server, Server!host, ServerOnly
<1>4. CASE \/ Server!GetClassRefused(t) \/ Server!CreateRefused(t)
           \/ Server!NewProfilerThrows(t) \/ Server!QueryGranted(t)
           \/ Server!QueryRefused(t) \/ Server!Increment(t)
           \/ Server!NoInterface(t) \/ Server!Decrement(t)
           \/ Server!TestCount(t) \/ Server!ReleaseIndeterminate(t)
           \/ Server!Leave(t)
  BY <1>4 DEF Server!GetClassRefused, Server!CreateRefused,
              Server!NewProfilerThrows, Server!QueryGranted,
              Server!QueryRefused, Server!Increment, Server!NoInterface,
              Server!Decrement, Server!TestCount, Server!ReleaseIndeterminate,
              Server!Leave, Server!Returns, Server!server, Server!host,
              ServerOnly
<1> QED BY <1>1, <1>2, <1>3, <1>4 DEF ServerOnly

LEMMA ServerOnlyStep ==
  ASSUME SP!IInv, CP!CacheInv, Link, NEW t \in Threads, ServerOnly(t)
  PROVE  Link'
<1>1. UNCHANGED <<m_CanUseV2Interfaces, alive, imports, work>>
  BY ServerOnlyFrame DEF cacheVars
<1>2. Workers'
  BY <1>1, ServerOnlyFrame DEF Link, Workers, Resting
<1>3. Foretold' /\ Unused'
  BY <1>1, ServerOnlyFrame
     DEF Link, Foretold, Unused, Profiling, Server!Indeterminate
<1>4. OneLife'
  BY <1>1, ServerOnlyFrame DEF Link, OneLife, Dying
<1> QED BY <1>2, <1>3, <1>4 DEF Link

LEMMA NewProfilerStep ==
  ASSUME SP!IInv, CP!CacheInv, Link, NEW t \in Threads, NewProfiler(t)
  PROVE  Link'
<1>1. /\ alive
      /\ UNCHANGED <<m_CanUseV2Interfaces, alive, imports, work, fields>>
      /\ pc[t].at = "create"
      /\ \A u \in Threads \ {t} : pc'[u] = pc[u]
  BY Types DEF NewProfiler, Server!NewProfiler, Server!Construct, cacheVars
<1> QED BY <1>1 DEF Link, Workers, Foretold, OneLife, Unused, Resting,
                    Profiling

LEMMA InitializeStep ==
  ASSUME SP!IInv, CP!CacheInv, Link, NEW t \in Threads, Initialize(t)
  PROVE  Link'
<1>1. /\ UNCHANGED <<m_CanUseV2Interfaces, alive, imports, work, pc, alloc>>
      /\ ~Profiling
      /\ fields'[Profiler].v2 # "uninit" =>
           m_CanUseV2Interfaces = (fields'[Profiler].v2 = "yes")
  BY DEF Initialize, Server!Initialize, Server!host, cacheVars, Profiling
<1>2. Profiling' => fields'[Profiler].v2 # "uninit"
  BY Types DEF Initialize, Server!Initialize, Profiling
<1>3. Workers' /\ OneLife'
  BY <1>1 DEF Link, Workers, OneLife, Dying, Resting
<1>4. Foretold' /\ Unused'
  BY <1>1, <1>2 DEF Link, Foretold, Unused
<1> QED BY <1>3, <1>4 DEF Link

\* A callback begins on a thread that was doing nothing, on a profiler that
\* may ask the CLR.
LEMMA CallbackStep ==
  ASSUME SP!IInv, CP!CacheInv, Link, NEW t \in Threads, Callback(t)
  PROVE  Link'
<1>1. /\ UNCHANGED <<alloc, fields>>
      /\ Profiling
      /\ pc[t].at = "idle"
      /\ pc'[t].at = "callback" /\ pc'[t].on = Profiler
      /\ \A u \in Threads \ {t} : pc'[u] = pc[u]
  BY Types DEF Callback, Server!Callback, Server!Enters, Server!server,
               Server!Idle, Server!At, Profiling
<1>2. Resting(t)
  BY <1>1 DEF Link, Workers
<1>3. /\ UNCHANGED <<m_CanUseV2Interfaces, alive>>
      /\ \A u \in Threads \ {t} : work'[u] = work[u]
      /\ work'[t].at = "import" => m_CanUseV2Interfaces
  <2>1. CASE UNCHANGED cacheVars
    BY <1>2, <2>1 DEF cacheVars, Resting, Cache!Idle, Cache!At
  <2>2. ASSUME NEW m \in Modules, Cache!ModuleLoadFinished(t, m)
        PROVE  <1>3
    <3>1. work'[t].at = "import" => m_CanUseV2Interfaces
      BY <1>2, <2>2 DEF Cache!ModuleLoadFinished, Resting, Cache!Idle, Cache!At
    <3> QED BY <2>2, <3>1, Types DEF Cache!ModuleLoadFinished
  <2>3. ASSUME NEW m \in Modules, Cache!JITCompilationStarted(t, m)
        PROVE  <1>3
    BY <2>3, Types DEF Cache!JITCompilationStarted, Cache!At, Cache!world
  <2> QED BY <2>1, <2>2, <2>3 DEF Callback
<1>4. Workers'
  BY <1>1, <1>3 DEF Link, Workers, Resting
<1>5. Foretold' /\ Unused'
  BY <1>1, <1>3 DEF Link, Foretold, Unused, Profiling
<1>6. OneLife'
  BY <1>1, <1>3 DEF Link, OneLife, Dying
<1> QED BY <1>4, <1>5, <1>6 DEF Link

\* A callback that works on the cache goes on being one.
LEMMA CallbackWorksStep ==
  ASSUME SP!IInv, CP!CacheInv, Link, NEW t \in Threads, CallbackWorks(t)
  PROVE  Link'
<1>1. /\ UNCHANGED serverVars
      /\ UNCHANGED <<m_CanUseV2Interfaces, alive>>
      /\ work[t].at # "idle"
      /\ \A u \in Threads \ {t} : work'[u] = work[u]
      /\ work'[t].at # "import"
  <2> USE DEF Cache!Goes, Cache!Returns, Cache!At, Cache!Idle, Cache!world
  <2>1. CASE \/ Cache!ImportRefused(t) \/ Cache!GetMetadataImportByModuleID(t)
             \/ Cache!FindEntry(t) \/ Cache!InsertEntry(t)
             \/ Cache!GetFullMethodName(t)
    BY <2>1, Types DEF CallbackWorks, Cache!ImportRefused,
         Cache!GetMetadataImportByModuleID, Cache!FindEntry,
         Cache!InsertEntry, Cache!GetFullMethodName
  <2>2. CASE \/ Cache!ListDefinitions(t) \/ Cache!AppendDefinitions(t)
             \/ Cache!ListReferences(t) \/ Cache!AppendReferences(t)
    BY <2>2, Types DEF CallbackWorks, Cache!ListDefinitions,
         Cache!AppendDefinitions, Cache!ListReferences, Cache!AppendReferences
  <2> QED BY <2>1, <2>2 DEF CallbackWorks, Cache!Working
<1>2. ~Resting(t)
  BY <1>1 DEF Resting, Cache!Idle, Cache!At
<1>3. pc[t].at = "callback" /\ pc[t].on = Profiler /\ Profiling
  BY <1>2, WorkedOn
<1>4. Workers'
  BY <1>1, <1>3 DEF serverVars, Link, Workers, Resting
<1> QED BY <1>1, <1>3, <1>4
        DEF serverVars, Link, Foretold, OneLife, Dying, Unused, Profiling

LEMMA CallbackReturnsStep ==
  ASSUME SP!IInv, CP!CacheInv, Link, NEW t \in Threads, CallbackReturns(t)
  PROVE  Link'
<1>1. /\ UNCHANGED cacheVars
      /\ UNCHANGED <<alloc, fields>>
      /\ Resting(t)
      /\ pc[t].at = "callback"
      /\ \A u \in Threads \ {t} : pc'[u] = pc[u]
  BY Types DEF CallbackReturns, Server!CallbackReturns, Server!Returns,
               Server!server
<1> QED BY <1>1 DEF cacheVars, Link, Workers, Foretold, OneLife, Dying,
                    Unused, Resting, Profiling

LEMMA DestroyStep ==
  ASSUME SP!IInv, CP!CacheInv, Link, NEW t \in Threads, Destroy(t)
  PROVE  Link'
<1>1. /\ pc[t].at = "dtor"
      /\ pc'[t].at = "unlock" /\ pc'[t].obj = pc[t].obj
      /\ fields'[pc[t].obj].info = "null"
      /\ fields'[pc[t].obj].v2 = fields[pc[t].obj].v2
      /\ UNCHANGED <<m_CanUseV2Interfaces, work>> /\ ~alive'
  <2>1. pc[t].at = "dtor" => pc[t].obj = Profiler
    BY DEF SP!IInv, SP!PlacesOK, SP!PlaceOK
  <2> QED BY <2>1, Types DEF Destroy, Server!ReleasePointers, EmptyCache
<1>2. pc[t].obj = Profiler /\ \A u \in Threads : Resting(u)
  BY <1>1, DestroyedAlone
<1>3. Workers' /\ OneLife' /\ Unused'
  BY <1>1, <1>2 DEF Workers, OneLife, Dying, Unused, Resting
<1>4. Foretold'
  BY <1>1, <1>2 DEF Link, Foretold, Profiling
<1> QED BY <1>3, <1>4 DEF Link

LEMMA LinkStep ==
  ASSUME SP!IInv, CP!CacheInv, Link, [Next]_vars
  PROVE  Link'
<1>1. ASSUME NEW t \in Threads,
             \/ NewProfiler(t) \/ Initialize(t)
             \/ Callback(t) \/ CallbackWorks(t) \/ CallbackReturns(t)
             \/ Destroy(t) \/ ServerOnly(t)
      PROVE  Link'
  BY <1>1, NewProfilerStep, InitializeStep, CallbackStep, CallbackWorksStep,
     CallbackReturnsStep, DestroyStep, ServerOnlyStep
<1>2. ASSUME UNCHANGED <<alloc, fields, pc, m_CanUseV2Interfaces, alive,
                         imports, work>>
      PROVE  Link'
  BY <1>2 DEF Link, Workers, Foretold, OneLife, Dying, Unused, Resting,
              Profiling
<1>3. LibraryMoves \/ Crashed \/ UNCHANGED vars =>
        UNCHANGED <<alloc, fields, pc, m_CanUseV2Interfaces, alive, imports,
                    work>>
  BY DEF LibraryMoves, Server!LoadLibrary, Server!UnloadLibrary,
         Server!server, Crashed, vars, serverVars, cacheVars
<1>4. \A m \in Modules : ModuleUnloads(m) =>
        UNCHANGED <<alloc, fields, pc, m_CanUseV2Interfaces, alive, imports,
                    work>>
  BY DEF ModuleUnloads, Cache!ModuleUnloads, serverVars
<1> QED BY <1>1, <1>2, <1>3, <1>4 DEF Next

-----------------------------------------------------------------------------
(***************************************************************************)
(* Every step of the composition is a step of the cache or leaves it       *)
(* alone: the destructor empties it at a moment when ReleaseMetadataCache  *)
(* may run, which EmptyCache itself does not ask for.                      *)
(***************************************************************************)
LEMMA ServesStep ==
  ASSUME SP!IInv, Link, [Next]_vars
  PROVE  [Cache!Next]_cacheVars
<1>1. ASSUME NEW t \in Threads, Destroy(t)
      PROVE  Cache!ReleaseMetadataCache
  <2>1. pc[t].at = "dtor"
    BY <1>1 DEF Destroy, Server!ReleasePointers
  <2>2. alive /\ \A u \in Threads : work[u] = Cache!Idle
    BY <2>1, DestroyedAlone DEF Resting
  <2> QED BY <1>1, <2>2 DEF Destroy, EmptyCache, Cache!ReleaseMetadataCache,
                            Cache!containers, Cache!clr
<1>2. ASSUME NEW t \in Threads, Callback(t)
      PROVE  UNCHANGED cacheVars \/ Cache!Next
  BY <1>2 DEF Callback, Cache!Next
<1>3. \A t \in Threads : CallbackWorks(t) => Cache!Next
  BY DEF CallbackWorks, Cache!Next
<1>4. \A m \in Modules : ModuleUnloads(m) => Cache!Next
  BY DEF ModuleUnloads, Cache!Next
<1>5. ASSUME NEW t \in Threads, \/ NewProfiler(t) \/ Initialize(t)
                                \/ CallbackReturns(t) \/ ServerOnly(t)
      PROVE  UNCHANGED cacheVars
  BY <1>5 DEF NewProfiler, Initialize, CallbackReturns, ServerOnly
<1>6. LibraryMoves \/ Crashed \/ UNCHANGED vars => UNCHANGED cacheVars
  BY DEF LibraryMoves, Crashed, vars
<1>7. (\E t \in Threads : Destroy(t)) => Cache!Next
  BY <1>1 DEF Cache!Next
<1> QED BY <1>2, <1>3, <1>4, <1>5, <1>6, <1>7 DEF Next

LEMMA JointInvariant == Spec => [](SP!IInv /\ CP!CacheInv /\ Link)
<1>1. Init => CP!CacheInv /\ Link
  BY CacheConstants, SameCacheInit, CP!CacheInit, LinkInit DEF Init
<1>2. SP!IInv /\ CP!CacheInv /\ Link /\ [Next]_vars => CP!CacheInv' /\ Link'
  <2> SUFFICES ASSUME SP!IInv, CP!CacheInv, Link, [Next]_vars
               PROVE  CP!CacheInv' /\ Link'
    OBVIOUS
  <2>1. [CP!Next]_CP!vars
    BY ServesStep, SameCacheNext
  <2> QED BY <2>1, CacheConstants, CP!CacheNext, LinkStep
<1> QED BY <1>1, <1>2, ServerInvariant, PTL DEF Spec

(***************************************************************************)
(* The server keeps what MetadataCache takes for granted, for any number   *)
(* of threads, modules and references: ReleaseMetadataCache runs once,     *)
(* with no callback in progress, and no callback comes after it.           *)
(***************************************************************************)
THEOREM ServerServesCache == Spec => ServesCache
<1>1. Init => Cache!Init
  BY DEF Init
<1>2. SP!IInv /\ Link /\ [Next]_vars => [Cache!Next]_Cache!vars
  BY ServesStep DEF cacheVars, Cache!vars
<1> QED BY <1>1, <1>2, JointInvariant, PTL DEF Spec, ServesCache, Cache!Spec

\* The variables of both parts keep their types together.
THEOREM BothTypesKept == Spec => []TypeOK
<1>1. SP!IInv => Server!TypeOK
  BY DEF SP!IInv, SP!TypeOK, SP!Objects, SP!Steps,
         Server!TypeOK, Server!Objects, Server!Steps
<1>2. CP!CacheInv => Cache!TypeOK
  <2>1. CP!CacheInv => CP!TypeOK
    BY CacheConstants, CP!CacheImplies
  <2> QED BY <2>1 DEF CP!TypeOK, CP!Generations, CP!Instances, CP!Idle, CP!At,
                 Cache!TypeOK, Cache!Generations, Cache!Instances, Cache!Idle,
                 Cache!At
<1> QED BY <1>1, <1>2, JointInvariant, PTL DEF TypeOK

(***************************************************************************)
(* Who works on the cache is in a callback of a profiler that exists, and  *)
(* asks for an IMetaDataImport2 through an m_CorProfilerInfo2 that         *)
(* Initialize obtained, whoever releases the profiler in the meantime.     *)
(***************************************************************************)
THEOREM CacheUsedInCallbacks == Spec => []CacheInCallback
<1>1. ASSUME SP!IInv, Link, NEW t \in Threads, ~Resting(t)
      PROVE  /\ Profiler \in alloc
             /\ pc[t].at = "callback" /\ pc[t].on = Profiler
             /\ work[t].at = "import" => fields[Profiler].info2 = "ref"
  <2>1. /\ Profiler \in alloc /\ Profiling
        /\ pc[t].at = "callback" /\ pc[t].on = Profiler
    BY <1>1, WorkedOn
  <2>2. work[t].at = "import" => fields[Profiler].v2 = "yes"
    BY <1>1, <2>1 DEF Link, Workers, Foretold
  <2>3. Profiling /\ fields[Profiler].v2 = "yes" => fields[Profiler].info2 = "ref"
    BY <1>1 DEF SP!IInv, SP!FieldsOK, Profiling
  <2> QED BY <2>1, <2>2, <2>3
<1>2. SP!IInv /\ Link /\ TypeOK => CacheInCallback
  BY <1>1 DEF CacheInCallback
<1> QED BY <1>2, JointInvariant, BothTypesKept, PTL

(***************************************************************************)
(* A library that was unloaded after the profiler's life keeps no metadata *)
(* import, unless callbacks raced, but those of modules that were given    *)
(* the ModuleID of an earlier one.  While no library is loaded there is no *)
(* profiler: none was ever initialised, and no import taken, or the        *)
(* destructor has given the imports back.                                  *)
(***************************************************************************)
THEOREM UnloadingReturnsImports == Spec => []UnloadReturnsImports
<1>1. ASSUME SP!IInv, CP!CacheInv, Link, ~loaded, ~raced,
             NEW i \in Cache!Instances, imports[i] > 0
      PROVE  Cache!Displaced(i)
  <2>1. ~Profiling
    BY <1>1 DEF SP!IInv, SP!UnloadedIdle, SP!FieldsOK, SP!Indeterminate,
                Profiling
  <2>2. imports[i] # 0
    BY <1>1
  <2>3. ~alive
    BY <1>1, <2>1, <2>2 DEF Link, Unused
  <2> QED BY <1>1, <2>3 DEF CP!CacheInv, CP!ImportsReturned, CP!Displaced,
        CP!Instances, CP!Generations, Cache!Instances, Cache!Generations,
        Cache!Displaced
<1>2. SP!IInv /\ CP!CacheInv /\ Link => UnloadReturnsImports
  BY <1>1 DEF UnloadReturnsImports
<1> QED BY <1>2, JointInvariant, PTL
=============================================================================
