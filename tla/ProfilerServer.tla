--------------------------- MODULE ProfilerServer ---------------------------
(***************************************************************************)
(* The COM server and the metadata cache of its profiler together: a       *)
(* callback of ComServer is a run of MetadataCache's steps on the same     *)
(* thread, and the destructor empties the cache as it releases the         *)
(* pointers.  MetadataCache takes for granted that callbacks come only     *)
(* after Initialize, that none is running when the cache is emptied, and   *)
(* that the cache is not used afterwards; here that is what the reference  *)
(* counts of ComServer must bring about: EmptyCache has no such guard.     *)
(*                                                                         *)
(* Bound: one life of one profiler.                                        *)
(***************************************************************************)
EXTENDS Integers, FiniteSets, Sequences

CONSTANTS Threads, Factories, Profiler, None, MaxRefs, MaxLocks,
          Modules, MaxGenerations

ASSUME CompositionAssumption ==
  /\ IsFiniteSet(Threads) /\ IsFiniteSet(Factories) /\ IsFiniteSet(Modules)
  /\ Profiler \notin Factories
  /\ None \notin Factories \cup {Profiler} \cup Modules
  /\ MaxRefs \in Nat /\ MaxLocks \in Nat
  /\ MaxGenerations \in Nat \ {0}

VARIABLES
  \* ComServer
  g_DllLockCount, alloc, m_nRefCount, fields, clrRefs, refs, locks, loaded,
  pc, fault,
  \* MetadataCache; its pc is `work` here.  m_CanUseV2Interfaces is foretold:
  \* it has from the beginning the value that Initialize gives the flag.
  m_CanUseV2Interfaces, m_MetadataImportByModuleId, m_TypeDefinitionTokens,
  m_TypeReferenceTokens, alive, imports, generation, present, work,
  overlapped, raced

Server == INSTANCE ComServer WITH Profilers <- {Profiler}
Cache == INSTANCE MetadataCache WITH pc <- work

serverVars == <<g_DllLockCount, alloc, m_nRefCount, fields, clrRefs, refs,
                locks, loaded, pc, fault>>
cacheVars == <<m_CanUseV2Interfaces, m_MetadataImportByModuleId,
               m_TypeDefinitionTokens, m_TypeReferenceTokens, alive, imports,
               generation, present, work, overlapped, raced>>
vars == <<serverVars, cacheVars>>

Init == Server!Init /\ Cache!Init

Resting(t) == work[t] = Cache!Idle

-----------------------------------------------------------------------------
\* The constructor makes the empty cache; a second life is not modelled.
NewProfiler(t) ==
  /\ alive
  /\ Server!NewProfiler(t)
  /\ UNCHANGED cacheVars

Initialize(t) ==
  /\ Server!Initialize(t, Profiler)
  /\ fields'[Profiler].v2 # "uninit" =>
       m_CanUseV2Interfaces = (fields'[Profiler].v2 = "yes")
  /\ UNCHANGED cacheVars

\* ModuleLoadFinished, JITCompilationStarted, or one that leaves the cache
\* alone.
Callback(t) ==
  /\ Server!Callback(t, Profiler)
  /\ \/ \E m \in Modules : \/ Cache!ModuleLoadFinished(t, m)
                           \/ Cache!JITCompilationStarted(t, m)
     \/ UNCHANGED cacheVars

CallbackWorks(t) ==
  /\ Cache!Working(t)
  /\ UNCHANGED serverVars

CallbackReturns(t) ==
  /\ Resting(t)
  /\ Server!CallbackReturns(t)
  /\ UNCHANGED cacheVars

\* ReleaseMetadataCache and the end of the member containers, whoever still
\* uses them.
EmptyCache ==
  /\ alive' = FALSE
  /\ imports' = [i \in Cache!Instances |->
                   IF Cache!Cached(i) THEN imports[i] - 1 ELSE imports[i]]
  /\ UNCHANGED <<m_CanUseV2Interfaces, m_MetadataImportByModuleId,
                 m_TypeDefinitionTokens, m_TypeReferenceTokens, generation,
                 present, work, overlapped, raced>>

\* Mutant: the pointers are released, the cache is left to the map.
DestroyWithoutCache(t) ==
  /\ Server!ReleasePointers(t)
  /\ alive' = FALSE
  /\ UNCHANGED <<m_CanUseV2Interfaces, m_MetadataImportByModuleId,
                 m_TypeDefinitionTokens, m_TypeReferenceTokens, imports,
                 generation, present, work, overlapped, raced>>

Destroy(t) == Server!ReleasePointers(t) /\ EmptyCache

ServerOnly(t) ==
  /\ \/ Server!DllGetClassObject(t)
     \/ Server!GetClassRefused(t) \/ Server!NewFactory(t)
     \/ \E f \in Factories : \/ Server!CreateInstance(t, f)
                             \/ \E b \in BOOLEAN : Server!LockServer(t, f, b)
     \/ Server!CreateRefused(t) \/ Server!NewProfilerThrows(t)
     \/ Server!QueryGranted(t) \/ Server!QueryRefused(t)
     \/ \E o \in Server!Objects : Server!AddRef(t, o) \/ Server!Release(t, o)
     \/ Server!Increment(t) \/ Server!NoInterface(t)
     \/ Server!Decrement(t) \/ Server!TestCount(t)
     \/ Server!ReleaseIndeterminate(t) \/ Server!DllUnlock(t)
     \/ Server!Leave(t)
  /\ UNCHANGED cacheVars

LibraryMoves ==
  /\ Server!LoadLibrary \/ Server!UnloadLibrary
  /\ UNCHANGED cacheVars

ModuleUnloads(m) == Cache!ModuleUnloads(m) /\ UNCHANGED serverVars

Crashed == fault # "none" /\ UNCHANGED vars

Next ==
  \/ /\ fault = "none"
     /\ \/ \E t \in Threads :
             \/ NewProfiler(t) \/ Initialize(t)
             \/ Callback(t) \/ CallbackWorks(t) \/ CallbackReturns(t)
             \/ Destroy(t) \/ ServerOnly(t)
        \/ LibraryMoves
        \/ \E m \in Modules : ModuleUnloads(m)
  \/ Crashed

Spec == Init /\ [][Next]_vars

-----------------------------------------------------------------------------
(***************************************************************************)
(* Properties.                                                             *)
(***************************************************************************)
TypeOK == Server!TypeOK /\ Cache!TypeOK

(***************************************************************************)
(* The server keeps what MetadataCache takes for granted: every step of it *)
(* is a step of MetadataCache or leaves the cache alone.  In particular    *)
(* the destructor's ReleaseMetadataCache never runs beside a callback and  *)
(* no callback touches the cache after it.                                 *)
(***************************************************************************)
ServesCache == Cache!Spec

(***************************************************************************)
(* A thread that works on the cache is inside a callback of a profiler     *)
(* that exists, and one that asks for an IMetaDataImport2 does so through  *)
(* an m_CorProfilerInfo2 that Initialize obtained.                         *)
(***************************************************************************)
CacheInCallback ==
  /\ TypeOK
  /\ \A t \in Threads : ~Resting(t) =>
    /\ Profiler \in alloc
    /\ pc[t].at = "callback" /\ pc[t].on = Profiler
    /\ work[t].at = "import" => fields[Profiler].info2 = "ref"

(***************************************************************************)
(* A library that was unloaded after the profiler's life keeps no metadata *)
(* import, except those that overlapping callbacks lost or of modules that *)
(* got the ModuleID of an earlier one.                                     *)
(***************************************************************************)
UnloadReturnsImports ==
  ~loaded /\ ~raced =>
    \A i \in Cache!Instances : imports[i] > 0 => Cache!Displaced(i)
=============================================================================
