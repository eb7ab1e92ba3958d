--------------------------- MODULE MetadataCache ---------------------------
(***************************************************************************)
(* What an initialised CRewriteProfiler does with metadata: the callback   *)
(* ModuleLoadFinished caches the module's metadata import and its type     *)
(* tokens, JITCompilationStarted borrows an import to name a method, the   *)
(* destructor gives the cached imports back (RewriteProfiler.cpp).         *)
(*                                                                         *)
(* The CLR calls back from any thread and nothing in the profiler locks    *)
(* the map or the vectors.  An insertion is therefore two steps: the one   *)
(* that reads where the element goes (the tree's parent node, the vector's *)
(* end) and the one that writes it there.  When the container changed in   *)
(* between the behaviour is undefined: the write may succeed, overwrite    *)
(* what others wrote or be lost, and `raced` records that from there on    *)
(* the heap cannot be trusted.  A look-up that meets a write is taken to   *)
(* happen before or after it.                                              *)
(*                                                                         *)
(* External: the CLR, which loads and unloads modules and may give a       *)
(* ModuleID to another module later, so that an instance of a module is    *)
(* an ID with a generation; and the metadata imports, COM objects of the   *)
(* CLR.  Data: all tokens of a module's enumeration are one element.       *)
(***************************************************************************)
EXTENDS Naturals, FiniteSets, Sequences

CONSTANTS
  Threads,         \* threads of the CLR
  Modules,         \* ModuleIDs
  None,            \* "no module"
  MaxGenerations   \* bound: how many modules get the same ModuleID

ASSUME CacheAssumption ==
  /\ IsFiniteSet(Threads) /\ IsFiniteSet(Modules)
  /\ None \notin Modules
  /\ MaxGenerations \in Nat \ {0}

Generations == 1 .. MaxGenerations
Instances == Modules \X Generations

VARIABLES
  m_CanUseV2Interfaces,
  m_MetadataImportByModuleId,  \* generation of the cached import; 0: no entry
  m_TypeDefinitionTokens,
  m_TypeReferenceTokens,
  alive,       \* the profiler exists
  imports,     \* references the library has on each metadata import
  generation,  \* how often the CLR gave out each ModuleID
  present,     \* the ModuleIDs of modules that are loaded now
  pc,          \* what each thread is doing in the profiler
  overlapped,  \* history: two ModuleLoadFinished calls ran at once
  raced        \* history: a container was written from a stale reading

vars == <<m_CanUseV2Interfaces, m_MetadataImportByModuleId,
          m_TypeDefinitionTokens, m_TypeReferenceTokens, alive, imports,
          generation, present, pc, overlapped, raced>>

containers == <<m_MetadataImportByModuleId, m_TypeDefinitionTokens,
                m_TypeReferenceTokens>>
clr == <<generation, present>>
world == <<m_CanUseV2Interfaces, alive, clr, overlapped>>

(***************************************************************************)
(* A thread's place: its step, the module instance its callback is about,  *)
(* and the container as it was when the thread looked up the place of its  *)
(* element in it.                                                          *)
(***************************************************************************)
At(step, of, seen) == [at |-> step, of |-> of, seen |-> seen]
Idle == At("idle", <<None, 0>>, <<>>)

LoadSteps ==
  {"import", "find", "insert", "defs", "add_defs", "refs", "add_refs"}

Loading(t) == pc[t].at \in LoadSteps

TypeOK ==
  /\ m_CanUseV2Interfaces \in BOOLEAN
  /\ m_MetadataImportByModuleId \in [Modules -> Generations \cup {0}]
  /\ m_TypeDefinitionTokens \in Seq(Instances)
  /\ m_TypeReferenceTokens \in Seq(Instances)
  /\ alive \in BOOLEAN
  /\ imports \in [Instances -> Nat]
  /\ generation \in [Modules -> Generations \cup {0}]
  /\ present \subseteq Modules
  /\ \A t \in Threads : pc[t] = Idle \/ pc[t].of \in Instances
  /\ overlapped \in BOOLEAN /\ raced \in BOOLEAN

\* Initialize has succeeded: the CLR sends no callback otherwise.
Init ==
  /\ m_CanUseV2Interfaces \in BOOLEAN
  /\ m_MetadataImportByModuleId = [m \in Modules |-> 0]
  /\ m_TypeDefinitionTokens = <<>>
  /\ m_TypeReferenceTokens = <<>>
  /\ alive = TRUE
  /\ imports = [i \in Instances |-> 0]
  /\ generation = [m \in Modules |-> 0]
  /\ present = {}
  /\ pc = [t \in Threads |-> Idle]
  /\ overlapped = FALSE
  /\ raced = FALSE

Goes(t, step) == pc' = [pc EXCEPT ![t] = At(step, pc[t].of, <<>>)]
Returns(t) == pc' = [pc EXCEPT ![t] = Idle]

-----------------------------------------------------------------------------
(***************************************************************************)
(* ModuleLoadFinished.  Without ICorProfilerInfo2 it only logs.            *)
(***************************************************************************)
ModuleLoadFinished(t, m) ==
  LET i == <<m, generation[m] + 1>> IN
  /\ alive
  /\ pc[t] = Idle
  /\ m \notin present
  /\ generation[m] < MaxGenerations
  /\ generation' = [generation EXCEPT ![m] = @ + 1]
  /\ present' = present \cup {m}
  /\ IF m_CanUseV2Interfaces
       THEN /\ pc' = [pc EXCEPT ![t] = At("import", i, <<>>)]
            /\ overlapped' = (overlapped \/ \E u \in Threads : Loading(u))
       ELSE UNCHANGED <<pc, overlapped>>
  /\ UNCHANGED <<containers, m_CanUseV2Interfaces, alive, imports, raced>>

\* GetModuleMetaData fails, or succeeds without an import.
ImportRefused(t) ==
  /\ pc[t].at = "import"
  /\ Returns(t)
  /\ UNCHANGED <<world, containers, imports, raced>>

\* Mutant: the tokens are cached, the import is not.
ImportNotCached(t) ==
  /\ pc[t].at = "import"
  /\ imports' = [imports EXCEPT ![pc[t].of] = @ + 1]
  /\ Goes(t, "defs")
  /\ UNCHANGED <<world, containers, raced>>

GetMetadataImportByModuleID(t) ==
  /\ pc[t].at = "import"
  /\ imports' = [imports EXCEPT ![pc[t].of] = @ + 1]
  /\ Goes(t, "find")
  /\ UNCHANGED <<world, containers, raced>>

\* Mutant: the entry of an earlier module is replaced.
FindNothing(t) ==
  /\ pc[t].at = "find"
  /\ pc' = [pc EXCEPT ![t] = At("insert", pc[t].of,
                                m_MetadataImportByModuleId)]
  /\ UNCHANGED <<world, containers, imports, raced>>

(***************************************************************************)
(* AddMetadataToCacheIfNeeded: a module whose ID has an entry is skipped,  *)
(* and its import is neither kept nor released.                            *)
(***************************************************************************)
FindEntry(t) ==
  LET m == pc[t].of[1] IN
  /\ pc[t].at = "find"
  /\ IF m_MetadataImportByModuleId[m] = 0
       THEN pc' = [pc EXCEPT ![t] = At("insert", pc[t].of,
                                       m_MetadataImportByModuleId)]
       ELSE Goes(t, "defs")
  /\ UNCHANGED <<world, containers, imports, raced>>

\* What adding to a container that is `now` may leave there, when the place
\* of the element was looked up in `seen`: `added` is the container with the
\* element, `stale` the one that was seen with the element.
Outcomes(now, seen, added, stale) ==
  IF now = seen THEN {added} ELSE {added, stale, now}

InsertEntry(t) ==
  LET now == m_MetadataImportByModuleId
      Add(map) == [map EXCEPT ![pc[t].of[1]] = pc[t].of[2]]
  IN
  /\ pc[t].at = "insert"
  /\ m_MetadataImportByModuleId' \in Outcomes(now, pc[t].seen,
                                              Add(now), Add(pc[t].seen))
  /\ raced' = (raced \/ now # pc[t].seen)
  /\ Goes(t, "defs")
  /\ UNCHANGED <<world, m_TypeDefinitionTokens, m_TypeReferenceTokens,
                 imports>>

(***************************************************************************)
(* ParseAndCacheTypeDefinitions: the enumeration fills a local vector (see *)
(* TypeEnumeration), then vector::insert appends it to the member; nothing *)
(* is written when the enumeration came back empty.                        *)
(* ParseAndCacheTypeReferences does the same.                              *)
(***************************************************************************)
ListDefinitions(t) ==
  /\ pc[t].at = "defs"
  /\ \/ pc' = [pc EXCEPT ![t] = At("add_defs", pc[t].of,
                                       m_TypeDefinitionTokens)]
     \/ Goes(t, "refs")
  /\ UNCHANGED <<world, containers, imports, raced>>

AppendDefinitions(t) ==
  LET now == m_TypeDefinitionTokens
      Add(tokens) == Append(tokens, pc[t].of)
  IN
  /\ pc[t].at = "add_defs"
  /\ m_TypeDefinitionTokens' \in Outcomes(now, pc[t].seen,
                                          Add(now), Add(pc[t].seen))
  /\ raced' = (raced \/ now # pc[t].seen)
  /\ Goes(t, "refs")
  /\ UNCHANGED <<world, m_MetadataImportByModuleId, m_TypeReferenceTokens,
                 imports>>

ListReferences(t) ==
  /\ pc[t].at = "refs"
  /\ \/ pc' = [pc EXCEPT ![t] = At("add_refs", pc[t].of,
                                       m_TypeReferenceTokens)]
     \/ Returns(t)
  /\ UNCHANGED <<world, containers, imports, raced>>

AppendReferences(t) ==
  LET now == m_TypeReferenceTokens
      Add(tokens) == Append(tokens, pc[t].of)
  IN
  /\ pc[t].at = "add_refs"
  /\ m_TypeReferenceTokens' \in Outcomes(now, pc[t].seen,
                                         Add(now), Add(pc[t].seen))
  /\ raced' = (raced \/ now # pc[t].seen)
  /\ Returns(t)
  /\ UNCHANGED <<world, m_MetadataImportByModuleId, m_TypeDefinitionTokens,
                 imports>>

-----------------------------------------------------------------------------
\* Mutant: the failure of the token lookup is not noticed.
JITWithoutImport(t, m) ==
  /\ alive
  /\ pc[t] = Idle
  /\ m \in present
  /\ pc' = [pc EXCEPT ![t] = At("name", <<m, generation[m]>>, <<>>)]
  /\ UNCHANGED <<world, containers, imports, raced>>

(***************************************************************************)
(* JITCompilationStarted, through GetFullMethodName: when the token lookup *)
(* fails it has no import to release.                                      *)
(***************************************************************************)
JITCompilationStarted(t, m) ==
  LET i == <<m, generation[m]>> IN
  /\ alive
  /\ pc[t] = Idle
  /\ m \in present
  /\ imports' = [imports EXCEPT ![i] = @ + 1]
  /\ pc' = [pc EXCEPT ![t] = At("name", i, <<>>)]
  /\ UNCHANGED <<world, containers, raced>>

\* Mutant: the borrowed import is put into the cache instead of being released.
NameAndCache(t) ==
  LET m == pc[t].of[1] IN
  /\ pc[t].at = "name"
  /\ IF m_MetadataImportByModuleId[m] = 0
       THEN /\ m_MetadataImportByModuleId' =
                 [m_MetadataImportByModuleId EXCEPT ![m] = pc[t].of[2]]
            /\ UNCHANGED imports
       ELSE /\ imports' = [imports EXCEPT ![pc[t].of] = @ - 1]
            /\ UNCHANGED m_MetadataImportByModuleId
  /\ Returns(t)
  /\ UNCHANGED <<world, m_TypeDefinitionTokens, m_TypeReferenceTokens, raced>>

\* GetMethodProps and GetTypeDefProps may fail: the import is released anyway.
GetFullMethodName(t) ==
  /\ pc[t].at = "name"
  /\ imports' = [imports EXCEPT ![pc[t].of] = @ - 1]
  /\ Returns(t)
  /\ UNCHANGED <<world, containers, raced>>

\* External: a module goes away when no callback about it is in progress.
\* The profiler does not handle ModuleUnloadFinished.
ModuleUnloads(m) ==
  /\ m \in present
  /\ \A t \in Threads : pc[t].of[1] # m
  /\ present' = present \ {m}
  /\ UNCHANGED <<containers, m_CanUseV2Interfaces, alive, imports, generation,
                 pc, overlapped, raced>>

(***************************************************************************)
(* ReleaseMetadataCache, called by the destructor, which runs when no      *)
(* callback does (ComServer, CallbackSafe).                                *)
(***************************************************************************)
Cached(i) == m_MetadataImportByModuleId[i[1]] = i[2]

\* Mutant: the map's destructor is trusted to release what it points to.
ForgetMetadataCache ==
  /\ alive
  /\ \A t \in Threads : pc[t] = Idle
  /\ alive' = FALSE
  /\ UNCHANGED <<containers, clr, m_CanUseV2Interfaces, imports, pc,
                 overlapped, raced>>

ReleaseMetadataCache ==
  /\ alive
  /\ \A t \in Threads : pc[t] = Idle
  /\ alive' = FALSE
  /\ imports' = [i \in Instances |->
                   IF Cached(i) THEN imports[i] - 1 ELSE imports[i]]
  /\ UNCHANGED <<containers, clr, m_CanUseV2Interfaces, pc, overlapped, raced>>

-----------------------------------------------------------------------------
Working(t) ==
  \/ ImportRefused(t) \/ GetMetadataImportByModuleID(t)
  \/ FindEntry(t) \/ InsertEntry(t)
  \/ ListDefinitions(t) \/ AppendDefinitions(t)
  \/ ListReferences(t) \/ AppendReferences(t)
  \/ GetFullMethodName(t)

\* The profiler is gone: nothing happens any more.
Finished == ~alive /\ UNCHANGED vars

Next ==
  \/ \E t \in Threads, m \in Modules : \/ ModuleLoadFinished(t, m)
                                       \/ JITCompilationStarted(t, m)
  \/ \E t \in Threads : Working(t)
  \/ \E m \in Modules : ModuleUnloads(m)
  \/ ReleaseMetadataCache
  \/ Finished

Spec == Init /\ [][Next]_vars

-----------------------------------------------------------------------------
(***************************************************************************)
(* Properties.                                                             *)
(***************************************************************************)
Naming(i) == {t \in Threads : pc[t].at = "name" /\ pc[t].of = i}
Caching(i) == {t \in Threads : pc[t].at \in {"find", "insert"} /\ pc[t].of = i}

\* Another module's import has the place of instance i in the cache.
Displaced(i) == m_MetadataImportByModuleId[i[1]] \notin {0, i[2]}

(***************************************************************************)
(* ModuleLoadFinished calls that follow one another never touch a          *)
(* container from a stale reading, whatever JITCompilationStarted, which   *)
(* runs beside them, and module unloads do in the meantime.                *)
(***************************************************************************)
SafeWhenSerial == ~overlapped => ~raced

(***************************************************************************)
(* Every reference to a metadata import is accounted for: a callback that  *)
(* is naming a method has one; one more is in the cache or on its way to   *)
(* it, or was lost because another module had the same ModuleID before.    *)
(***************************************************************************)
ImportsAccounted ==
  alive /\ ~raced =>
    \A i \in Instances :
      LET kept == imports[i] - Cardinality(Naming(i)) IN
      /\ kept \in {0, 1}
      /\ kept = 1 => Cached(i) \/ Caching(i) # {} \/ Displaced(i)
      /\ Cached(i) \/ Caching(i) # {} => kept = 1

(***************************************************************************)
(* The destructor gives every import back except those of modules that     *)
(* were given the ModuleID of an earlier module.                           *)
(***************************************************************************)
ImportsReturned ==
  ~alive /\ ~raced =>
    \A i \in Instances : imports[i] > 0 => Displaced(i) /\ i[2] > 1

(***************************************************************************)
(* No import is lost or released once too often, before or at the end.     *)
(***************************************************************************)
ImportsBalanced == ImportsAccounted /\ ImportsReturned

(***************************************************************************)
(* A token in either vector belongs to a module whose ModuleID has an      *)
(* entry, its own or that of an earlier module with the same ID.           *)
(***************************************************************************)
Tokens == UNION {{tokens[k] : k \in DOMAIN tokens} :
                 tokens \in {m_TypeDefinitionTokens, m_TypeReferenceTokens}}

TokensResolvable ==
  ~raced => \A i \in Tokens : m_MetadataImportByModuleId[i[1]] \in 1 .. i[2]

(***************************************************************************)
(* What is in the cache stays there: entries are not replaced and tokens   *)
(* are not dropped, unless callbacks race.                                 *)
(***************************************************************************)
Extends(old, new) ==
  /\ Len(old) <= Len(new)
  /\ SubSeq(new, 1, Len(old)) = old

CacheOnlyGrows ==
  [][~raced' => /\ \A m \in Modules :
                     m_MetadataImportByModuleId[m] # 0 =>
                       m_MetadataImportByModuleId'[m]
                         = m_MetadataImportByModuleId[m]
                /\ Extends(m_TypeDefinitionTokens, m_TypeDefinitionTokens')
                /\ Extends(m_TypeReferenceTokens, m_TypeReferenceTokens')]_vars
=============================================================================
