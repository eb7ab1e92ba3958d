------------------------ MODULE MetadataCacheProofs ------------------------
(***************************************************************************)
(* The cache of metadata imports, for any number of CLR threads, modules   *)
(* and reuses of a ModuleID.  The invariant says where each callback is    *)
(* (Places), counts the references on every import (Ledger), and says, as  *)
(* long as no container was written from a stale reading, where the kept   *)
(* references and the tokens lead (Traced, Resolved).                      *)
(***************************************************************************)
EXTENDS MetadataCache, FiniteSetTheorems, TLAPS

Maps == [Modules -> Generations \cup {0}]

Place == [at : LoadSteps \cup {"idle", "name"},
          of : Instances \cup {<<None, 0>>},
          seen : Maps \cup Seq(Instances)]

Shape ==
  /\ m_CanUseV2Interfaces \in BOOLEAN
  /\ m_MetadataImportByModuleId \in Maps
  /\ m_TypeDefinitionTokens \in Seq(Instances)
  /\ m_TypeReferenceTokens \in Seq(Instances)
  /\ alive \in BOOLEAN
  /\ imports \in [Instances -> Nat]
  /\ generation \in Maps
  /\ present \subseteq Modules
  /\ pc \in [Threads -> Place]
  /\ overlapped \in BOOLEAN /\ raced \in BOOLEAN

\* A callback is about the module that has its ModuleID now, which stays
\* loaded meanwhile; a module is loaded once; what a thread has seen is older.
Places ==
  /\ \A t \in Threads :
       /\ pc[t].at = "idle" => pc[t] = Idle
       /\ pc[t].at # "idle" =>
            /\ alive
            /\ pc[t].of \in Instances
            /\ pc[t].of[1] \in present
            /\ pc[t].of[2] = generation[pc[t].of[1]]
       /\ pc[t].at = "insert" =>
            /\ pc[t].seen \in Maps
            /\ pc[t].seen[pc[t].of[1]] = 0
            /\ \A m \in Modules : pc[t].seen[m] <= generation[m]
       /\ pc[t].at \in {"add_defs", "add_refs"} => pc[t].seen \in Seq(Instances)
  /\ \A t, u \in Threads :
       Loading(t) /\ Loading(u) /\ pc[t].of = pc[u].of => t = u
  /\ \A m \in Modules : m_MetadataImportByModuleId[m] <= generation[m]
  /\ \A m \in present : generation[m] # 0

Kept(i) == imports[i] - Cardinality(Naming(i))

\* The instances whose import is in the map, on its way to it, or in the map
\* as some thread saw it: a race can bring that one back.
Held(i) ==
  \/ Cached(i)
  \/ Caching(i) # {}
  \/ \E t \in Threads : pc[t].at = "insert" /\ pc[t].seen[i[1]] = i[2]

Ledger ==
  alive =>
    \A i \in Instances :
      /\ Kept(i) \in {0, 1}
      /\ Held(i) => Kept(i) = 1
      /\ \A t \in Threads : pc[t].at = "import" /\ pc[t].of = i => Kept(i) = 0
      /\ i[2] > generation[i[1]] => Kept(i) = 0

Traced ==
  alive /\ ~raced =>
    \A i \in Instances : Kept(i) = 1 =>
      /\ Cached(i) \/ Caching(i) # {} \/ Displaced(i)
      /\ m_MetadataImportByModuleId[i[1]] <= i[2]

Resolved ==
  ~raced =>
    /\ \A t \in Threads :
         pc[t].at \in {"defs", "add_defs", "refs", "add_refs"} =>
           m_MetadataImportByModuleId[pc[t].of[1]] # 0
    /\ TokensResolvable

Serial ==
  ~overlapped =>
    /\ \A t, u \in Threads : Loading(t) /\ Loading(u) => t = u
    /\ \A t \in Threads :
         /\ pc[t].at = "insert" => pc[t].seen = m_MetadataImportByModuleId
         /\ pc[t].at = "add_defs" => pc[t].seen = m_TypeDefinitionTokens
         /\ pc[t].at = "add_refs" => pc[t].seen = m_TypeReferenceTokens
    /\ ~raced

CacheInv ==
  /\ Shape
  /\ Places
  /\ Ledger
  /\ Traced
  /\ Resolved
  /\ Serial
  /\ ImportsReturned

-----------------------------------------------------------------------------
\* The steps a thread can be at, and what a place looks like.
LEMMA PlaceFacts ==
  ASSUME NEW step, NEW of, NEW seen
  PROVE  /\ At(step, of, seen).at = step
         /\ At(step, of, seen).of = of
         /\ At(step, of, seen).seen = seen
         /\ Idle.at = "idle" /\ Idle.of = <<None, 0>>
  BY DEF At, Idle

LEMMA InstanceFacts ==
  /\ \A i \in Instances : i[1] \in Modules /\ i[2] \in Generations /\ i = <<i[1], i[2]>>
  /\ \A m \in Modules, g \in Generations :
       <<m, g>> \in Instances /\ <<m, g>>[1] = m /\ <<m, g>>[2] = g
  /\ \A g \in Generations : g \in Nat /\ g >= 1
  /\ <<None, 0>>[1] = None /\ None \notin Modules
  BY CacheAssumption DEF Instances, Generations

LEMMA NamingFinite ==
  ASSUME NEW i
  PROVE  IsFiniteSet(Naming(i)) /\ Cardinality(Naming(i)) \in Nat
  <1>1. Naming(i) \subseteq Threads /\ IsFiniteSet(Threads)
    BY CacheAssumption DEF Naming
  <1> QED BY <1>1, FS_Subset, FS_CardinalityType

\* A callback that is naming no method before or after a step leaves the
\* others naming what they name.
LEMMA SameNames ==
  ASSUME Shape, NEW t \in Threads, NEW p,
         pc' = [pc EXCEPT ![t] = p], pc[t].at # "name", p.at # "name"
  PROVE  \A i \in Instances : Cardinality(Naming(i))' = Cardinality(Naming(i))
  <1>1. ASSUME NEW i \in Instances PROVE Naming(i)' = Naming(i)
    BY DEF Naming, Shape
  <1> QED BY <1>1

\* One that starts, or ends, naming a method of j is one more, or less, for j.
LEMMA MoreNames ==
  ASSUME Shape, NEW t \in Threads, NEW p, NEW j \in Instances,
         pc' = [pc EXCEPT ![t] = p], pc[t].at # "name",
         p.at = "name", p.of = j
  PROVE  \A i \in Instances :
           Cardinality(Naming(i))' = Cardinality(Naming(i)) + (IF i = j THEN 1 ELSE 0)
  <1>1. ASSUME NEW i \in Instances
        PROVE  /\ t \notin Naming(i)
               /\ Naming(i)' = IF i = j THEN Naming(i) \cup {t} ELSE Naming(i)
    BY DEF Naming, Shape
  <1> QED BY <1>1, NamingFinite, FS_AddElement

LEMMA FewerNames ==
  ASSUME Shape, NEW t \in Threads, NEW p,
         pc' = [pc EXCEPT ![t] = p], pc[t].at = "name", p.at # "name"
  PROVE  \A i \in Instances :
           Cardinality(Naming(i))' = Cardinality(Naming(i)) - (IF i = pc[t].of THEN 1 ELSE 0)
  <1>1. ASSUME NEW i \in Instances
        PROVE  /\ i = pc[t].of <=> t \in Naming(i)
               /\ Naming(i)' = IF i = pc[t].of THEN Naming(i) \ {t} ELSE Naming(i)
    BY DEF Naming, Shape
  <1> QED BY <1>1, NamingFinite, FS_RemoveElement

LEMMA PlaceTypes ==
  /\ Idle \in Place
  /\ <<>> \in Seq(Instances)
  /\ \A step \in LoadSteps \cup {"name"}, of \in Instances,
        seen \in Maps \cup Seq(Instances) : At(step, of, seen) \in Place
  <1>1. <<>> \in Seq(Instances)
    OBVIOUS
  <1> QED BY <1>1 DEF Idle, At, Place

LEMMA CacheInit == ASSUME Init PROVE CacheInv
  <1> USE InstanceFacts DEF Init
  <1>1. Shape
    <2>1. <<>> \in Seq(Instances)
      OBVIOUS
    <2>2. Idle \in Place
      BY PlaceTypes
    <2>3. m_MetadataImportByModuleId \in Maps /\ generation \in Maps
      BY DEF Maps
    <2> QED BY <2>1, <2>2, <2>3 DEF Shape
  <1>2. \A t \in Threads : pc[t] = Idle /\ pc[t].at = "idle"
    BY PlaceFacts
  <1>3. Places
    BY <1>2 DEF Places, Loading, LoadSteps
  <1>4. \A i \in Instances : Naming(i) = {} /\ Kept(i) = 0 /\ ~Held(i)
    <2> SUFFICES ASSUME NEW i \in Instances PROVE Naming(i) = {} /\ Kept(i) = 0 /\ ~Held(i)
      OBVIOUS
    <2>1. Naming(i) = {} /\ Caching(i) = {}
      BY <1>2 DEF Naming, Caching
    <2>2. Kept(i) = 0
      BY <2>1, FS_EmptySet DEF Kept
    <2> QED BY <2>1, <2>2, <1>2 DEF Held, Cached
  <1>5. Ledger /\ Traced
    BY <1>2, <1>4 DEF Ledger, Traced
  <1>6. Resolved
    BY <1>2 DEF Resolved, TokensResolvable, Tokens
  <1>7. Serial
    BY <1>2 DEF Serial, Loading, LoadSteps
  <1>8. ImportsReturned
    BY DEF ImportsReturned
  <1> QED BY <1>1, <1>3, <1>5, <1>6, <1>7, <1>8 DEF CacheInv

-----------------------------------------------------------------------------
\* What SMT needs to know of one thread's place before a step.
LEMMA PlaceOf ==
  ASSUME CacheInv, NEW t \in Threads, pc[t].at # "idle"
  PROVE  /\ alive
         /\ pc[t].of \in Instances
         /\ pc[t].of[1] \in Modules /\ pc[t].of[2] \in Generations
         /\ pc[t].of[1] \in present
         /\ pc[t].of[2] = generation[pc[t].of[1]]
         /\ pc[t].of = <<pc[t].of[1], pc[t].of[2]>>
  BY InstanceFacts DEF CacheInv, Places

\* A thread moves on, or returns, and nothing else changes: to "insert" with
\* what is in the map, which has no entry for its module, or to the end of a
\* vector, or to a step that remembers nothing.
LEMMA MovesOn ==
  ASSUME CacheInv, NEW t \in Threads, NEW p \in Place,
         pc' = [pc EXCEPT ![t] = p],
         UNCHANGED <<world, containers, imports, raced>>,
         \/ pc[t].at \in {"import", "refs"} /\ p = Idle
         \/ /\ p.of = pc[t].of
            /\ \/ /\ pc[t].at = "find" /\ p.at = "insert"
                  /\ p.seen = m_MetadataImportByModuleId
                  /\ m_MetadataImportByModuleId[pc[t].of[1]] = 0
               \/ /\ pc[t].at = "find" /\ p.at = "defs"
                  /\ m_MetadataImportByModuleId[pc[t].of[1]] # 0
               \/ /\ pc[t].at = "defs" /\ p.at = "add_defs"
                  /\ p.seen = m_TypeDefinitionTokens
               \/ pc[t].at = "defs" /\ p.at = "refs"
               \/ /\ pc[t].at = "refs" /\ p.at = "add_refs"
                  /\ p.seen = m_TypeReferenceTokens
  PROVE  CacheInv'
  <1> USE DEF CacheInv, world, containers, clr
  <1>1. \A u \in Threads : pc'[u] = IF u = t THEN p ELSE pc[u]
    BY DEF Shape
  <1>2. Idle.at = "idle" /\ Idle.of = <<None, 0>>
    BY PlaceFacts
  <1>3. pc[t].at # "idle" /\ pc[t].at # "name" /\ p.at # "name"
    BY <1>2
  <1>4. Shape'
    BY <1>1 DEF Shape
  <1>5. Loading(t) /\ (p = Idle \/ Loading(t)')
    BY <1>1 DEF Loading, LoadSteps
  <1>6. \A u \in Threads : Loading(u)' => Loading(u) /\ pc'[u].of = pc[u].of
    BY <1>1, <1>2, <1>5 DEF Loading, LoadSteps
  <1>7. Places'
    <2>1. \A u \in Threads :
            /\ pc'[u].at = "idle" => pc'[u] = Idle
            /\ pc'[u].at # "idle" =>
                 /\ alive
                 /\ pc'[u].of \in Instances
                 /\ pc'[u].of[1] \in present
                 /\ pc'[u].of[2] = generation[pc'[u].of[1]]
      BY <1>1, <1>2, <1>3, PlaceOf DEF Places
    <2>2. \A u \in Threads : pc'[u].at = "insert" =>
            /\ pc'[u].seen \in Maps
            /\ pc'[u].seen[pc'[u].of[1]] = 0
            /\ \A m \in Modules : pc'[u].seen[m] <= generation[m]
      BY <1>1, <1>2 DEF Places, Shape
    <2>3. \A u \in Threads : pc'[u].at \in {"add_defs", "add_refs"} =>
            pc'[u].seen \in Seq(Instances)
      BY <1>1, <1>2 DEF Places, Shape
    <2>4. \A u, v \in Threads :
            Loading(u)' /\ Loading(v)' /\ pc'[u].of = pc'[v].of => u = v
      BY <1>6 DEF Places
    <2> QED BY <2>1, <2>2, <2>3, <2>4 DEF Places
  <1>8. \A i \in Instances : Kept(i)' = Kept(i) /\ Cached(i)' = Cached(i)
    <2>1. \A i \in Instances : Cardinality(Naming(i))' = Cardinality(Naming(i))
      BY <1>3, SameNames
    <2> QED BY <2>1 DEF Kept, Cached
  <1>9. \A i \in Instances : Held(i)' => Held(i)
    BY <1>1, <1>2 DEF Held, Cached, Caching, Shape
  <1>10. Ledger'
    <2>1. \A u \in Threads : pc'[u].at = "import" =>
            pc[u].at = "import" /\ pc'[u].of = pc[u].of
      BY <1>1, <1>2
    <2> QED BY <1>8, <1>9, <2>1 DEF Ledger
  <1>11. Traced'
    <2>1. ASSUME NEW i \in Instances, Caching(i) # {}, ~Cached(i), ~Displaced(i)
          PROVE  Caching(i)' # {}
      <3>1. PICK u \in Threads : pc[u].at \in {"find", "insert"} /\ pc[u].of = i
        BY <2>1 DEF Caching
      <3>2. pc'[u].at \in {"find", "insert"} /\ pc'[u].of = i
        BY <1>1, <2>1, <3>1 DEF Cached, Displaced, Shape
      <3> QED BY <3>2 DEF Caching
    <2>2. \A i \in Instances : Displaced(i)' = Displaced(i)
      BY DEF Displaced
    <2> QED BY <1>8, <2>1, <2>2 DEF Traced
  <1>12. Resolved'
    <2>1. TokensResolvable' = TokensResolvable
      BY DEF TokensResolvable, Tokens
    <2>2. ASSUME NEW u \in Threads, ~raced,
                 pc'[u].at \in {"defs", "add_defs", "refs", "add_refs"}
          PROVE  m_MetadataImportByModuleId[pc'[u].of[1]] # 0
      BY <1>1, <1>2, <2>2 DEF Resolved
    <2> QED BY <2>1, <2>2 DEF Resolved
  <1>13. Serial'
    <2>1. ASSUME ~overlapped, NEW u \in Threads
          PROVE  /\ pc'[u].at = "insert" => pc'[u].seen = m_MetadataImportByModuleId
                 /\ pc'[u].at = "add_defs" => pc'[u].seen = m_TypeDefinitionTokens
                 /\ pc'[u].at = "add_refs" => pc'[u].seen = m_TypeReferenceTokens
      BY <1>1, <1>2, <2>1 DEF Serial
    <2> QED BY <1>6, <2>1 DEF Serial
  <1>14. ImportsReturned'
    BY DEF ImportsReturned, Displaced
  <1> QED BY <1>4, <1>7, <1>10, <1>11, <1>12, <1>13, <1>14

-----------------------------------------------------------------------------
\* The steps of MovesOn.
LEMMA ImportRefusedStep ==
  ASSUME CacheInv, NEW t \in Threads, ImportRefused(t) PROVE CacheInv'
  BY MovesOn, PlaceTypes DEF ImportRefused, Returns

LEMMA FindEntryStep ==
  ASSUME CacheInv, NEW t \in Threads, FindEntry(t) PROVE CacheInv'
  <1>1. pc[t].at = "find" /\ pc[t].of \in Instances
    BY PlaceOf DEF FindEntry
  <1>2. /\ At("insert", pc[t].of, m_MetadataImportByModuleId) \in Place
        /\ At("defs", pc[t].of, <<>>) \in Place
    BY <1>1, PlaceTypes DEF LoadSteps, CacheInv, Shape
  <1>3. CASE m_MetadataImportByModuleId[pc[t].of[1]] = 0
    BY <1>1, <1>2, <1>3, MovesOn,
       PlaceFacts DEF FindEntry
  <1>4. CASE m_MetadataImportByModuleId[pc[t].of[1]] # 0
    BY <1>1, <1>2, <1>4, MovesOn,
       PlaceFacts DEF FindEntry, Goes
  <1> QED BY <1>3, <1>4

LEMMA ListDefinitionsStep ==
  ASSUME CacheInv, NEW t \in Threads, ListDefinitions(t) PROVE CacheInv'
  <1>1. pc[t].at = "defs" /\ pc[t].of \in Instances
    BY PlaceOf DEF ListDefinitions
  <1>2. /\ At("add_defs", pc[t].of, m_TypeDefinitionTokens) \in Place
        /\ At("refs", pc[t].of, <<>>) \in Place
    BY <1>1, PlaceTypes DEF LoadSteps, CacheInv, Shape
  <1>3. CASE pc' = [pc EXCEPT ![t] = At("add_defs", pc[t].of,
                                          m_TypeDefinitionTokens)]
    <2>1. PICK p \in Place : p = At("add_defs", pc[t].of, m_TypeDefinitionTokens)
      BY <1>2
    <2>2. p.at = "add_defs" /\ p.of = pc[t].of /\ p.seen = m_TypeDefinitionTokens
      BY <2>1, PlaceFacts
    <2> QED BY <1>1, <1>3, <2>1, <2>2, MovesOn DEF ListDefinitions
  <1>4. CASE Goes(t, "refs")
    <2>1. PICK p \in Place : p = At("refs", pc[t].of, <<>>)
      BY <1>2
    <2>2. p.at = "refs" /\ p.of = pc[t].of
      BY <2>1, PlaceFacts
    <2> QED BY <1>1, <1>4, <2>1, <2>2, MovesOn DEF ListDefinitions, Goes
  <1> QED BY <1>3, <1>4 DEF ListDefinitions

LEMMA ListReferencesStep ==
  ASSUME CacheInv, NEW t \in Threads, ListReferences(t) PROVE CacheInv'
  <1>1. pc[t].at = "refs" /\ pc[t].of \in Instances
    BY PlaceOf DEF ListReferences
  <1>2. /\ At("add_refs", pc[t].of, m_TypeReferenceTokens) \in Place
        /\ Idle \in Place
    BY <1>1, PlaceTypes DEF LoadSteps, CacheInv, Shape
  <1>3. CASE pc' = [pc EXCEPT ![t] = At("add_refs", pc[t].of,
                                          m_TypeReferenceTokens)]
    <2>1. PICK p \in Place : p = At("add_refs", pc[t].of, m_TypeReferenceTokens)
      BY <1>2
    <2>2. p.at = "add_refs" /\ p.of = pc[t].of /\ p.seen = m_TypeReferenceTokens
      BY <2>1, PlaceFacts
    <2> QED BY <1>1, <1>3, <2>1, <2>2, MovesOn DEF ListReferences
  <1>4. CASE Returns(t)
    BY <1>1, <1>2, <1>4, MovesOn DEF ListReferences, Returns
  <1> QED BY <1>3, <1>4 DEF ListReferences

-----------------------------------------------------------------------------
(***************************************************************************)
(* A module is loaded: its ModuleID gets a new generation, to which no     *)
(* reference, token or callback belongs yet.                               *)
(***************************************************************************)
LEMMA LoadStep ==
  ASSUME CacheInv, NEW t \in Threads, NEW m \in Modules,
         ModuleLoadFinished(t, m)
  PROVE  CacheInv'
  <1> DEFINE i == <<m, generation[m] + 1>>
             p == IF m_CanUseV2Interfaces THEN At("import", i, <<>>) ELSE pc[t]
  <1> USE DEF CacheInv, containers
  <1>1. generation \in Maps /\ generation' \in Maps
        /\ \A n \in Modules : generation'[n] = IF n = m THEN generation[m] + 1 ELSE generation[n]
    BY CacheAssumption DEF ModuleLoadFinished, Shape, Maps, Generations
  <1>2. i \in Instances /\ i[1] = m /\ i[2] = generation[m] + 1
    BY <1>1, CacheAssumption
       DEF ModuleLoadFinished, Maps, Instances, Generations
  <1>3. p \in Place
    BY <1>2, PlaceTypes DEF LoadSteps, Shape
  <1>4. pc' = [pc EXCEPT ![t] = p] /\ \A u \in Threads : pc'[u] = IF u = t THEN p ELSE pc[u]
    BY DEF ModuleLoadFinished, Shape
  <1>5. pc[t] = Idle /\ pc[t].at = "idle" /\ pc[t].of = <<None, 0>>
    BY PlaceFacts DEF ModuleLoadFinished
  <1>6. p = Idle \/ (p.at = "import" /\ p.of = i /\ m_CanUseV2Interfaces)
    BY <1>5, PlaceFacts
  <1>7. \A u \in Threads : u # t /\ pc[u].at # "idle" => pc[u].of[1] # m
    BY DEF Places, ModuleLoadFinished
  <1>8. Shape'
    BY <1>1, <1>3, <1>4 DEF Shape, ModuleLoadFinished
  <1>9. ~Loading(t) /\ \A u \in Threads : u # t => Loading(u)' = Loading(u)
    BY <1>4, <1>5 DEF Loading, LoadSteps
  <1>10. Places'
    <2>1. \A u \in Threads :
            /\ pc'[u].at = "idle" => pc'[u] = Idle
            /\ pc'[u].at # "idle" =>
                 /\ alive'
                 /\ pc'[u].of \in Instances
                 /\ pc'[u].of[1] \in present'
                 /\ pc'[u].of[2] = generation'[pc'[u].of[1]]
      <3> SUFFICES ASSUME NEW u \in Threads
                   PROVE  /\ pc'[u].at = "idle" => pc'[u] = Idle
                          /\ pc'[u].at # "idle" =>
                               /\ alive'
                               /\ pc'[u].of \in Instances
                               /\ pc'[u].of[1] \in present'
                               /\ pc'[u].of[2] = generation'[pc'[u].of[1]]
        OBVIOUS
      <3>1. CASE u = t
        BY <3>1, <1>1, <1>2, <1>4, <1>5, <1>6 DEF ModuleLoadFinished
      <3>2. CASE u # t
        BY <3>2, <1>1, <1>4, <1>7, InstanceFacts DEF Places, ModuleLoadFinished
      <3> QED BY <3>1, <3>2
    <2>2. \A u \in Threads : pc'[u].at = "insert" =>
            /\ u # t /\ pc'[u].seen \in Maps
            /\ pc'[u].seen[pc'[u].of[1]] = 0
            /\ \A n \in Modules : pc'[u].seen[n] <= generation[n]
      BY <1>4, <1>5, <1>6 DEF Places
    <2>3. \A n \in Modules : generation[n] \in Nat /\ generation'[n] \in Nat
            /\ generation[n] <= generation'[n]
      BY <1>1 DEF Maps, Generations
    <2>4. \A u \in Threads : pc'[u].at = "insert" =>
            \A n \in Modules : pc'[u].seen[n] <= generation'[n]
      <3> SUFFICES ASSUME NEW u \in Threads, pc'[u].at = "insert", NEW n \in Modules
                   PROVE  pc'[u].seen[n] <= generation'[n]
        OBVIOUS
      <3>1. pc'[u].seen[n] \in Nat /\ pc'[u].seen[n] <= generation[n]
        BY <2>2 DEF Maps, Generations
      <3> QED BY <3>1, <2>3
    <2>5. \A u \in Threads : pc'[u].at \in {"add_defs", "add_refs"} =>
            pc'[u].seen \in Seq(Instances)
      BY <1>4, <1>5, <1>6 DEF Places
    <2>6. \A u, v \in Threads :
            Loading(u)' /\ Loading(v)' /\ pc'[u].of = pc'[v].of => u = v
      <3>1. \A u \in Threads : u # t /\ Loading(u)' => pc'[u].of # i
        BY <1>2, <1>4, <1>7, <1>9 DEF Loading, LoadSteps
      <3>2. Loading(t)' => pc'[t].of = i
        BY <1>4, <1>5, <1>6 DEF Loading, LoadSteps
      <3> QED BY <3>1, <3>2, <1>4, <1>9 DEF Places
    <2>7. \A n \in Modules : m_MetadataImportByModuleId'[n] <= generation'[n]
      <3> SUFFICES ASSUME NEW n \in Modules
                   PROVE  m_MetadataImportByModuleId'[n] <= generation'[n]
        OBVIOUS
      <3>1. /\ m_MetadataImportByModuleId[n] \in Nat
            /\ m_MetadataImportByModuleId[n] <= generation[n]
            /\ m_MetadataImportByModuleId' = m_MetadataImportByModuleId
        BY DEF Places, Shape, Maps, Generations, ModuleLoadFinished
      <3> QED BY <3>1, <2>3
    <2>8. \A n \in present' : generation'[n] # 0
      BY <1>1 DEF Places, Shape, Maps, Generations, ModuleLoadFinished
    <2> QED BY <2>1, <2>2, <2>4, <2>5, <2>6, <2>7, <2>8 DEF Places
  <1>11. \A j \in Instances :
           Kept(j)' = Kept(j) /\ Cached(j)' = Cached(j) /\ Caching(j)' = Caching(j)
           /\ Held(j)' = Held(j)
    <2>1. \A j \in Instances : Cardinality(Naming(j))' = Cardinality(Naming(j))
      BY <1>4, <1>5, <1>6, SameNames
    <2>2. \A j \in Instances : Cached(j)' = Cached(j) /\ Caching(j)' = Caching(j)
      BY <1>4, <1>5, <1>6 DEF Cached, Caching, ModuleLoadFinished
    <2>3. \A u \in Threads : pc'[u].at = "insert" \/ pc[u].at = "insert" => pc'[u] = pc[u]
      BY <1>4, <1>5, <1>6
    <2>4. \A j \in Instances : Held(j)' = Held(j)
      BY <2>2, <2>3 DEF Held
    <2> QED BY <2>1, <2>2, <2>4 DEF Kept, ModuleLoadFinished
  <1>12. Ledger'
    <2>1. Kept(i) = 0
      BY <1>1, <1>2 DEF Ledger, ModuleLoadFinished, Maps, Generations
    <2>2. \A u \in Threads, j \in Instances :
            pc'[u].at = "import" /\ pc'[u].of = j =>
              j = i \/ (pc[u].at = "import" /\ pc[u].of = j)
      BY <1>4, <1>5, <1>6
    <2>3. \A j \in Instances : j[2] > generation'[j[1]] => j[2] > generation[j[1]]
      BY <1>1, InstanceFacts DEF Maps, Generations
    <2> QED BY <1>11, <2>1, <2>2, <2>3 DEF Ledger, ModuleLoadFinished
  <1>13. Traced'
    BY <1>11 DEF Traced, Displaced, ModuleLoadFinished
  <1>14. Resolved'
    <2>1. TokensResolvable'
      BY DEF TokensResolvable, Tokens, ModuleLoadFinished, Resolved
    <2>2. ASSUME NEW u \in Threads, ~raced,
                 pc'[u].at \in {"defs", "add_defs", "refs", "add_refs"}
          PROVE  m_MetadataImportByModuleId'[pc'[u].of[1]] # 0
      BY <1>4, <1>5, <1>6, <2>2 DEF Resolved, ModuleLoadFinished
    <2> QED BY <2>1, <2>2 DEF Resolved, ModuleLoadFinished
  <1>15. Serial'
    <2> SUFFICES ASSUME ~overlapped' PROVE Serial'
      BY DEF Serial
    <2>1. ~overlapped /\ ~raced' /\ (m_CanUseV2Interfaces => \A u \in Threads : ~Loading(u))
      BY DEF ModuleLoadFinished, Serial
    <2>2. ~m_CanUseV2Interfaces => pc' = pc
      BY <1>4 DEF Shape
    <2>3. \A u, v \in Threads : Loading(u)' /\ Loading(v)' => u = v
      BY <2>1, <2>2, <1>9 DEF Serial, Loading
    <2>4. \A u \in Threads :
         /\ pc'[u].at = "insert" => pc'[u].seen = m_MetadataImportByModuleId'
         /\ pc'[u].at = "add_defs" => pc'[u].seen = m_TypeDefinitionTokens'
         /\ pc'[u].at = "add_refs" => pc'[u].seen = m_TypeReferenceTokens'
      BY <2>1, <1>4, <1>5, <1>6 DEF Serial, ModuleLoadFinished
    <2> QED BY <2>1, <2>3, <2>4 DEF Serial
  <1>16. ImportsReturned'
    BY DEF ImportsReturned, ModuleLoadFinished
  <1> QED BY <1>8, <1>10, <1>12, <1>13, <1>14, <1>15, <1>16

-----------------------------------------------------------------------------
\* A thread gets the import it came for: one reference more on an import that
\* had none but the borrowed ones, and from now on this thread is its keeper.
LEMMA GetImportStep ==
  ASSUME CacheInv, NEW t \in Threads, GetMetadataImportByModuleID(t)
  PROVE  CacheInv'
  <1> DEFINE i == pc[t].of
             p == At("find", i, <<>>)
  <1> USE DEF CacheInv, containers, world, clr
  <1>1. pc[t].at = "import" /\ i \in Instances
    BY PlaceOf DEF GetMetadataImportByModuleID
  <1>2. p \in Place /\ p.at = "find" /\ p.of = i
    <2>1. p \in Place
      BY <1>1, PlaceTypes DEF LoadSteps
    <2> QED BY <2>1, PlaceFacts
  <1>3. pc' = [pc EXCEPT ![t] = p] /\ \A u \in Threads : pc'[u] = IF u = t THEN p ELSE pc[u]
    BY DEF GetMetadataImportByModuleID, Goes, Shape
  <1>4. /\ imports' \in [Instances -> Nat]
        /\ \A j \in Instances : imports'[j] = imports[j] + (IF j = i THEN 1 ELSE 0)
    BY <1>1 DEF GetMetadataImportByModuleID, Shape
  <1>5. UNCHANGED <<world, containers, raced>>
    BY DEF GetMetadataImportByModuleID
  <1>6. Shape'
    BY <1>2, <1>3, <1>4, <1>5 DEF Shape
  <1>7. \A u \in Threads : Loading(u)' = Loading(u) /\ pc'[u].of = pc[u].of
    BY <1>1, <1>2, <1>3 DEF Loading, LoadSteps
  <1>8. \A u \in Threads :
          /\ pc'[u].at \in {"idle", "insert", "defs", "add_defs", "refs", "add_refs"} => pc'[u] = pc[u]
          /\ pc'[u].at = "idle" <=> pc[u].at = "idle"
          /\ pc[u].at = "insert" => pc'[u] = pc[u]
    BY <1>1, <1>2, <1>3
  <1>9. Places'
    BY <1>5, <1>7, <1>8 DEF Places
  <1>10. \A j \in Instances : Kept(j)' = Kept(j) + (IF j = i THEN 1 ELSE 0)
    <2>1. \A j \in Instances : Cardinality(Naming(j))' = Cardinality(Naming(j))
      BY <1>1, <1>2, <1>3, SameNames
    <2> SUFFICES ASSUME NEW j \in Instances
                 PROVE  Kept(j)' = Kept(j) + (IF j = i THEN 1 ELSE 0)
      OBVIOUS
    <2>2. imports[j] \in Nat /\ Cardinality(Naming(j)) \in Nat
      BY NamingFinite DEF Shape
    <2> QED BY <1>4, <2>1, <2>2 DEF Kept
  <1>11. alive /\ Kept(i) = 0 /\ i[2] = generation[i[1]]
    BY <1>1, PlaceOf DEF Ledger
  <1>12. \A j \in Instances : j # i => Caching(j)' = Caching(j)
    BY <1>1, <1>2, <1>3 DEF Caching
  <1>13. \A j \in Instances : Cached(j)' = Cached(j) /\ (Held(j)' => j = i \/ Held(j))
    BY <1>5, <1>8, <1>12 DEF Held, Cached
  <1>14. \A j \in Instances : j = i => t \in Caching(j)'
    BY <1>2, <1>3 DEF Caching
  <1>15. Ledger'
    <2>1. \A u \in Threads, j \in Instances :
            pc'[u].at = "import" /\ pc'[u].of = j =>
              pc[u].at = "import" /\ pc[u].of = j /\ j # i
      BY <1>1, <1>2, <1>3 DEF Places, Loading, LoadSteps
    <2> SUFFICES ASSUME NEW j \in Instances
                 PROVE  /\ Kept(j)' \in {0, 1}
                        /\ Held(j)' => Kept(j)' = 1
                        /\ \A u \in Threads : pc'[u].at = "import" /\ pc'[u].of = j => Kept(j)' = 0
                        /\ j[2] > generation[j[1]] => Kept(j)' = 0
      BY <1>5 DEF Ledger
    <2>2. CASE j = i
      <3>1. Kept(j)' = 1
        BY <1>10, <1>11, <2>2
      <3>2. ~(j[2] > generation[j[1]])
        BY <1>1, <1>11, <2>2, InstanceFacts
      <3> QED BY <2>1, <2>2, <3>1, <3>2
    <2>3. CASE j # i
      <3>1. Kept(j) \in {0, 1} /\ Kept(j)' = Kept(j)
        BY <1>10, <1>11, <2>3 DEF Ledger
      <3> QED BY <1>11, <1>13, <2>1, <2>3, <3>1 DEF Ledger
    <2> QED BY <2>2, <2>3
  <1>16. Traced'
    <2> SUFFICES ASSUME alive, ~raced, NEW j \in Instances, Kept(j)' = 1
                 PROVE  /\ Cached(j)' \/ Caching(j)' # {} \/ Displaced(j)'
                        /\ m_MetadataImportByModuleId[j[1]] <= j[2]
      BY <1>5 DEF Traced
    <2>1. Displaced(j)' = Displaced(j)
      BY <1>5 DEF Displaced
    <2>2. CASE j = i
      <3>1. m_MetadataImportByModuleId[i[1]] <= generation[i[1]]
        BY <1>1, InstanceFacts DEF Places
      <3>2. Caching(j)' # {}
        BY <1>14, <2>2
      <3>3. m_MetadataImportByModuleId[j[1]] <= j[2]
        BY <1>11, <2>2, <3>1
      <3> QED BY <3>2, <3>3
    <2>3. CASE j # i
      <3>1. Kept(j) = 1
        BY <1>10, <1>11, <2>3 DEF Ledger
      <3> QED BY <1>12, <1>13, <2>1, <2>3, <3>1 DEF Traced
    <2> QED BY <2>2, <2>3
  <1>17. Resolved'
    BY <1>5, <1>8 DEF Resolved, TokensResolvable, Tokens
  <1>18. Serial'
    BY <1>2, <1>3, <1>5, <1>7, <1>8 DEF Serial
  <1>19. ImportsReturned'
    BY <1>5, <1>11 DEF ImportsReturned
  <1> QED BY <1>6, <1>9, <1>15, <1>16, <1>17, <1>18, <1>19

-----------------------------------------------------------------------------
(***************************************************************************)
(* Naming a method borrows a reference and gives it back: what is kept     *)
(* does not change, and the containers are not touched.                    *)
(***************************************************************************)
LEMMA Borrows ==
  ASSUME CacheInv, NEW t \in Threads, NEW p \in Place,
         pc' = [pc EXCEPT ![t] = p],
         UNCHANGED <<world, containers, raced>>,
         \/ pc[t].at = "idle" /\ p.at = "name"
         \/ pc[t].at = "name" /\ p.at = "idle",
         p.at = "idle" => p = Idle,
         p.at = "name" => /\ p.of \in Instances /\ alive
                          /\ p.of[1] \in present
                          /\ p.of[2] = generation[p.of[1]],
         imports' \in [Instances -> Nat],
         \A i \in Instances : Kept(i)' = Kept(i)
  PROVE  CacheInv'
  <1> USE DEF CacheInv, containers, world, clr
  <1>1. \A u \in Threads : pc'[u] = IF u = t THEN p ELSE pc[u]
    BY DEF Shape
  <1>2. Shape'
    BY <1>1 DEF Shape
  <1>3. \A u \in Threads :
          /\ Loading(u)' = Loading(u)
          /\ Loading(u)' \/ Loading(u) => pc'[u] = pc[u]
    BY <1>1 DEF Loading, LoadSteps
  <1>4. Places'
    <2>1. \A u \in Threads :
            /\ pc'[u].at = "idle" => pc'[u] = Idle
            /\ pc'[u].at # "idle" =>
                 /\ alive
                 /\ pc'[u].of \in Instances
                 /\ pc'[u].of[1] \in present
                 /\ pc'[u].of[2] = generation[pc'[u].of[1]]
      BY <1>1 DEF Places
    <2>2. \A u \in Threads : pc'[u].at \in {"insert", "add_defs", "add_refs"} => pc'[u] = pc[u]
      BY <1>1
    <2> QED BY <1>3, <2>1, <2>2 DEF Places
  <1>5. \A i \in Instances :
          Cached(i)' = Cached(i) /\ Caching(i)' = Caching(i) /\ Displaced(i)' = Displaced(i)
    BY <1>1 DEF Cached, Caching, Displaced
  <1>6. \A i \in Instances : Held(i)' = Held(i)
    BY <1>1, <1>5 DEF Held
  <1>7. Ledger'
    <2>1. \A u \in Threads : pc'[u].at = "import" => pc'[u] = pc[u]
      BY <1>1
    <2> QED BY <1>6, <2>1 DEF Ledger
  <1>8. Traced'
    BY <1>5 DEF Traced
  <1>9. Resolved'
    BY <1>1 DEF Resolved, TokensResolvable, Tokens
  <1>10. Serial'
    BY <1>1, <1>3 DEF Serial
  <1>11. ImportsReturned'
    BY <1>1 DEF ImportsReturned, Places
  <1> QED BY <1>2, <1>4, <1>7, <1>8, <1>9, <1>10, <1>11

LEMMA JITStep ==
  ASSUME CacheInv, NEW t \in Threads, NEW m \in Modules,
         JITCompilationStarted(t, m)
  PROVE  CacheInv'
  <1>1. m \in present /\ generation[m] \in Generations
    BY DEF JITCompilationStarted, CacheInv, Places, Shape, Maps
  <1>2. PICK i \in Instances : i = <<m, generation[m]>> /\ i[1] = m /\ i[2] = generation[m]
    BY <1>1, InstanceFacts
  <1>3. PICK p \in Place : p = At("name", i, <<>>)
    BY PlaceTypes
  <1>4. p.at = "name" /\ p.of = i /\ pc[t].at = "idle" /\ alive
    BY <1>3, PlaceFacts DEF JITCompilationStarted
  <1>5. pc' = [pc EXCEPT ![t] = p]
    BY <1>2, <1>3 DEF JITCompilationStarted
  <1>6. imports \in [Instances -> Nat] /\ imports' = [imports EXCEPT ![i] = @ + 1]
    BY <1>2 DEF JITCompilationStarted, CacheInv, Shape
  <1>7. /\ imports' \in [Instances -> Nat]
        /\ \A j \in Instances : imports'[j] = imports[j] + (IF j = i THEN 1 ELSE 0)
    BY <1>6
  <1>8. \A j \in Instances : Kept(j)' = Kept(j)
    <2>1. \A j \in Instances :
            Cardinality(Naming(j))' = Cardinality(Naming(j)) + (IF j = i THEN 1 ELSE 0)
      BY <1>4, <1>5, MoreNames DEF CacheInv
    <2> SUFFICES ASSUME NEW j \in Instances PROVE Kept(j)' = Kept(j)
      OBVIOUS
    <2>2. imports[j] \in Nat /\ Cardinality(Naming(j)) \in Nat
      BY NamingFinite DEF CacheInv, Shape
    <2> QED BY <1>7, <2>1, <2>2 DEF Kept
  <1>9. UNCHANGED <<world, containers, raced>>
    BY DEF JITCompilationStarted
  <1> QED BY <1>1, <1>2, <1>4, <1>5, <1>7, <1>8, <1>9, Borrows

LEMMA NameStep ==
  ASSUME CacheInv, NEW t \in Threads, GetFullMethodName(t)
  PROVE  CacheInv'
  <1>1. PICK i \in Instances : i = pc[t].of
    BY PlaceOf DEF GetFullMethodName
  <1>2. pc[t].at = "name" /\ Idle.at = "idle" /\ Idle \in Place /\ alive
    BY PlaceOf, PlaceFacts, PlaceTypes DEF GetFullMethodName
  <1>3. pc' = [pc EXCEPT ![t] = Idle]
    BY DEF GetFullMethodName, Returns
  <1>4. \A j \in Instances :
          Cardinality(Naming(j))' = Cardinality(Naming(j)) - (IF j = i THEN 1 ELSE 0)
    BY <1>1, <1>2, <1>3, FewerNames DEF CacheInv
  <1>5. imports \in [Instances -> Nat] /\ imports' = [imports EXCEPT ![i] = @ - 1]
    BY <1>1 DEF GetFullMethodName, CacheInv, Shape
  \* The thread's own reference is there to be given back.
  <1>6. imports[i] >= 1
    <2>1. t \in Naming(i)
      BY <1>1, <1>2 DEF Naming
    <2>2. Cardinality(Naming(i)) # 0
      BY <2>1, NamingFinite, FS_EmptySet
    <2>3. Cardinality(Naming(i)) \in Nat /\ imports[i] \in Nat
      BY <1>5, NamingFinite
    <2>4. Kept(i) \in {0, 1}
      BY <1>2 DEF CacheInv, Ledger
    <2> QED BY <2>2, <2>3, <2>4 DEF Kept
  <1>7. /\ imports' \in [Instances -> Nat]
        /\ \A j \in Instances : imports'[j] = imports[j] - (IF j = i THEN 1 ELSE 0)
    BY <1>5, <1>6
  <1>8. \A j \in Instances : Kept(j)' = Kept(j)
    <2> SUFFICES ASSUME NEW j \in Instances PROVE Kept(j)' = Kept(j)
      OBVIOUS
    <2>1. imports[j] \in Nat /\ Cardinality(Naming(j)) \in Nat
      BY <1>5, NamingFinite
    <2> QED BY <1>4, <1>7, <2>1 DEF Kept
  <1>9. UNCHANGED <<world, containers, raced>>
    BY DEF GetFullMethodName
  <1> QED BY <1>2, <1>3, <1>7, <1>8, <1>9, Borrows

-----------------------------------------------------------------------------
\* A module goes when no callback is about it.
LEMMA UnloadStep ==
  ASSUME CacheInv, NEW m \in Modules, ModuleUnloads(m)
  PROVE  CacheInv'
  <1> USE DEF CacheInv, ModuleUnloads, containers
  <1>1. Shape'
    BY DEF Shape
  <1>2. Places'
    BY DEF Places, Loading
  <1>3. Ledger' /\ Traced'
    BY DEF Ledger, Traced, Kept, Held, Naming, Caching, Cached, Displaced
  <1>4. Resolved' /\ Serial'
    BY DEF Resolved, TokensResolvable, Tokens, Serial, Loading
  <1>5. ImportsReturned'
    BY DEF ImportsReturned, Displaced
  <1> QED BY <1>1, <1>2, <1>3, <1>4, <1>5

(***************************************************************************)
(* The destructor: no callback runs, so that the imports have exactly      *)
(* their kept references; what is kept and not in the map was displaced by *)
(* an earlier module's import.                                             *)
(***************************************************************************)
LEMMA ReleaseStep ==
  ASSUME CacheInv, ReleaseMetadataCache
  PROVE  CacheInv'
  <1> USE DEF CacheInv, containers, clr
  <1>1. \A t \in Threads : pc[t] = Idle /\ pc[t].at = "idle"
    BY PlaceFacts DEF ReleaseMetadataCache
  <1>2. /\ alive /\ alive' = FALSE /\ UNCHANGED <<containers, clr, pc, overlapped, raced>>
        /\ UNCHANGED m_CanUseV2Interfaces
    BY DEF ReleaseMetadataCache
  <1>3. \A i \in Instances : imports[i] = Kept(i) /\ Kept(i) \in {0, 1}
    <2> SUFFICES ASSUME NEW i \in Instances PROVE imports[i] = Kept(i) /\ Kept(i) \in {0, 1}
      OBVIOUS
    <2>1. Naming(i) = {}
      BY <1>1 DEF Naming
    <2>2. imports[i] \in Nat /\ Cardinality(Naming(i)) = 0
      BY <2>1, FS_EmptySet DEF Shape
    <2> QED BY <1>2, <2>2 DEF Kept, Ledger
  <1>4. \A i \in Instances : Cached(i) => imports[i] = 1
    BY <1>2, <1>3 DEF Ledger, Held
  <1>5. /\ imports' \in [Instances -> Nat]
        /\ \A i \in Instances :
             imports'[i] = IF Cached(i) THEN 0 ELSE imports[i]
    BY <1>3, <1>4 DEF ReleaseMetadataCache
  <1>6. Shape'
    BY <1>2, <1>5 DEF Shape
  <1>7. Places'
    BY <1>1, <1>2 DEF Places, Loading
  <1>8. Ledger' /\ Traced'
    BY <1>2 DEF Ledger, Traced
  <1>9. Resolved' /\ Serial'
    BY <1>2 DEF Resolved, TokensResolvable, Tokens, Serial, Loading
  <1>10. ImportsReturned'
    <2> SUFFICES ASSUME ~raced, NEW i \in Instances, imports'[i] > 0
                 PROVE  Displaced(i) /\ i[2] > 1
      BY <1>2 DEF ImportsReturned, Displaced
    <2>1. ~Cached(i) /\ Kept(i) = 1 /\ Caching(i) = {}
      BY <1>1, <1>3, <1>5 DEF Caching
    <2>2. Displaced(i) /\ m_MetadataImportByModuleId[i[1]] <= i[2]
      BY <1>2, <2>1 DEF Traced
    <2>3. m_MetadataImportByModuleId[i[1]] \in Nat /\ i[2] \in Nat
      BY InstanceFacts DEF Shape, Maps, Generations
    <2> QED BY <2>2, <2>3 DEF Displaced
  <1> QED BY <1>6, <1>7, <1>8, <1>9, <1>10

-----------------------------------------------------------------------------
(***************************************************************************)
(* A thread goes on from a write to the next step of ModuleLoadFinished,   *)
(* or returns: Places, the references and the order of calls do not depend *)
(* on what was written.                                                    *)
(***************************************************************************)
LEMMA WritesOn ==
  ASSUME CacheInv, NEW t \in Threads, NEW p \in Place,
         pc' = [pc EXCEPT ![t] = p],
         pc[t].at \in {"insert", "add_defs", "add_refs"},
         p = Idle \/ (p.at \in {"defs", "refs"} /\ p.of = pc[t].of),
         UNCHANGED <<world, imports>>
  PROVE  /\ \A u \in Threads : pc'[u] = IF u = t THEN p ELSE pc[u]
         /\ p = Idle => p.at = "idle"
         /\ \A u \in Threads : Loading(u)' => Loading(u) /\ pc'[u].of = pc[u].of
         /\ \A u \in Threads :
              pc'[u].at \in {"import", "insert", "add_defs", "add_refs"} =>
                u # t /\ pc'[u] = pc[u]
         /\ \A i \in Instances : Kept(i)' = Kept(i)
         /\ \A i \in Instances : Caching(i)' \subseteq Caching(i)
         /\ (\A m \in Modules : m_MetadataImportByModuleId'[m] <= generation[m])
              => Places'
  <1> USE DEF CacheInv, world, clr
  <1>1. \A u \in Threads : pc'[u] = IF u = t THEN p ELSE pc[u]
    BY DEF Shape
  <1>2. p = Idle => p.at = "idle"
    BY PlaceFacts
  <1>3. \A u \in Threads : Loading(u)' => Loading(u) /\ pc'[u].of = pc[u].of
    BY <1>1, <1>2 DEF Loading, LoadSteps
  <1>4. \A u \in Threads :
          pc'[u].at \in {"import", "insert", "add_defs", "add_refs"} =>
            u # t /\ pc'[u] = pc[u]
    BY <1>1, <1>2
  <1>5. pc[t].at # "name" /\ p.at # "name"
    BY <1>2
  <1>6. \A i \in Instances : Kept(i)' = Kept(i)
    BY <1>5, SameNames DEF Kept
  <1>7. \A i \in Instances : Caching(i)' \subseteq Caching(i)
    BY <1>1, <1>2 DEF Caching
  <1>8. ASSUME \A m \in Modules : m_MetadataImportByModuleId'[m] <= generation[m]
        PROVE  Places'
    <2>1. \A u \in Threads :
            /\ pc'[u].at = "idle" => pc'[u] = Idle
            /\ pc'[u].at # "idle" =>
                 /\ alive
                 /\ pc'[u].of \in Instances
                 /\ pc'[u].of[1] \in present
                 /\ pc'[u].of[2] = generation[pc'[u].of[1]]
      BY <1>1, <1>2, PlaceOf DEF Places
    <2>2. \A u, v \in Threads :
            Loading(u)' /\ Loading(v)' /\ pc'[u].of = pc'[v].of => u = v
      BY <1>3 DEF Places
    <2> QED BY <1>4, <1>8, <2>1, <2>2 DEF Places
  <1> QED BY <1>1, <1>2, <1>3, <1>4, <1>6, <1>7, <1>8

(***************************************************************************)
(* The insertion, stale or not, leaves in the map only imports that have   *)
(* their kept reference.                                                   *)
(***************************************************************************)
LEMMA InsertStep ==
  ASSUME CacheInv, NEW t \in Threads, InsertEntry(t)
  PROVE  CacheInv'
  <1> USE DEF CacheInv
  <1>1. pc[t].at = "insert"
    BY DEF InsertEntry
  <1>2. PICK i \in Instances : i = pc[t].of /\ i = <<i[1], i[2]>>
    BY <1>1, PlaceOf
  <1>3. PICK m \in Modules, g \in Generations :
          i[1] = m /\ i[2] = g /\ g = generation[m]
    BY <1>1, <1>2, PlaceOf
  <1>4. PICK seen \in Maps : /\ seen = pc[t].seen /\ seen[m] = 0
                             /\ \A n \in Modules : seen[n] <= generation[n]
    BY <1>1, <1>2, <1>3 DEF Places
  <1>5. PICK now \in Maps : now = m_MetadataImportByModuleId
    BY DEF Shape
  <1>6. PICK p \in Place : p = At("defs", i, <<>>)
    BY PlaceTypes DEF LoadSteps
  <1>7. p.at = "defs" /\ p.of = i /\ pc' = [pc EXCEPT ![t] = p]
    BY <1>2, <1>6, PlaceFacts DEF InsertEntry, Goes
  <1>8. /\ UNCHANGED <<world, m_TypeDefinitionTokens, m_TypeReferenceTokens, imports>>
        /\ raced' = (raced \/ now # seen)
    BY <1>4, <1>5 DEF InsertEntry
  <1>9. /\ m_MetadataImportByModuleId' \in
             {[now EXCEPT ![m] = g], [seen EXCEPT ![m] = g], now}
        /\ now = seen => m_MetadataImportByModuleId' = [now EXCEPT ![m] = g]
    BY <1>2, <1>3, <1>4, <1>5 DEF InsertEntry, Outcomes
  <1>10. PICK map \in Maps :
           /\ map = m_MetadataImportByModuleId'
           /\ \A n \in Modules : n # m => map[n] = now[n] \/ map[n] = seen[n]
           /\ map[m] = g \/ map[m] = now[m]
           /\ now = seen => \A n \in Modules : map[n] = IF n = m THEN g ELSE now[n]
    <2>1. PICK map : map = m_MetadataImportByModuleId'
      OBVIOUS
    <2>2. map \in Maps
      BY <1>9, <2>1 DEF Maps
    <2>3. CASE map = [now EXCEPT ![m] = g]
      BY <2>1, <2>2, <2>3 DEF Maps
    <2>4. CASE map = [seen EXCEPT ![m] = g]
      BY <1>9, <2>1, <2>2, <2>4 DEF Maps
    <2>5. CASE map = now
      BY <1>9, <2>1, <2>2, <2>5 DEF Maps
    <2> QED BY <1>9, <2>1, <2>3, <2>4, <2>5
  <1> HIDE DEF CacheInv
  <1>11. \A n \in Modules : map[n] <= generation[n]
    <2>1. \A n \in Modules : now[n] <= generation[n] /\ seen[n] <= generation[n]
      BY <1>4, <1>5 DEF CacheInv, Places
    <2>2. g <= generation[m]
      BY <1>3, InstanceFacts
    <2> QED BY <1>10, <2>1, <2>2
  <1>12. /\ \A u \in Threads : pc'[u] = IF u = t THEN p ELSE pc[u]
         /\ \A u \in Threads : Loading(u)' => Loading(u) /\ pc'[u].of = pc[u].of
         /\ \A u \in Threads :
              pc'[u].at \in {"import", "insert", "add_defs", "add_refs"} =>
                u # t /\ pc'[u] = pc[u]
         /\ \A j \in Instances : Kept(j)' = Kept(j)
         /\ \A j \in Instances : Caching(j)' \subseteq Caching(j)
         /\ Places'
    BY <1>1, <1>2, <1>7, <1>8, <1>10, <1>11, WritesOn
  <1> USE DEF CacheInv, world, clr
  <1>13. Shape'
    <2>1. pc' \in [Threads -> Place]
      BY <1>7 DEF Shape
    <2>2. raced' \in BOOLEAN
      BY <1>8 DEF Shape
    <2> QED BY <1>8, <1>10, <2>1, <2>2 DEF Shape
  <1>14. \A j \in Instances : Held(j)' => Held(j)
    <2> SUFFICES ASSUME NEW j \in Instances, Held(j)' PROVE Held(j)
      OBVIOUS
    <2>1. CASE Cached(j)' /\ j[1] = m
      <3>1. map[m] = j[2] /\ j = <<j[1], j[2]>>
        BY <1>10, <2>1, InstanceFacts DEF Cached
      <3>2. CASE map[m] = g
        <4>1. t \in Caching(j)
          BY <1>1, <1>2, <1>3, <2>1, <3>1, <3>2 DEF Caching
        <4> QED BY <4>1 DEF Held
      <3>3. CASE map[m] = now[m]
        BY <1>5, <2>1, <3>1, <3>3 DEF Held, Cached
      <3> QED BY <1>10, <3>2, <3>3
    <2>2. CASE Cached(j)' /\ j[1] # m
      <3>1. now[j[1]] = j[2] \/ seen[j[1]] = j[2]
        BY <1>10, <2>2, InstanceFacts DEF Cached
      <3> QED BY <1>1, <1>4, <1>5, <3>1 DEF Held, Cached
    <2>3. CASE ~Cached(j)'
      BY <1>12, <2>3 DEF Held
    <2> QED BY <2>1, <2>2, <2>3
  <1>15. Ledger'
    BY <1>8, <1>12, <1>14 DEF Ledger
  <1>16. ASSUME ~raced'
         PROVE  /\ ~raced /\ now = seen /\ now[m] = 0
                /\ \A n \in Modules : map[n] = IF n = m THEN g ELSE now[n]
    BY <1>4, <1>8, <1>10, <1>16 DEF Shape
  <1>17. Traced'
    <2> SUFFICES ASSUME alive, ~raced', NEW j \in Instances, Kept(j)' = 1
                 PROVE  /\ Cached(j)' \/ Caching(j)' # {} \/ Displaced(j)'
                        /\ map[j[1]] <= j[2]
      BY <1>8, <1>10 DEF Traced
    <2>1. /\ Cached(j) \/ Caching(j) # {} \/ Displaced(j)
          /\ now[j[1]] <= j[2] /\ j[1] \in Modules /\ j = <<j[1], j[2]>>
      BY <1>5, <1>12, <1>16, InstanceFacts DEF Traced
    <2>2. CASE j[1] # m
      <3>1. map[j[1]] = now[j[1]]
        BY <1>16, <2>1, <2>2
      <3>2. j # i
        BY <1>3, <2>2
      <3>3. Caching(j)' = Caching(j)
        BY <1>2, <1>7, <1>12, <3>2 DEF Caching
      <3>4. Cached(j)' = Cached(j) /\ Displaced(j)' = Displaced(j)
        BY <1>5, <1>10, <3>1 DEF Cached, Displaced
      <3> QED BY <2>1, <3>1, <3>3, <3>4
    <2>3. CASE j[1] = m
      <3>1. ~Cached(j) /\ ~Displaced(j)
        BY <1>5, <1>16, <2>3, InstanceFacts DEF Cached, Displaced
      <3>2. PICK u \in Threads : pc[u].at \in {"find", "insert"} /\ pc[u].of = j
        BY <2>1, <3>1 DEF Caching
      <3>3. j[2] = g
        BY <1>3, <2>3, <3>2 DEF Places
      <3>4. map[j[1]] = j[2]
        BY <1>16, <2>1, <2>3, <3>3
      <3> QED BY <1>10, <3>3, <3>4, InstanceFacts DEF Cached
    <2> QED BY <2>2, <2>3
  <1>18. Resolved'
    <2> SUFFICES ASSUME ~raced' PROVE Resolved'
      BY DEF Resolved
    <2>1. \A u \in Threads :
            pc'[u].at \in {"defs", "add_defs", "refs", "add_refs"} => map[pc'[u].of[1]] # 0
      <3> SUFFICES ASSUME NEW u \in Threads,
                          pc'[u].at \in {"defs", "add_defs", "refs", "add_refs"}
                   PROVE  map[pc'[u].of[1]] # 0
        OBVIOUS
      <3>1. g # 0
        BY InstanceFacts
      <3>2. CASE u = t
        BY <1>3, <1>7, <1>12, <1>16, <3>1, <3>2
      <3>3. CASE u # t
        <4>1. pc'[u] = pc[u] /\ now[pc[u].of[1]] # 0 /\ pc[u].of[1] \in Modules
          BY <1>5, <1>12, <1>16, <3>3, PlaceOf DEF Resolved
        <4> QED BY <1>16, <3>1, <4>1
      <3> QED BY <3>2, <3>3
    <2>2. ASSUME NEW j \in Tokens
          PROVE  map[j[1]] \in 1 .. j[2]
      <3>1. j \in Instances
        BY <2>2 DEF Tokens, Shape
      <3>2. now[j[1]] \in 1 .. j[2]
        BY <1>5, <1>16, <2>2 DEF Resolved, TokensResolvable
      <3>3. j[1] # m
        BY <1>16, <3>2
      <3> QED BY <1>16, <3>1, <3>2, <3>3, InstanceFacts
    <2>3. Tokens' = Tokens
      BY <1>8 DEF Tokens
    <2>4. TokensResolvable'
      BY <1>10, <2>2, <2>3 DEF TokensResolvable
    <2> QED BY <1>10, <2>1, <2>4 DEF Resolved
  <1>19. Serial'
    <2> SUFFICES ASSUME ~overlapped PROVE Serial'
      BY <1>8 DEF Serial
    <2>1. now = seen /\ ~raced
      BY <1>1, <1>4, <1>5 DEF Serial
    <2>2. Loading(t) /\ \A u, v \in Threads : Loading(u) /\ Loading(v) => u = v
      BY <1>1 DEF Serial, Loading, LoadSteps
    <2>3. \A u \in Threads : pc'[u].at \notin {"insert", "add_defs", "add_refs"}
      BY <1>12, <2>2 DEF Loading, LoadSteps
    <2> QED BY <1>8, <1>12, <2>1, <2>2, <2>3 DEF Serial
  <1>20. ImportsReturned'
    BY <1>1, <1>8, PlaceOf DEF ImportsReturned
  <1> QED BY <1>12, <1>13, <1>15, <1>17, <1>18, <1>19, <1>20

-----------------------------------------------------------------------------
\* What an addition to a vector may leave there.
Entries(tokens) == {tokens[k] : k \in DOMAIN tokens}

LEMMA AppendOutcome ==
  ASSUME NEW now \in Seq(Instances), NEW seen \in Seq(Instances),
         NEW i \in Instances,
         NEW new \in Outcomes(now, seen, Append(now, i), Append(seen, i))
  PROVE  /\ new \in Seq(Instances)
         /\ now = seen =>
              Entries(new) = Entries(now) \cup {i}
  <1>1. Append(now, i) \in Seq(Instances) /\ Append(seen, i) \in Seq(Instances)
    OBVIOUS
  <1>2. new \in {Append(now, i), Append(seen, i), now}
        /\ (now = seen => new = Append(now, i))
    BY DEF Outcomes
  <1>3. ASSUME new = Append(now, i)
        PROVE  Entries(new) = Entries(now) \cup {i}
    <2>1. /\ Len(now) \in Nat /\ DOMAIN now = 1 .. Len(now)
          /\ DOMAIN new = 1 .. (Len(now) + 1)
          /\ \A k \in 1 .. Len(now) : new[k] = now[k]
          /\ new[Len(now) + 1] = i
      BY <1>3
    <2>2. DOMAIN new = DOMAIN now \cup {Len(now) + 1}
      BY <2>1
    <2> QED BY <2>1, <2>2 DEF Entries
  <1> QED BY <1>1, <1>2, <1>3

LEMMA TokensOf ==
  ASSUME NEW defs, NEW refs
  PROVE  UNION {{tokens[k] : k \in DOMAIN tokens} : tokens \in {defs, refs}}
           = Entries(defs) \cup Entries(refs)
  BY DEF Entries

(***************************************************************************)
(* A thread adds its tokens to a vector, or spoils it: the references are  *)
(* as before, and without a race the new tokens' ModuleID has an entry.    *)
(***************************************************************************)
LEMMA AppendsOn ==
  ASSUME CacheInv, NEW t \in Threads, NEW p \in Place,
         pc' = [pc EXCEPT ![t] = p],
         pc[t].at \in {"add_defs", "add_refs"},
         p = Idle \/ (p.at = "refs" /\ p.of = pc[t].of),
         UNCHANGED <<world, imports, m_MetadataImportByModuleId>>,
         m_TypeDefinitionTokens' \in Seq(Instances),
         m_TypeReferenceTokens' \in Seq(Instances),
         raced' \in BOOLEAN, raced => raced', ~overlapped => ~raced',
         ~raced' => Tokens' = Tokens \cup {pc[t].of}
  PROVE  CacheInv'
  <1>1. PICK i \in Instances :
          /\ i = pc[t].of /\ i[1] \in Modules /\ i[2] \in Generations
          /\ i[2] = generation[i[1]]
    BY PlaceOf
  <1>2. \A m \in Modules : m_MetadataImportByModuleId'[m] <= generation[m]
    BY DEF CacheInv, Places
  <1>3. /\ \A u \in Threads : pc'[u] = IF u = t THEN p ELSE pc[u]
        /\ p = Idle => p.at = "idle"
        /\ \A u \in Threads : Loading(u)' => Loading(u) /\ pc'[u].of = pc[u].of
        /\ \A u \in Threads :
             pc'[u].at \in {"import", "insert", "add_defs", "add_refs"} =>
               u # t /\ pc'[u] = pc[u]
        /\ \A j \in Instances : Kept(j)' = Kept(j)
        /\ \A j \in Instances : Caching(j)' \subseteq Caching(j)
        /\ Places'
    BY <1>2, WritesOn
  <1> USE DEF CacheInv, world, clr
  <1>4. Shape'
    <2>1. pc' \in [Threads -> Place]
      BY DEF Shape
    <2> QED BY <2>1 DEF Shape
  <1>5. \A j \in Instances :
          Caching(j)' = Caching(j) /\ Cached(j)' = Cached(j) /\ Displaced(j)' = Displaced(j)
    BY <1>3 DEF Caching, Cached, Displaced
  <1>6. Ledger'
    <2>1. \A j \in Instances : Held(j)' => Held(j)
      BY <1>3, <1>5 DEF Held
    <2> QED BY <1>3, <2>1 DEF Ledger
  <1>7. Traced'
    BY <1>3, <1>5 DEF Traced
  <1>8. Resolved'
    <2> SUFFICES ASSUME ~raced' PROVE Resolved'
      BY DEF Resolved
    <2>1. \A u \in Threads :
            pc'[u].at \in {"defs", "add_defs", "refs", "add_refs"} =>
              m_MetadataImportByModuleId[pc'[u].of[1]] # 0
      BY <1>3 DEF Resolved
    <2>2. m_MetadataImportByModuleId[i[1]] \in 1 .. i[2]
      <3>1. m_MetadataImportByModuleId[i[1]] # 0
        BY <1>1 DEF Resolved
      <3>2. m_MetadataImportByModuleId[i[1]] \in Nat
        <4>1. m_MetadataImportByModuleId[i[1]] \in Generations \cup {0}
          BY <1>1 DEF Shape, Maps
        <4> QED BY <4>1, InstanceFacts
      <3>3. m_MetadataImportByModuleId[i[1]] <= i[2] /\ i[2] \in Nat
        BY <1>1, InstanceFacts DEF Places
      <3> QED BY <3>1, <3>2, <3>3
    <2>3. TokensResolvable'
      BY <1>1, <2>2 DEF TokensResolvable, Resolved
    <2> QED BY <2>1, <2>3 DEF Resolved
  <1>9. Serial'
    <2> SUFFICES ASSUME ~overlapped PROVE Serial'
      BY DEF Serial
    <2>1. Loading(t) /\ \A u, v \in Threads : Loading(u) /\ Loading(v) => u = v
      BY DEF Serial, Loading, LoadSteps
    <2>2. \A u \in Threads : pc'[u].at \notin {"insert", "add_defs", "add_refs"}
      BY <1>3, <2>1 DEF Loading, LoadSteps
    <2> QED BY <1>3, <2>1, <2>2 DEF Serial
  <1>10. ImportsReturned'
    BY PlaceOf DEF ImportsReturned
  <1> QED BY <1>3, <1>4, <1>6, <1>7, <1>8, <1>9, <1>10

LEMMA AppendDefinitionsStep ==
  ASSUME CacheInv, NEW t \in Threads, AppendDefinitions(t)
  PROVE  CacheInv'
  <1>1. pc[t].at = "add_defs"
    BY DEF AppendDefinitions
  <1>2. PICK i \in Instances : i = pc[t].of
    BY <1>1, PlaceOf
  <1>3. PICK now \in Seq(Instances), seen \in Seq(Instances) :
          now = m_TypeDefinitionTokens /\ seen = pc[t].seen
    BY <1>1 DEF CacheInv, Shape, Places
  <1>4. PICK p \in Place : p = At("refs", i, <<>>)
    BY PlaceTypes DEF LoadSteps
  <1>5. p.at = "refs" /\ p.of = i /\ pc' = [pc EXCEPT ![t] = p]
    BY <1>2, <1>4, PlaceFacts DEF AppendDefinitions, Goes
  <1>6. PICK new \in Outcomes(now, seen, Append(now, i), Append(seen, i)) :
          new = m_TypeDefinitionTokens'
    BY <1>2, <1>3 DEF AppendDefinitions
  <1>7. /\ new \in Seq(Instances)
        /\ now = seen =>
             Entries(new) = Entries(now) \cup {i}
    BY <1>3, <1>6, AppendOutcome
  <1>8. /\ UNCHANGED <<world, imports, m_MetadataImportByModuleId,
                       m_TypeReferenceTokens>>
        /\ raced' = (raced \/ now # seen)
    BY <1>3 DEF AppendDefinitions
  <1>9. ~raced' => Tokens' = Tokens \cup {i}
    <2>1. Tokens = Entries(m_TypeDefinitionTokens) \cup Entries(m_TypeReferenceTokens)
      BY TokensOf, Zenon DEF Tokens
    <2>2. Tokens' = Entries(m_TypeDefinitionTokens') \cup Entries(m_TypeReferenceTokens')
      BY TokensOf, Zenon DEF Tokens
    <2> QED BY <1>3, <1>6, <1>7, <1>8, <2>1, <2>2
  <1>10. ~overlapped => now = seen /\ ~raced
    BY <1>1, <1>3 DEF CacheInv, Serial
  <1>11. m_TypeReferenceTokens \in Seq(Instances) /\ raced \in BOOLEAN
    BY DEF CacheInv, Shape
  <1> QED BY <1>1, <1>2, <1>5, <1>6, <1>7, <1>8, <1>9, <1>10, <1>11, AppendsOn

LEMMA AppendReferencesStep ==
  ASSUME CacheInv, NEW t \in Threads, AppendReferences(t)
  PROVE  CacheInv'
  <1>1. pc[t].at = "add_refs"
    BY DEF AppendReferences
  <1>2. PICK i \in Instances : i = pc[t].of
    BY <1>1, PlaceOf
  <1>3. PICK now \in Seq(Instances), seen \in Seq(Instances) :
          now = m_TypeReferenceTokens /\ seen = pc[t].seen
    BY <1>1 DEF CacheInv, Shape, Places
  <1>4. PICK p \in Place : p = Idle
    BY PlaceTypes
  <1>5. pc' = [pc EXCEPT ![t] = p]
    BY <1>4 DEF AppendReferences, Returns
  <1>6. PICK new \in Outcomes(now, seen, Append(now, i), Append(seen, i)) :
          new = m_TypeReferenceTokens'
    BY <1>2, <1>3 DEF AppendReferences
  <1>7. /\ new \in Seq(Instances)
        /\ now = seen =>
             Entries(new) = Entries(now) \cup {i}
    BY <1>3, <1>6, AppendOutcome
  <1>8. /\ UNCHANGED <<world, imports, m_MetadataImportByModuleId,
                       m_TypeDefinitionTokens>>
        /\ raced' = (raced \/ now # seen)
    BY <1>3 DEF AppendReferences
  <1>9. ~raced' => Tokens' = Tokens \cup {i}
    <2>1. Tokens = Entries(m_TypeDefinitionTokens) \cup Entries(m_TypeReferenceTokens)
      BY TokensOf, Zenon DEF Tokens
    <2>2. Tokens' = Entries(m_TypeDefinitionTokens') \cup Entries(m_TypeReferenceTokens')
      BY TokensOf, Zenon DEF Tokens
    <2> QED BY <1>3, <1>6, <1>7, <1>8, <2>1, <2>2
  <1>10. ~overlapped => now = seen /\ ~raced
    BY <1>1, <1>3 DEF CacheInv, Serial
  <1>11. m_TypeDefinitionTokens \in Seq(Instances) /\ raced \in BOOLEAN
    BY DEF CacheInv, Shape
  <1> QED BY <1>1, <1>2, <1>4, <1>5, <1>6, <1>7, <1>8, <1>9, <1>10, <1>11, AppendsOn

-----------------------------------------------------------------------------
LEMMA CacheNext == ASSUME CacheInv, [Next]_vars PROVE CacheInv'
  <1>1. ASSUME NEW t \in Threads, NEW m \in Modules,
               ModuleLoadFinished(t, m) \/ JITCompilationStarted(t, m)
        PROVE  CacheInv'
    BY <1>1, LoadStep, JITStep
  <1>2. ASSUME NEW t \in Threads, Working(t) PROVE CacheInv'
    BY <1>2, ImportRefusedStep, GetImportStep, FindEntryStep, InsertStep,
       ListDefinitionsStep, AppendDefinitionsStep, ListReferencesStep,
       AppendReferencesStep, NameStep DEF Working
  <1>3. ASSUME NEW m \in Modules, ModuleUnloads(m) PROVE CacheInv'
    BY <1>3, UnloadStep
  <1>4. CASE ReleaseMetadataCache
    BY <1>4, ReleaseStep
  <1>5. CASE UNCHANGED vars
    <2>1. UNCHANGED <<m_CanUseV2Interfaces, m_MetadataImportByModuleId,
            m_TypeDefinitionTokens, m_TypeReferenceTokens, alive, imports,
            generation, present, pc, overlapped, raced>>
      BY <1>5 DEF vars
    <2>2. Shape' /\ Places' /\ Serial'
      BY <2>1 DEF CacheInv, Shape, Places, Serial, Loading
    <2>3. Ledger' /\ Traced'
      BY <2>1 DEF CacheInv, Ledger, Traced, Kept, Held, Cached, Caching,
                  Naming, Displaced
    <2>4. Resolved' /\ ImportsReturned'
      BY <2>1 DEF CacheInv, Resolved, TokensResolvable, Tokens,
                  ImportsReturned, Displaced
    <2> QED BY <2>2, <2>3, <2>4 DEF CacheInv
  <1> QED BY <1>1, <1>2, <1>3, <1>4, <1>5 DEF Next, Finished

LEMMA CacheIsSound == Spec => []CacheInv
  BY CacheInit, CacheNext, PTL DEF Spec

\* What the invariant says about the properties of the runs.
LEMMA CacheImplies ==
  ASSUME CacheInv
  PROVE  TypeOK /\ SafeWhenSerial /\ ImportsAccounted /\ TokensResolvable
  <1>1. TypeOK
    BY DEF CacheInv, Shape, Places, Maps, TypeOK
  <1>2. SafeWhenSerial /\ TokensResolvable
    BY DEF CacheInv, Serial, SafeWhenSerial, Resolved, TokensResolvable
  <1>3. ImportsAccounted
    <2> SUFFICES ASSUME alive, ~raced, NEW i \in Instances
                 PROVE  /\ Kept(i) \in {0, 1}
                        /\ Kept(i) = 1 => Cached(i) \/ Caching(i) # {} \/ Displaced(i)
                        /\ Cached(i) \/ Caching(i) # {} => Kept(i) = 1
      BY DEF ImportsAccounted, Kept
    <2> QED BY DEF CacheInv, Ledger, Traced, Held
  <1> QED BY <1>1, <1>2, <1>3

\* The variables have their types, and a callback at work is about a module
\* instance.
THEOREM CacheTypes == Spec => []TypeOK
  BY CacheIsSound, CacheImplies, PTL

\* Loads that follow one another never write a container from a stale
\* reading, whatever the other callbacks of the profiler do meanwhile.
THEOREM SerialLoadsAreSafe == Spec => []SafeWhenSerial
  BY CacheIsSound, CacheImplies, PTL

\* As long as callbacks do not race, every reference on a metadata import is
\* a borrowed one, or the kept one of the cache, of a load on its way there,
\* or of a module whose ModuleID had an entry already; and the destructor
\* gives all of them back but the last kind.
THEOREM ImportsAreBalanced == Spec => []ImportsBalanced
  <1>1. CacheInv => ImportsBalanced
    BY CacheImplies DEF CacheInv, ImportsBalanced
  <1> QED BY <1>1, CacheIsSound, PTL

\* As long as callbacks do not race, every cached token belongs to a module
\* whose ModuleID has an import in the cache, its own or an older one.
THEOREM TokensAreResolvable == Spec => []TokensResolvable
  BY CacheIsSound, CacheImplies, PTL

-----------------------------------------------------------------------------
LEMMA ExtendsFacts ==
  ASSUME NEW s \in Seq(Instances), NEW i \in Instances
  PROVE  Extends(s, s) /\ Extends(s, Append(s, i))
  <1>1. Len(s) \in Nat /\ Len(Append(s, i)) = Len(s) + 1
    OBVIOUS
  <1>2. SubSeq(s, 1, Len(s)) = s
    OBVIOUS
  <1>3. SubSeq(Append(s, i), 1, Len(s)) = s
    OBVIOUS
  <1> QED BY <1>1, <1>2, <1>3 DEF Extends

\* Only the three writing steps touch a container, and without a race they
\* write to what they have seen.
LEMMA GrowsStep ==
  ASSUME CacheInv, [Next]_vars, ~raced'
  PROVE  /\ \A m \in Modules :
              m_MetadataImportByModuleId[m] # 0 =>
                m_MetadataImportByModuleId'[m] = m_MetadataImportByModuleId[m]
         /\ Extends(m_TypeDefinitionTokens, m_TypeDefinitionTokens')
         /\ Extends(m_TypeReferenceTokens, m_TypeReferenceTokens')
  <1>1. /\ m_TypeDefinitionTokens \in Seq(Instances)
        /\ m_TypeReferenceTokens \in Seq(Instances)
        /\ m_MetadataImportByModuleId \in Maps
    BY DEF CacheInv, Shape
  <1>2. /\ Extends(m_TypeDefinitionTokens, m_TypeDefinitionTokens)
        /\ Extends(m_TypeReferenceTokens, m_TypeReferenceTokens)
    BY <1>1, CacheAssumption DEF Extends
  <1>3. ASSUME NEW t \in Threads, InsertEntry(t)
        PROVE  /\ \A m \in Modules :
                    m_MetadataImportByModuleId[m] # 0 =>
                      m_MetadataImportByModuleId'[m] = m_MetadataImportByModuleId[m]
               /\ UNCHANGED <<m_TypeDefinitionTokens, m_TypeReferenceTokens>>
    <2>1. m_MetadataImportByModuleId = pc[t].seen
      BY <1>3 DEF InsertEntry
    <2>2. m_MetadataImportByModuleId' =
            [m_MetadataImportByModuleId EXCEPT ![pc[t].of[1]] = pc[t].of[2]]
      BY <1>3, <2>1 DEF InsertEntry, Outcomes
    <2>3. m_MetadataImportByModuleId[pc[t].of[1]] = 0
      BY <1>3, <2>1 DEF InsertEntry, CacheInv, Places
    <2> QED BY <1>1, <1>3, <2>2, <2>3 DEF InsertEntry, Maps
  <1>4. ASSUME NEW t \in Threads, AppendDefinitions(t)
        PROVE  /\ Extends(m_TypeDefinitionTokens, m_TypeDefinitionTokens')
               /\ UNCHANGED <<m_MetadataImportByModuleId, m_TypeReferenceTokens>>
    <2>1. pc[t].of \in Instances
      BY <1>4, PlaceOf DEF AppendDefinitions
    <2>2. m_TypeDefinitionTokens' = Append(m_TypeDefinitionTokens, pc[t].of)
      BY <1>4 DEF AppendDefinitions, Outcomes
    <2> QED BY <1>1, <1>4, <2>1, <2>2, ExtendsFacts DEF AppendDefinitions
  <1>5. ASSUME NEW t \in Threads, AppendReferences(t)
        PROVE  /\ Extends(m_TypeReferenceTokens, m_TypeReferenceTokens')
               /\ UNCHANGED <<m_MetadataImportByModuleId, m_TypeDefinitionTokens>>
    <2>1. pc[t].of \in Instances
      BY <1>5, PlaceOf DEF AppendReferences
    <2>2. m_TypeReferenceTokens' = Append(m_TypeReferenceTokens, pc[t].of)
      BY <1>5 DEF AppendReferences, Outcomes
    <2> QED BY <1>1, <1>5, <2>1, <2>2, ExtendsFacts DEF AppendReferences
  <1>6. CASE \E t \in Threads :
               InsertEntry(t) \/ AppendDefinitions(t) \/ AppendReferences(t)
    BY <1>2, <1>3, <1>4, <1>5, <1>6
  <1>7. CASE ~ \E t \in Threads :
               InsertEntry(t) \/ AppendDefinitions(t) \/ AppendReferences(t)
    <2>1. UNCHANGED containers
      BY <1>7 DEF Next, Working, Finished, vars, containers,
           ModuleLoadFinished, JITCompilationStarted, ImportRefused,
           GetMetadataImportByModuleID, FindEntry, ListDefinitions,
           ListReferences, GetFullMethodName, ModuleUnloads,
           ReleaseMetadataCache
    <2> QED BY <1>2, <2>1 DEF containers
  <1> QED BY <1>6, <1>7

\* As long as callbacks do not race, no entry of the cache is replaced and no
\* token is dropped.
THEOREM CacheGrows == Spec => CacheOnlyGrows
  BY CacheIsSound, GrowsStep, PTL DEF Spec, CacheOnlyGrows
=============================================================================
