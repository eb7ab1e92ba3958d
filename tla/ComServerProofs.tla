-------------------------- MODULE ComServerProofs --------------------------
(***************************************************************************)
(* The safety properties of ComServer, for every finite set of threads and *)
(* objects and every bound.                                                *)
(***************************************************************************)
EXTENDS ComServer, FiniteSetTheorems, TLAPS

\* Abbreviations of the model that no proof step is about.
USE DEF server, host, CountObject, DiscountObject, Last

-----------------------------------------------------------------------------
(***************************************************************************)
(* The inductive invariant: the four counting properties, what each thread *)
(* must be holding at each step, and what the profilers' fields may be.    *)
(***************************************************************************)
PlaceOK(t) ==
  /\ pc[t].at = "idle" => pc[t] = Idle
  /\ pc[t].on # None => refs[pc[t].on] > 0
  /\ pc[t].at = "create" => pc[t].on \in Factories
  /\ pc[t].at = "addref" => pc[t].on \in Objects
  /\ pc[t].at = "callback" => /\ pc[t].on \in Profilers
                              /\ fields[pc[t].on].info = "ref"
  /\ pc[t].at \in {"query", "release", "test", "unlock"} =>
       pc[t].obj \in Objects
  /\ pc[t].at = "dtor" => pc[t].obj \in Profilers
  /\ pc[t].at = "unlock" /\ pc[t].obj \in Profilers =>
       /\ fields[pc[t].obj].info # "ref"
       /\ fields[pc[t].obj].info2 # "ref"

PlacesOK == \A t \in Threads : PlaceOK(t)

FieldsOK ==
  \A p \in Profilers :
    /\ p \notin alloc => fields[p] = Indeterminate
    /\ fields[p].info = "uninit" => fields[p].info2 = "uninit"
    /\ fields[p].info = "ref" /\ fields[p].v2 = "yes" =>
         fields[p].info2 = "ref"

Holding1 == {p \in Profilers : fields[p].info = "ref"}
Holding2 == {p \in Profilers : fields[p].info2 = "ref"}

ClrRefsExact == clrRefs = Cardinality(Holding1) + Cardinality(Holding2)

UnloadedIdle ==
  ~loaded => /\ alloc = {} /\ locks = 0
             /\ \A t \in Threads : pc[t] = Idle

IInv ==
  /\ TypeOK
  /\ PlacesOK
  /\ FieldsOK
  /\ RefCountExact
  /\ OneDestroyer
  /\ LockCountExact
  /\ ClrRefsExact
  /\ UnloadedIdle

-----------------------------------------------------------------------------
\* The threads giving a reference to an object back can be counted.
LEMMA ReleasingFinite ==
  ASSUME NEW o
  PROVE  /\ IsFiniteSet(Releasing(o))
         /\ Cardinality(Releasing(o)) \in Nat
<1>1. Releasing(o) \in SUBSET Threads
  BY DEF Releasing
<1>2. QED
  BY <1>1, ThreadsAssumption, FS_Subset, FS_CardinalityType

\* The objects that exist can be counted, and one more or less counts one.
LEMMA AllocFinite ==
  ASSUME TypeOK
  PROVE  /\ IsFiniteSet(alloc)
         /\ Cardinality(alloc) \in Nat
         /\ \A o : o \notin alloc =>
              Cardinality(alloc \cup {o}) = Cardinality(alloc) + 1
         /\ \A o \in alloc : Cardinality(alloc \ {o}) = Cardinality(alloc) - 1
<1>1. IsFiniteSet(Objects)
  BY ObjectsAssumption, FS_Union DEF Objects
<1>2. IsFiniteSet(alloc)
  BY <1>1, FS_Subset DEF TypeOK
<1>3. QED
  BY <1>2, FS_CardinalityType, FS_AddElement, FS_RemoveElement

(***************************************************************************)
(* A step of t that neither enters nor leaves "release" leaves every count *)
(* of pending releases as it was.                                          *)
(***************************************************************************)
LEMMA ReleasingFrame ==
  ASSUME NEW t \in Threads, NEW o,
         \A u \in Threads \ {t} : pc'[u] = pc[u],
         pc[t].at # "release", pc'[t].at # "release"
  PROVE  Releasing(o)' = Releasing(o)
BY DEF Releasing

\* A thread that enters Release counts for its object and for no other.
LEMMA ReleasingAdd ==
  ASSUME NEW t \in Threads, NEW o, NEW q,
         \A u \in Threads \ {t} : pc'[u] = pc[u],
         pc[t].at # "release", pc'[t].at = "release", pc'[t].obj = o
  PROVE  /\ Cardinality(Releasing(o))' = Cardinality(Releasing(o)) + 1
         /\ q # o => Releasing(q)' = Releasing(q)
<1>1. Releasing(o)' = Releasing(o) \cup {t} /\ t \notin Releasing(o)
  BY DEF Releasing
<1>2. q # o => Releasing(q)' = Releasing(q)
  BY DEF Releasing
<1>3. QED
  BY <1>1, <1>2, ReleasingFinite, FS_AddElement

\* A thread that has decremented the counter counts no longer.
LEMMA ReleasingRemove ==
  ASSUME NEW t \in Threads, NEW o, NEW q,
         \A u \in Threads \ {t} : pc'[u] = pc[u],
         pc[t].at = "release", pc[t].obj = o, pc'[t].at # "release"
  PROVE  /\ Cardinality(Releasing(o))' = Cardinality(Releasing(o)) - 1
         /\ q # o => Releasing(q)' = Releasing(q)
<1>1. Releasing(o)' = Releasing(o) \ {t} /\ t \in Releasing(o)
  BY DEF Releasing
<1>2. q # o => Releasing(q)' = Releasing(q)
  BY DEF Releasing
<1>3. QED
  BY <1>1, <1>2, ReleasingFinite, FS_RemoveElement

\* An object some client holds, or is giving back, has no owner thread.
LEMMA HeldNotOwned ==
  ASSUME IInv, NEW o \in Objects, refs[o] > 0 \/ Releasing(o) # {}
  PROVE  /\ o \in alloc
         /\ m_nRefCount[o] > 0
         /\ \A u \in Threads : Owns(u) => pc[u].obj # o
<1>1. o \in alloc
  BY DEF IInv, RefCountExact, TypeOK
<1>2. Releasing(o) # {} => Cardinality(Releasing(o)) # 0
  BY ReleasingFinite, FS_EmptySet
<1>3. m_nRefCount[o] > 0
  BY <1>1, <1>2, ReleasingFinite DEF IInv, RefCountExact, TypeOK
<1>4. QED
  BY <1>1, <1>3 DEF IInv, OneDestroyer

\* The profilers that hold a CLR pointer can be counted.
LEMMA HoldingFinite ==
  /\ IsFiniteSet(Holding1) /\ Cardinality(Holding1) \in Nat
  /\ IsFiniteSet(Holding2) /\ Cardinality(Holding2) \in Nat
<1>1. Holding1 \in SUBSET Profilers /\ Holding2 \in SUBSET Profilers
  BY DEF Holding1, Holding2
<1>2. QED
  BY <1>1, ObjectsAssumption, FS_Subset, FS_CardinalityType

\* What adding p to a finite set, or taking p out of it, does to its size.
LEMMA SizeStep ==
  ASSUME NEW S, IsFiniteSet(S), NEW p
  PROVE  /\ p \notin S => Cardinality(S \cup {p}) = Cardinality(S) + 1
         /\ p \in S => Cardinality(S \ {p}) = Cardinality(S) - 1
         /\ p \notin S => Cardinality(S \ {p}) = Cardinality(S)
<1>1. p \notin S => S \ {p} = S
  OBVIOUS
<1>2. QED
  BY <1>1, FS_AddElement, FS_RemoveElement

\* No counter is at zero where the code counts down.
LEMMA CountsPositive ==
  ASSUME IInv, NEW t \in Threads
  PROVE  /\ pc[t].at = "release" => m_nRefCount[pc[t].obj] > 0
         /\ pc[t].at = "unlock" => g_DllLockCount > 0
         /\ locks > 0 => g_DllLockCount > 0
         /\ pc[t].at = "dtor" => ClrRefsOf(pc[t].obj) <= clrRefs
<1>1. TypeOK /\ PlacesOK
  BY DEF IInv
<1>2. Cardinality(alloc) \in Nat /\ g_DllLockCount = Cardinality(alloc) + locks
  BY <1>1, AllocFinite DEF IInv, LockCountExact
<1>3. locks \in Nat /\ clrRefs \in Nat
  BY <1>1 DEF TypeOK
<1>4. ASSUME pc[t].at = "release"
      PROVE  m_nRefCount[pc[t].obj] > 0
  <2>1. PICK o \in Objects : pc[t].obj = o
    BY <1>1, <1>4 DEF PlacesOK, PlaceOK
  <2>2. t \in Releasing(o)
    BY <1>4, <2>1 DEF Releasing
  <2>3. QED
    BY <2>1, <2>2, HeldNotOwned
<1>5. ASSUME pc[t].at = "unlock"
      PROVE  g_DllLockCount > 0
  <2>1. pc[t].obj \in alloc
    BY <1>5 DEF IInv, OneDestroyer, Owns
  <2>2. Cardinality(alloc) # 0
    BY <1>1, <2>1, AllocFinite, FS_EmptySet
  <2>3. QED
    BY <1>2, <1>3, <2>2
<1>6. ASSUME pc[t].at = "dtor"
      PROVE  ClrRefsOf(pc[t].obj) <= clrRefs
  <2>1. pc[t].obj \in Profilers
    BY <1>1, <1>6 DEF PlacesOK, PlaceOK
  <2>2. fields[pc[t].obj].info = "ref" => Cardinality(Holding1) # 0
    BY <2>1, HoldingFinite, FS_EmptySet DEF Holding1
  <2>3. fields[pc[t].obj].info2 = "ref" => Cardinality(Holding2) # 0
    BY <2>1, HoldingFinite, FS_EmptySet DEF Holding2
  <2>4. clrRefs = Cardinality(Holding1) + Cardinality(Holding2)
    BY DEF IInv, ClrRefsExact
  <2>5. QED
    BY <2>2, <2>3, <2>4, HoldingFinite DEF ClrRefsOf
<1>7. QED
  BY <1>2, <1>3, <1>4, <1>5, <1>6

-----------------------------------------------------------------------------
(***************************************************************************)
(* The steps of one thread, listed once.                                   *)
(***************************************************************************)
ThreadStep(t) == fault = "none" /\ (Call(t) \/ Continue(t))

\* A thread's step keeps the types: no counter is decremented at zero.
LEMMA TypeStep ==
  ASSUME IInv, NEW t \in Threads, ThreadStep(t)
  PROVE  TypeOK'
<1>types. TypeOK /\ PlacesOK
  BY DEF IInv
<1>counts. /\ pc[t].at = "release" => m_nRefCount[pc[t].obj] > 0
           /\ pc[t].at = "unlock" => g_DllLockCount > 0
           /\ locks > 0 => g_DllLockCount > 0
           /\ pc[t].at = "dtor" => ClrRefsOf(pc[t].obj) <= clrRefs
  BY CountsPositive
<1> USE <1>types DEF TypeOK, At, Idle, Steps, Enters, Returns, Objects
<1>1. CASE DllGetClassObject(t)
  BY <1>1 DEF DllGetClassObject
<1>2. CASE GetClassRefused(t)
  BY <1>2 DEF GetClassRefused
<1>3. CASE NewFactory(t)
  BY <1>3 DEF NewFactory, Construct
<1>4. ASSUME NEW f \in Factories, CreateInstance(t, f)
      PROVE  TypeOK'
  BY <1>4 DEF CreateInstance
<1>5. CASE CreateRefused(t)
  BY <1>5 DEF CreateRefused
<1>6. CASE NewProfiler(t)
  BY <1>6 DEF NewProfiler, Construct
<1>7. CASE NewProfilerThrows(t)
  BY <1>7 DEF NewProfilerThrows
<1>8. CASE QueryGranted(t)
  BY <1>8 DEF QueryGranted, PlacesOK, PlaceOK
<1>9. CASE QueryRefused(t)
  BY <1>9 DEF QueryRefused, DestructorOf
<1>10. ASSUME NEW o \in Objects, AddRef(t, o)
       PROVE  TypeOK'
  BY <1>10 DEF AddRef
<1>11. CASE Increment(t)
  BY <1>11 DEF Increment, PlacesOK, PlaceOK
<1>12. CASE NoInterface(t)
  BY <1>12 DEF NoInterface
<1>13. ASSUME NEW o \in Objects, Release(t, o)
       PROVE  TypeOK'
  BY <1>13 DEF Release
<1>14. CASE Decrement(t)
  <2>1. pc[t].obj \in Objects /\ m_nRefCount[pc[t].obj] > 0
    BY <1>14, <1>counts DEF Decrement, PlacesOK, PlaceOK
  <2>2. QED
    BY <1>14, <2>1 DEF Decrement
<1>15. CASE TestCount(t)
  BY <1>15 DEF TestCount, DestructorOf
<1>16. CASE ReleasePointers(t)
  <2>1. pc[t].obj \in Profilers
    BY <1>16 DEF ReleasePointers, PlacesOK, PlaceOK
  <2>2. fields' \in [Profilers -> [info  : {"uninit", "null", "ref"},
                                   info2 : {"uninit", "null", "ref"},
                                   v2    : {"uninit", "yes", "no"}]]
    BY <1>16, <2>1 DEF ReleasePointers
  <2>3. clrRefs - ClrRefsOf(pc[t].obj) \in Nat
    BY <1>16, <1>counts DEF ReleasePointers, ClrRefsOf
  <2>4. clrRefs' \in Nat
    BY <1>16, <2>3 DEF ReleasePointers
  <2>5. pc' = [pc EXCEPT ![t].at = "unlock"]
    BY <1>16 DEF ReleasePointers
  <2>6. QED
    BY <1>16, <2>2, <2>4, <2>5 DEF ReleasePointers
<1>17. CASE ReleaseIndeterminate(t)
  BY <1>17 DEF ReleaseIndeterminate
<1>18. CASE DllUnlock(t)
  BY <1>18, <1>counts DEF DllUnlock, Indeterminate
<1>19. CASE Leave(t)
  BY <1>19 DEF Leave
<1>20. ASSUME NEW f \in Factories, NEW b \in BOOLEAN, LockServer(t, f, b)
       PROVE  TypeOK'
  BY <1>20, <1>counts DEF LockServer
<1>21. ASSUME NEW p \in Profilers, Initialize(t, p)
       PROVE  TypeOK'
  BY <1>21 DEF Initialize
<1>22. ASSUME NEW p \in Profilers, Callback(t, p)
       PROVE  TypeOK'
  BY <1>22 DEF Callback
<1>23. CASE CallbackReturns(t)
  BY <1>23 DEF CallbackReturns
<1>24. QED
  BY <1>1, <1>2, <1>3, <1>4, <1>5, <1>6, <1>7, <1>8, <1>9, <1>10, <1>11,
     <1>12, <1>13, <1>14, <1>15, <1>16, <1>17, <1>18, <1>19, <1>20, <1>21,
     <1>22, <1>23 DEF ThreadStep, Call, Continue

-----------------------------------------------------------------------------
(***************************************************************************)
(* For the counting properties the 23 kinds of step fall into nine: the    *)
(* quiet ones, which only move a thread; the two constructions; the two    *)
(* places that make a reference; and six steps of their own.               *)
(***************************************************************************)
Quiet(t) ==
  /\ UNCHANGED <<g_DllLockCount, alloc, m_nRefCount, fields, clrRefs, refs,
                 locks, loaded>>
  /\ \A u \in Threads \ {t} : pc'[u] = pc[u]
  /\ pc[t].at # "release" /\ pc'[t].at # "release"
  /\ Owns(t)' <=> Owns(t)
  /\ Owns(t) => pc'[t].obj = pc[t].obj
  /\ pc'[t].at = "query" => pc[t].at = "query"

Creates(t, o) ==
  /\ Construct(o)
  /\ pc[t].at \in {"getclass", "create"}
  /\ \A u \in Threads \ {t} : pc'[u] = pc[u]
  /\ pc'[t].at = "query"
  /\ pc'[t].on \in {None, pc[t].on}
  /\ pc'[t].obj = o

MakesRef(t, o) ==
  /\ \/ pc[t].at = "query" /\ o = pc[t].obj
     \/ pc[t].at = "addref" /\ o = pc[t].on
  /\ m_nRefCount' = [m_nRefCount EXCEPT ![o] = @ + 1]
  /\ refs' = [refs EXCEPT ![o] = @ + 1]
  /\ Returns(t)
  /\ UNCHANGED <<g_DllLockCount, alloc, fields, clrRefs, locks, loaded>>

\* The actions that only move a thread are quiet steps.
LEMMA QuietSteps ==
  ASSUME TypeOK, PlacesOK, NEW t \in Threads,
         \/ DllGetClassObject(t) \/ GetClassRefused(t)
         \/ \E f \in Factories : CreateInstance(t, f)
         \/ CreateRefused(t) \/ NewProfilerThrows(t) \/ QueryRefused(t)
         \/ \E o \in Objects : AddRef(t, o)
         \/ NoInterface(t) \/ TestCount(t) \/ ReleaseIndeterminate(t)
         \/ Leave(t)
         \/ \E p \in Profilers : Callback(t, p)
         \/ CallbackReturns(t)
  PROVE  Quiet(t)
<1> USE DEF TypeOK, Quiet, Owns, Enters, Returns, At, Idle
<1>1. CASE DllGetClassObject(t)
  BY <1>1 DEF DllGetClassObject
<1>2. CASE GetClassRefused(t)
  BY <1>2 DEF GetClassRefused
<1>3. CASE \E f \in Factories : CreateInstance(t, f)
  BY <1>3 DEF CreateInstance
<1>4. CASE CreateRefused(t)
  BY <1>4 DEF CreateRefused
<1>5. CASE NewProfilerThrows(t)
  BY <1>5 DEF NewProfilerThrows
<1>6. CASE QueryRefused(t)
  BY <1>6 DEF QueryRefused, DestructorOf
<1>7. CASE \E o \in Objects : AddRef(t, o)
  BY <1>7 DEF AddRef
<1>8. CASE NoInterface(t)
  BY <1>8 DEF NoInterface
<1>9. CASE TestCount(t)
  BY <1>9 DEF TestCount, DestructorOf
<1>10. CASE ReleaseIndeterminate(t)
  BY <1>10 DEF ReleaseIndeterminate
<1>11. CASE Leave(t)
  BY <1>11 DEF Leave
<1>12. CASE \E p \in Profilers : Callback(t, p)
  BY <1>12 DEF Callback
<1>13. CASE CallbackReturns(t)
  BY <1>13 DEF CallbackReturns
<1>14. QED
  BY <1>1, <1>2, <1>3, <1>4, <1>5, <1>6, <1>7, <1>8, <1>9, <1>10, <1>11,
     <1>12, <1>13

\* Every step of a thread is quiet or of one of the kinds defined above.
LEMMA StepKinds ==
  ASSUME IInv, NEW t \in Threads, ThreadStep(t)
  PROVE  \/ Quiet(t)
         \/ \E o \in Objects : Creates(t, o)
         \/ \E o \in Objects : MakesRef(t, o)
         \/ \E o \in Objects : Release(t, o)
         \/ Decrement(t)
         \/ ReleasePointers(t)
         \/ DllUnlock(t)
         \/ \E f \in Factories, b \in BOOLEAN : LockServer(t, f, b)
         \/ \E p \in Profilers : Initialize(t, p)
<1>1. CASE NewFactory(t) \/ NewProfiler(t)
  <2>1. CASE NewFactory(t)
    BY <2>1 DEF IInv, TypeOK, NewFactory, Creates, At, Objects
  <2>2. CASE NewProfiler(t)
    BY <2>2 DEF IInv, TypeOK, NewProfiler, Creates, At, Objects
  <2>3. QED
    BY <1>1, <2>1, <2>2
<1>2. CASE QueryGranted(t) \/ Increment(t)
  <2>1. \E o \in Objects : MakesRef(t, o)
    BY <1>2 DEF IInv, PlacesOK, PlaceOK, QueryGranted, Increment, MakesRef
  <2>2. QED
    BY <2>1
<1>3. QED
  BY <1>1, <1>2, QuietSteps DEF IInv, ThreadStep, Call, Continue

-----------------------------------------------------------------------------
\* A thread step finds the library loaded and leaves it loaded.
LEMMA StepsInLoaded ==
  ASSUME IInv, NEW t \in Threads, ThreadStep(t)
  PROVE  loaded /\ loaded'
<1>1. \A o \in Objects : refs[o] > 0 => loaded
  BY DEF IInv, RefCountExact, UnloadedIdle
<1>2. pc[t] # Idle => loaded
  BY DEF IInv, UnloadedIdle
<1>3. loaded
  BY <1>1, <1>2 DEF ThreadStep, Call, Continue, DllGetClassObject,
     CreateInstance, AddRef, Release, LockServer, Initialize, Callback,
     Objects, GetClassRefused, NewFactory, CreateRefused, NewProfiler,
     NewProfilerThrows, QueryGranted, QueryRefused, Increment, NoInterface,
     Decrement, TestCount, ReleasePointers, ReleaseIndeterminate, DllUnlock,
     Leave, CallbackReturns, Idle, At
<1>4. loaded' = loaded
  BY StepKinds DEF Quiet, Creates, Construct, MakesRef, Release, Decrement,
     ReleasePointers, DllUnlock, LockServer, Initialize
<1>5. QED
  BY <1>3, <1>4

\* A thread's step keeps g_DllLockCount exact.
LEMMA LockCountStep ==
  ASSUME IInv, NEW t \in Threads, ThreadStep(t)
  PROVE  LockCountExact'
<1> USE DEF LockCountExact
<1>1. LockCountExact /\ TypeOK
  BY DEF IInv
<1>2. CASE Quiet(t)
  BY <1>1, <1>2 DEF Quiet
<1>3. ASSUME NEW o \in Objects, Creates(t, o)
      PROVE  LockCountExact'
  BY <1>1, <1>3, AllocFinite DEF Creates, Construct, TypeOK
<1>4. ASSUME NEW o \in Objects, MakesRef(t, o)
      PROVE  LockCountExact'
  BY <1>1, <1>4 DEF MakesRef
<1>5. ASSUME NEW o \in Objects, Release(t, o)
      PROVE  LockCountExact'
  BY <1>1, <1>5 DEF Release
<1>6. CASE Decrement(t)
  BY <1>1, <1>6 DEF Decrement
<1>7. CASE ReleasePointers(t)
  BY <1>1, <1>7 DEF ReleasePointers
<1>8. CASE DllUnlock(t)
  <2>1. pc[t].obj \in alloc
    BY <1>8 DEF IInv, OneDestroyer, Owns, DllUnlock
  <2>2. QED
    BY <1>1, <1>8, <2>1, AllocFinite DEF DllUnlock, TypeOK
<1>9. ASSUME NEW f \in Factories, NEW b \in BOOLEAN, LockServer(t, f, b)
      PROVE  LockCountExact'
  <2>1. Cardinality(alloc) \in Nat /\ locks \in Nat
    BY <1>1, AllocFinite DEF TypeOK
  <2>2. QED
    BY <1>1, <1>9, <2>1 DEF LockServer
<1>10. ASSUME NEW p \in Profilers, Initialize(t, p)
       PROVE  LockCountExact'
  BY <1>1, <1>10 DEF Initialize
<1>11. QED
  BY StepKinds, <1>2, <1>3, <1>4, <1>5, <1>6, <1>7, <1>8, <1>9, <1>10

-----------------------------------------------------------------------------
\* A thread's step keeps every reference count exact.
LEMMA RefCountStep ==
  ASSUME IInv, NEW t \in Threads, ThreadStep(t)
  PROVE  RefCountExact'
<1> SUFFICES ASSUME NEW q \in Objects
             PROVE  IF q \in alloc'
                      THEN m_nRefCount'[q]
                             = refs'[q] + Cardinality(Releasing(q))'
                      ELSE refs'[q] = 0 /\ Releasing(q)' = {}
  BY DEF RefCountExact
<1>1. /\ IF q \in alloc
           THEN m_nRefCount[q] = refs[q] + Cardinality(Releasing(q))
           ELSE refs[q] = 0 /\ Releasing(q) = {}
      /\ Cardinality(Releasing(q)) \in Nat
      /\ Cardinality({}) = 0
      /\ TypeOK /\ PlacesOK
  BY ReleasingFinite, FS_EmptySet DEF IInv, RefCountExact
<1>2. CASE Quiet(t)
  BY <1>1, <1>2, ReleasingFrame DEF Quiet
<1>3. ASSUME NEW o \in Objects, Creates(t, o)
      PROVE  IF q \in alloc'
               THEN m_nRefCount'[q] = refs'[q] + Cardinality(Releasing(q))'
               ELSE refs'[q] = 0 /\ Releasing(q)' = {}
  <2>1. Releasing(q)' = Releasing(q)
    BY <1>3, ReleasingFrame DEF Creates
  <2>2. CASE q = o
    <3>1. q \in alloc' /\ q \notin alloc /\ m_nRefCount'[q] = 0 /\ refs' = refs
      BY <1>1, <1>3, <2>2 DEF Creates, Construct, TypeOK
    <3>2. refs[q] = 0 /\ Cardinality(Releasing(q))' = 0
      BY <1>1, <2>1, <3>1
    <3>3. QED
      BY <3>1, <3>2
  <2>3. CASE q # o
    BY <1>1, <1>3, <2>1, <2>3 DEF Creates, Construct, TypeOK
  <2>4. QED
    BY <2>2, <2>3
<1>4. ASSUME NEW o \in Objects, MakesRef(t, o)
      PROVE  IF q \in alloc'
               THEN m_nRefCount'[q] = refs'[q] + Cardinality(Releasing(q))'
               ELSE refs'[q] = 0 /\ Releasing(q)' = {}
  <2>1. Releasing(q)' = Releasing(q)
    <3>1. pc[t].at # "release" /\ pc'[t].at # "release"
      BY <1>1, <1>4 DEF MakesRef, Returns, Idle, At, TypeOK
    <3>2. \A u \in Threads \ {t} : pc'[u] = pc[u]
      BY <1>1, <1>4 DEF MakesRef, Returns, TypeOK
    <3>3. QED
      BY <3>1, <3>2, ReleasingFrame
  <2>2. o \in alloc
    <3>1. CASE pc[t].at = "query" /\ o = pc[t].obj
      BY <3>1 DEF IInv, OneDestroyer, Owns
    <3>2. CASE pc[t].at = "addref" /\ o = pc[t].on
      <4>1. refs[o] > 0
        BY <1>1, <3>2, ObjectsAssumption DEF PlacesOK, PlaceOK
      <4>2. QED
        BY <4>1 DEF IInv, RefCountExact
    <3>3. QED
      BY <1>4, <3>1, <3>2 DEF MakesRef
  <2>3. QED
    BY <1>1, <1>4, <2>1, <2>2 DEF MakesRef, TypeOK
<1>5. ASSUME NEW o \in Objects, Release(t, o)
      PROVE  IF q \in alloc'
               THEN m_nRefCount'[q] = refs'[q] + Cardinality(Releasing(q))'
               ELSE refs'[q] = 0 /\ Releasing(q)' = {}
  <2>1. /\ Cardinality(Releasing(o))' = Cardinality(Releasing(o)) + 1
        /\ q # o => Releasing(q)' = Releasing(q)
    <3>1. /\ \A u \in Threads \ {t} : pc'[u] = pc[u]
          /\ pc[t].at # "release"
          /\ pc'[t].at = "release" /\ pc'[t].obj = o
      BY <1>1, <1>5 DEF Release, Idle, At, TypeOK
    <3>2. QED
      BY <3>1, ReleasingAdd
  <2>2. o \in alloc
    BY <1>5 DEF IInv, RefCountExact, Release
  <2>3. QED
    BY <1>1, <1>5, <2>1, <2>2 DEF Release, TypeOK
<1>6. CASE Decrement(t)
  <2>1. PICK o \in Objects : pc[t].obj = o
    BY <1>1, <1>6 DEF Decrement, PlacesOK, PlaceOK
  <2>2. /\ Cardinality(Releasing(o))' = Cardinality(Releasing(o)) - 1
        /\ q # o => Releasing(q)' = Releasing(q)
    <3>1. /\ \A u \in Threads \ {t} : pc'[u] = pc[u]
          /\ pc[t].at = "release" /\ pc'[t].at # "release"
      BY <1>1, <1>6 DEF Decrement, At, TypeOK
    <3>2. QED
      BY <2>1, <3>1, ReleasingRemove
  <2>3. o \in alloc
    <3>1. t \in Releasing(o)
      BY <1>6, <2>1 DEF Decrement, Releasing
    <3>2. QED
      BY <2>1, <3>1 DEF IInv, RefCountExact
  <2>4. QED
    BY <1>1, <1>6, <2>1, <2>2, <2>3 DEF Decrement, TypeOK
<1>7. CASE ReleasePointers(t)
  <2>1. Releasing(q)' = Releasing(q)
    BY <1>1, <1>7, ReleasingFrame DEF ReleasePointers, TypeOK
  <2>2. QED
    BY <1>1, <1>7, <2>1 DEF ReleasePointers
<1>8. CASE DllUnlock(t)
  <2> DEFINE o == pc[t].obj
  <2>1. Releasing(q)' = Releasing(q)
    BY <1>1, <1>8, ReleasingFrame DEF DllUnlock, At, TypeOK
  <2>2. CASE q = o
    <3>1. o \in alloc /\ m_nRefCount[o] = 0
      BY <1>8 DEF IInv, OneDestroyer, Owns, DllUnlock
    <3>2. refs[q] = 0 /\ Cardinality(Releasing(q)) = 0
      BY <1>1, <2>2, <3>1 DEF TypeOK
    <3>3. Releasing(q) = {}
      BY <3>2, ReleasingFinite, FS_EmptySet
    <3>4. QED
      BY <1>8, <2>1, <2>2, <3>2, <3>3 DEF DllUnlock
  <2>3. CASE q # o
    BY <1>1, <1>8, <2>1, <2>3 DEF DllUnlock
  <2>4. QED
    BY <2>2, <2>3
<1>9. ASSUME NEW f \in Factories, NEW b \in BOOLEAN, LockServer(t, f, b)
      PROVE  IF q \in alloc'
               THEN m_nRefCount'[q] = refs'[q] + Cardinality(Releasing(q))'
               ELSE refs'[q] = 0 /\ Releasing(q)' = {}
  BY <1>1, <1>9 DEF LockServer, Releasing
<1>10. ASSUME NEW p \in Profilers, Initialize(t, p)
       PROVE  IF q \in alloc'
                THEN m_nRefCount'[q] = refs'[q] + Cardinality(Releasing(q))'
                ELSE refs'[q] = 0 /\ Releasing(q)' = {}
  BY <1>1, <1>10 DEF Initialize, Releasing
<1>11. QED
  BY StepKinds, <1>2, <1>3, <1>4, <1>5, <1>6, <1>7, <1>8, <1>9, <1>10

-----------------------------------------------------------------------------
\* A thread's step leaves each ownerless object in one thread's hands.
LEMMA OneDestroyerStep ==
  ASSUME IInv, NEW t \in Threads, ThreadStep(t)
  PROVE  OneDestroyer'
<1> USE DEF OneDestroyer
<1>1. OneDestroyer /\ TypeOK /\ PlacesOK
  BY DEF IInv
<1>2. CASE Quiet(t)
  <2>1. \A u \in Threads : /\ Owns(u)' <=> Owns(u)
                           /\ Owns(u) => pc'[u].obj = pc[u].obj
    BY <1>2 DEF Quiet, Owns
  <2>2. QED
    BY <1>1, <1>2, <2>1 DEF Quiet
<1>3. ASSUME NEW o \in Objects, Creates(t, o)
      PROVE  OneDestroyer'
  <2>1. ~Owns(t) /\ Owns(t)' /\ pc'[t].obj = o
    BY <1>3 DEF Creates, Owns
  <2>2. \A u \in Threads \ {t} : /\ Owns(u)' <=> Owns(u)
                                 /\ pc'[u].obj = pc[u].obj
    BY <1>3 DEF Creates, Owns
  <2>3. /\ alloc' = alloc \cup {o} /\ o \notin alloc
        /\ m_nRefCount'[o] = 0
        /\ \A q \in alloc : m_nRefCount'[q] = m_nRefCount[q]
    BY <1>1, <1>3 DEF Creates, Construct, TypeOK
  <2>4. QED
    BY <1>1, <2>1, <2>2, <2>3
<1>4. ASSUME NEW o \in Objects, MakesRef(t, o)
      PROVE  OneDestroyer'
  <2>1. ~Owns(t)'
    BY <1>1, <1>4 DEF MakesRef, Returns, Idle, At, Owns, TypeOK
  <2>2. \A u \in Threads \ {t} : /\ Owns(u)' <=> Owns(u)
                                 /\ pc'[u].obj = pc[u].obj
    BY <1>1, <1>4 DEF MakesRef, Returns, Owns, TypeOK
  <2>3. \/ Owns(t) /\ pc[t].obj = o /\ m_nRefCount[o] = 0
        \/ /\ ~Owns(t) /\ m_nRefCount[o] > 0
           /\ \A u \in Threads : Owns(u) => pc[u].obj # o
    <3>1. CASE pc[t].at = "query" /\ o = pc[t].obj
      BY <1>1, <3>1 DEF Owns
    <3>2. CASE pc[t].at = "addref" /\ o = pc[t].on
      <4>1. refs[o] > 0
        BY <1>1, <3>2, ObjectsAssumption DEF PlacesOK, PlaceOK
      <4>2. QED
        BY <3>2, <4>1, HeldNotOwned DEF Owns
    <3>3. QED
      BY <1>4, <3>1, <3>2 DEF MakesRef
  <2>4. /\ alloc' = alloc /\ m_nRefCount'[o] = m_nRefCount[o] + 1
        /\ \A q \in alloc \ {o} : m_nRefCount'[q] = m_nRefCount[q]
        /\ m_nRefCount[o] \in Int
    BY <1>1, <1>4 DEF MakesRef, TypeOK
  <2>5. \A u \in Threads \ {t} : Owns(u) => pc[u].obj # o
    BY <1>1, <2>3
  <2>6. m_nRefCount'[o] # 0
    BY <2>3, <2>4
  <2>7. QED
    BY <1>1, <2>1, <2>2, <2>3, <2>4, <2>5, <2>6
<1>5. ASSUME NEW o \in Objects, Release(t, o)
      PROVE  OneDestroyer'
  <2>1. \A u \in Threads : /\ Owns(u)' <=> Owns(u)
                           /\ Owns(u) => pc'[u].obj = pc[u].obj
    BY <1>1, <1>5 DEF Release, Owns, Idle, At, TypeOK
  <2>2. QED
    BY <1>1, <1>5, <2>1 DEF Release
<1>6. CASE Decrement(t)
  <2>1. PICK o \in Objects : pc[t].obj = o
    BY <1>1, <1>6 DEF Decrement, PlacesOK, PlaceOK
  <2>2. /\ o \in alloc
        /\ m_nRefCount[o] > 0
        /\ \A u \in Threads : Owns(u) => pc[u].obj # o
    <3>1. t \in Releasing(o)
      BY <1>6, <2>1 DEF Decrement, Releasing
    <3>2. QED
      BY <3>1, HeldNotOwned
  <2>3. /\ alloc' = alloc /\ m_nRefCount'[o] = m_nRefCount[o] - 1
        /\ \A q \in alloc \ {o} : m_nRefCount'[q] = m_nRefCount[q]
    BY <1>1, <1>6, <2>1 DEF Decrement, TypeOK
  <2>4. /\ ~Owns(t)
        /\ pc'[t].obj = o
        /\ Owns(t)' <=> m_nRefCount'[o] = 0
    BY <1>1, <1>6, <2>1, <2>3 DEF Decrement, Owns, At, TypeOK
  <2>5. \A u \in Threads \ {t} : /\ Owns(u)' <=> Owns(u)
                                 /\ pc'[u].obj = pc[u].obj
    BY <1>1, <1>6 DEF Decrement, Owns, TypeOK
  <2>6. ASSUME NEW v \in Threads, Owns(v)'
        PROVE  /\ pc'[v].obj \in alloc'
               /\ m_nRefCount'[pc'[v].obj] = 0
               /\ \A u \in Threads :
                    Owns(u)' /\ pc'[u].obj = pc'[v].obj => u = v
    <3>1. CASE v = t
      BY <2>2, <2>3, <2>4, <2>5, <2>6, <3>1
    <3>2. CASE v # t
      <4>1. Owns(v) /\ pc'[v].obj = pc[v].obj /\ pc[v].obj \in alloc \ {o}
        BY <1>1, <2>2, <2>5, <2>6, <3>2
      <4>2. QED
        BY <1>1, <2>3, <2>4, <2>5, <3>2, <4>1
    <3>3. QED
      BY <3>1, <3>2
  <2>7. ASSUME NEW q \in alloc', m_nRefCount'[q] = 0
        PROVE  \E u \in Threads : Owns(u)' /\ pc'[u].obj = q
    <3>1. CASE q = o
      BY <2>4, <2>7, <3>1
    <3>2. CASE q # o
      <4>1. PICK u \in Threads : Owns(u) /\ pc[u].obj = q
        BY <1>1, <2>3, <2>7, <3>2
      <4>2. QED
        BY <2>4, <2>5, <4>1
    <3>3. QED
      BY <3>1, <3>2
  <2>8. QED
    BY <2>6, <2>7
<1>7. CASE ReleasePointers(t)
  <2>1. \A u \in Threads : /\ Owns(u)' <=> Owns(u)
                           /\ pc'[u].obj = pc[u].obj
    BY <1>1, <1>7 DEF ReleasePointers, Owns, TypeOK
  <2>2. QED
    BY <1>1, <1>7, <2>1 DEF ReleasePointers
<1>8. CASE DllUnlock(t)
  <2>1. PICK o : pc[t].obj = o
    OBVIOUS
  <2>2. ~Owns(t)' /\ Owns(t)
    BY <1>1, <1>8 DEF DllUnlock, Owns, At, TypeOK
  <2>3. \A u \in Threads \ {t} : /\ Owns(u)' <=> Owns(u)
                                 /\ pc'[u].obj = pc[u].obj
    BY <1>1, <1>8 DEF DllUnlock, Owns, TypeOK
  <2>4. alloc' = alloc \ {o} /\ m_nRefCount' = m_nRefCount
    BY <1>8, <2>1 DEF DllUnlock
  <2>5. QED
    BY <1>1, <2>1, <2>2, <2>3, <2>4
<1>9. ASSUME NEW f \in Factories, NEW b \in BOOLEAN, LockServer(t, f, b)
      PROVE  OneDestroyer'
  BY <1>1, <1>9 DEF LockServer, Owns
<1>10. ASSUME NEW p \in Profilers, Initialize(t, p)
       PROVE  OneDestroyer'
  BY <1>1, <1>10 DEF Initialize, Owns
<1>11. QED
  BY StepKinds, <1>2, <1>3, <1>4, <1>5, <1>6, <1>7, <1>8, <1>9, <1>10

-----------------------------------------------------------------------------
\* A thread's step keeps what the profilers' pointers may be.
LEMMA FieldsStep ==
  ASSUME IInv, NEW t \in Threads, ThreadStep(t)
  PROVE  FieldsOK'
<1> USE DEF FieldsOK
<1>1. FieldsOK /\ TypeOK /\ PlacesOK
  BY DEF IInv
<1>2. CASE Quiet(t)
  BY <1>1, <1>2 DEF Quiet
<1>3. ASSUME NEW o \in Objects, Creates(t, o)
      PROVE  FieldsOK'
  BY <1>1, <1>3 DEF Creates, Construct
<1>4. ASSUME NEW o \in Objects, MakesRef(t, o)
      PROVE  FieldsOK'
  BY <1>1, <1>4 DEF MakesRef
<1>5. ASSUME NEW o \in Objects, Release(t, o)
      PROVE  FieldsOK'
  BY <1>1, <1>5 DEF Release
<1>6. CASE Decrement(t)
  BY <1>1, <1>6 DEF Decrement
<1>7. CASE ReleasePointers(t)
  <2>1. pc[t].obj \in alloc /\ pc[t].obj \in Profilers
    BY <1>7 DEF IInv, OneDestroyer, Owns, PlacesOK, PlaceOK, ReleasePointers
  <2>2. /\ alloc' = alloc
        /\ fields'[pc[t].obj].info = "null"
        /\ \A p \in Profilers \ {pc[t].obj} : fields'[p] = fields[p]
    BY <1>1, <1>7, <2>1 DEF ReleasePointers, TypeOK
  <2>3. QED
    BY <1>1, <2>1, <2>2
<1>8. CASE DllUnlock(t)
  BY <1>1, <1>8 DEF DllUnlock, Indeterminate
<1>9. ASSUME NEW f \in Factories, NEW b \in BOOLEAN, LockServer(t, f, b)
      PROVE  FieldsOK'
  BY <1>1, <1>9 DEF LockServer
<1>10. ASSUME NEW p \in Profilers, Initialize(t, p)
       PROVE  FieldsOK'
  <2>1. p \in alloc
    BY <1>10 DEF IInv, RefCountExact, Objects, Initialize
  <2>2. QED
    BY <1>1, <1>10, <2>1 DEF Initialize, TypeOK
<1>11. QED
  BY StepKinds, <1>2, <1>3, <1>4, <1>5, <1>6, <1>7, <1>8, <1>9, <1>10

-----------------------------------------------------------------------------
(***************************************************************************)
(* The place of another thread u: only what u relies on can change, and no *)
(* step takes away the reference it runs on or the pointers it uses.       *)
(***************************************************************************)
LEMMA OtherPlaces ==
  ASSUME IInv, NEW t \in Threads, ThreadStep(t), NEW u \in Threads \ {t}
  PROVE  PlaceOK(u)'
<1> USE DEF PlaceOK
<1>1. TypeOK /\ PlaceOK(u)
  BY DEF IInv, PlacesOK
<1>2. CASE Quiet(t)
  BY <1>1, <1>2 DEF Quiet
<1>3. ASSUME NEW o \in Objects, Creates(t, o)
      PROVE  PlaceOK(u)'
  BY <1>1, <1>3 DEF Creates, Construct
<1>4. ASSUME NEW o \in Objects, MakesRef(t, o)
      PROVE  PlaceOK(u)'
  BY <1>1, <1>4 DEF MakesRef, Returns, TypeOK
<1>5. ASSUME NEW o \in Objects, Release(t, o)
      PROVE  PlaceOK(u)'
  BY <1>1, <1>5 DEF Release, MayGiveUp, TypeOK
<1>6. CASE Decrement(t)
  BY <1>1, <1>6 DEF Decrement, TypeOK
<1>7. CASE ReleasePointers(t) \/ DllUnlock(t)
  <2>1. Owns(t)
    BY <1>7 DEF Owns, ReleasePointers, DllUnlock
  <2>2. pc[u].on \in Objects => pc[t].obj # pc[u].on
    BY <1>1, <2>1, ObjectsAssumption, HeldNotOwned DEF TypeOK
  <2>3. pc'[u] = pc[u] /\ refs' = refs
    BY <1>1, <1>7 DEF ReleasePointers, DllUnlock, TypeOK
  <2>4. pc[u].on \in Profilers => fields'[pc[u].on] = fields[pc[u].on]
    BY <1>1, <1>7, <2>2 DEF ReleasePointers, DllUnlock, TypeOK, Objects
  <2>5. pc[u].at = "unlock" => pc[u].obj # pc[t].obj
    BY <2>1 DEF IInv, OneDestroyer, Owns
  <2>6. pc[u].at = "unlock" /\ pc[u].obj \in Profilers =>
          fields'[pc[u].obj] = fields[pc[u].obj]
    BY <1>1, <1>7, <2>5 DEF ReleasePointers, DllUnlock, TypeOK
  <2>7. QED
    BY <1>1, <2>3, <2>4, <2>6
<1>8. ASSUME NEW f \in Factories, NEW b \in BOOLEAN, LockServer(t, f, b)
      PROVE  PlaceOK(u)'
  BY <1>1, <1>8 DEF LockServer
<1>9. ASSUME NEW p \in Profilers, Initialize(t, p)
       PROVE  PlaceOK(u)'
  <2>1. pc[u].at = "unlock" => pc[u].obj # p
    BY <1>9, HeldNotOwned DEF Initialize, Owns, Objects
  <2>2. QED
    BY <1>1, <1>9, <2>1 DEF Initialize, TypeOK
<1>10. QED
  BY StepKinds, <1>2, <1>3, <1>4, <1>5, <1>6, <1>7, <1>8, <1>9

\* A thread's step takes it to a place where it holds what it needs there.
LEMMA OwnPlace ==
  ASSUME IInv, NEW t \in Threads, ThreadStep(t)
  PROVE  PlaceOK(t)'
<1> USE DEF PlaceOK, Enters, Returns, At, Idle
<1>1. TypeOK /\ PlaceOK(t) /\ None \notin Objects
  BY ObjectsAssumption DEF IInv, PlacesOK
<1>2. CASE DllGetClassObject(t)
  BY <1>1, <1>2 DEF DllGetClassObject, TypeOK
<1>3. CASE \/ GetClassRefused(t) \/ CreateRefused(t) \/ NoInterface(t)
           \/ Leave(t) \/ CallbackReturns(t)
  BY <1>1, <1>3 DEF GetClassRefused, CreateRefused, NoInterface, Leave,
     CallbackReturns, TypeOK
<1>4. CASE NewFactory(t) \/ NewProfiler(t)
  BY <1>1, <1>4 DEF NewFactory, NewProfiler, Construct, TypeOK, Objects
<1>5. ASSUME NEW f \in Factories, CreateInstance(t, f)
      PROVE  PlaceOK(t)'
  BY <1>1, <1>5 DEF CreateInstance, TypeOK
<1>6. CASE NewProfilerThrows(t)
  BY <1>1, <1>6 DEF NewProfilerThrows, TypeOK
<1>7. CASE QueryGranted(t) \/ Increment(t)
  BY <1>1, <1>7 DEF QueryGranted, Increment, TypeOK
<1>8. CASE QueryRefused(t)
  BY <1>1, <1>8 DEF QueryRefused, DestructorOf, TypeOK
<1>9. ASSUME NEW o \in Objects, AddRef(t, o)
      PROVE  PlaceOK(t)'
  BY <1>1, <1>9 DEF AddRef, TypeOK
<1>10. ASSUME NEW o \in Objects, Release(t, o)
       PROVE  PlaceOK(t)'
  BY <1>1, <1>10 DEF Release, TypeOK
<1>11. CASE Decrement(t)
  BY <1>1, <1>11 DEF Decrement, TypeOK
<1>12. CASE TestCount(t)
  BY <1>1, <1>12 DEF TestCount, DestructorOf, TypeOK
<1>13. CASE ReleasePointers(t)
  <2>1. /\ pc'[t] = [pc[t] EXCEPT !.at = "unlock"] /\ refs' = refs
        /\ pc[t].obj \in Profilers
    BY <1>1, <1>13 DEF ReleasePointers, TypeOK
  <2>2. /\ fields'[pc[t].obj].info = "null"
        /\ fields'[pc[t].obj].info2 = "null"
    BY <1>1, <1>13, <2>1 DEF ReleasePointers, TypeOK
  <2>3. QED
    BY <1>1, <2>1, <2>2 DEF TypeOK, Objects
<1>14. CASE ReleaseIndeterminate(t)
  BY <1>1, <1>14 DEF ReleaseIndeterminate
<1>15. CASE DllUnlock(t)
  BY <1>1, <1>15 DEF DllUnlock, TypeOK
<1>16. ASSUME NEW f \in Factories, NEW b \in BOOLEAN, LockServer(t, f, b)
       PROVE  PlaceOK(t)'
  BY <1>1, <1>16 DEF LockServer
<1>17. ASSUME NEW p \in Profilers, Initialize(t, p)
       PROVE  PlaceOK(t)'
  BY <1>1, <1>17 DEF Initialize
<1>18. ASSUME NEW p \in Profilers, Callback(t, p)
       PROVE  PlaceOK(t)'
  BY <1>1, <1>18 DEF Callback, TypeOK, Objects
<1>19. QED
  BY <1>2, <1>3, <1>4, <1>5, <1>6, <1>7, <1>8, <1>9, <1>10, <1>11, <1>12,
     <1>13, <1>14, <1>15, <1>16, <1>17, <1>18 DEF ThreadStep, Call, Continue

-----------------------------------------------------------------------------
\* A thread's step keeps the count of CLR references exact.
LEMMA ClrRefsStep ==
  ASSUME IInv, NEW t \in Threads, ThreadStep(t)
  PROVE  ClrRefsExact'
<1> USE DEF ClrRefsExact
<1>1. ClrRefsExact /\ TypeOK /\ FieldsOK /\ PlaceOK(t)
  BY DEF IInv, PlacesOK
<1>2. CASE clrRefs' = clrRefs /\ fields' = fields
  BY <1>1, <1>2 DEF Holding1, Holding2
<1>3. CASE ReleasePointers(t)
  <2>1. PICK p \in Profilers : pc[t].obj = p
    BY <1>1, <1>3 DEF PlaceOK, ReleasePointers
  <2>2. /\ clrRefs' = clrRefs - (IF p \in Holding1 THEN 1 ELSE 0)
                              - (IF p \in Holding2 THEN 1 ELSE 0)
    BY <1>1, <1>3, <2>1 DEF ReleasePointers, ClrRefsOf, Holding1, Holding2,
       TypeOK
  <2>3. /\ fields'[p].info = "null" /\ fields'[p].info2 = "null"
        /\ \A q \in Profilers \ {p} : fields'[q] = fields[q]
    BY <1>1, <1>3, <2>1 DEF ReleasePointers, TypeOK
  <2>4. Holding1' = Holding1 \ {p} /\ Holding2' = Holding2 \ {p}
    BY <2>3 DEF Holding1, Holding2
  <2>5. /\ Cardinality(Holding1 \ {p}) =
             Cardinality(Holding1) - (IF p \in Holding1 THEN 1 ELSE 0)
        /\ Cardinality(Holding2 \ {p}) =
             Cardinality(Holding2) - (IF p \in Holding2 THEN 1 ELSE 0)
    <3>1. \A S : IsFiniteSet(S) /\ Cardinality(S) \in Nat =>
            Cardinality(S \ {p}) = Cardinality(S) - (IF p \in S THEN 1 ELSE 0)
      BY SizeStep
    <3>2. QED
      BY <3>1, HoldingFinite
  <2>6. QED
    BY <1>1, <2>2, <2>4, <2>5, HoldingFinite
<1>4. CASE DllUnlock(t)
  <2>1. clrRefs' = clrRefs /\ pc[t].at = "unlock"
    BY <1>4 DEF DllUnlock
  <2>2. \A p \in Profilers :
          /\ fields'[p].info = "ref" <=> fields[p].info = "ref"
          /\ fields'[p].info2 = "ref" <=> fields[p].info2 = "ref"
    BY <1>1, <1>4, <2>1 DEF DllUnlock, Indeterminate, PlaceOK
  <2>3. Holding1' = Holding1 /\ Holding2' = Holding2
    BY <2>2 DEF Holding1, Holding2
  <2>4. QED
    BY <1>1, <2>1, <2>3
<1>5. ASSUME NEW p \in Profilers, Initialize(t, p)
      PROVE  ClrRefsExact'
  <2>1. /\ p \notin Holding1 /\ p \notin Holding2
        /\ \A q \in Profilers \ {p} : fields'[q] = fields[q]
    BY <1>1, <1>5 DEF Initialize, FieldsOK, Holding1, Holding2, TypeOK
  <2> /\ Cardinality(Holding1 \cup {p}) = Cardinality(Holding1) + 1
      /\ Cardinality(Holding2 \cup {p}) = Cardinality(Holding2) + 1
    BY <2>1, SizeStep, HoldingFinite
  <2>2. CASE fields'[p].info = "null" /\ fields'[p].info2 = fields[p].info2
                /\ clrRefs' = clrRefs
    <3>1. Holding1' = Holding1 /\ Holding2' = Holding2
      BY <2>1, <2>2 DEF Holding1, Holding2
    <3>2. QED
      BY <1>1, <2>2, <3>1
  <2>3. CASE fields'[p].info = "ref" /\ fields'[p].info2 = "null"
                /\ clrRefs' = clrRefs + 1
    <3>1. Holding1' = Holding1 \cup {p} /\ Holding2' = Holding2
      BY <2>1, <2>3 DEF Holding1, Holding2
    <3>2. QED
      BY <1>1, <2>3, <3>1, HoldingFinite
  <2>4. CASE fields'[p].info = "ref" /\ fields'[p].info2 = "ref"
                /\ clrRefs' = clrRefs + 2
    <3>1. Holding1' = Holding1 \cup {p} /\ Holding2' = Holding2 \cup {p}
      BY <2>1, <2>4 DEF Holding1, Holding2
    <3>2. QED
      BY <1>1, <2>4, <3>1, HoldingFinite
  <2>5. QED
    BY <1>1, <1>5, <2>2, <2>3, <2>4 DEF Initialize, TypeOK
<1>6. QED
  BY StepKinds, <1>2, <1>3, <1>4, <1>5 DEF Quiet, Creates, Construct,
     MakesRef, Release, Decrement, LockServer

-----------------------------------------------------------------------------
\* The inductive invariant holds before the library is loaded.
LEMMA InitIInv == ASSUME Init PROVE IInv
<1>1. TypeOK
  <2>1. Indeterminate \in [info  : {"uninit", "null", "ref"},
                           info2 : {"uninit", "null", "ref"},
                           v2    : {"uninit", "yes", "no"}]
    BY DEF Indeterminate
  <2>2. Idle \in [at : Steps, on : Objects \cup {None},
                  obj : Objects \cup {None}, res : Nat]
    BY DEF Idle, At, Steps
  <2>3. /\ m_nRefCount \in [Objects -> Nat] /\ refs \in [Objects -> Nat]
        /\ fields \in [Profilers -> [info  : {"uninit", "null", "ref"},
                                     info2 : {"uninit", "null", "ref"},
                                     v2    : {"uninit", "yes", "no"}]]
        /\ pc \in [Threads -> [at : Steps, on : Objects \cup {None},
                               obj : Objects \cup {None}, res : Nat]]
    BY <2>1, <2>2 DEF Init
  <2>4. /\ g_DllLockCount \in Nat /\ clrRefs \in Nat /\ locks \in Nat
        /\ alloc \subseteq Objects
        /\ fault \in {"none", "wild_call", "wild_release"}
    BY DEF Init
  <2>5. loaded \in BOOLEAN
    BY DEF Init
  <2>6. QED
    BY <2>3, <2>4, <2>5 DEF TypeOK
<1>2. PlacesOK /\ FieldsOK /\ UnloadedIdle
  BY DEF Init, PlacesOK, PlaceOK, FieldsOK, UnloadedIdle, Indeterminate, Idle,
     At
<1>3. RefCountExact
  BY DEF Init, RefCountExact, Releasing, Idle, At
<1>4. OneDestroyer
  BY DEF Init, OneDestroyer, Owns, Idle, At
<1>5. LockCountExact
  BY FS_EmptySet DEF Init, LockCountExact
<1>6. ClrRefsExact
  <2>1. Holding1 = {} /\ Holding2 = {}
    BY DEF Init, Holding1, Holding2, Indeterminate
  <2>2. QED
    BY <2>1, FS_EmptySet DEF Init, ClrRefsExact
<1>7. QED
  BY <1>1, <1>2, <1>3, <1>4, <1>5, <1>6 DEF IInv

\* Loading and unloading: both happen with no object and no thread inside.
LEMMA LoadSteps ==
  ASSUME IInv, LoadLibrary \/ UnloadLibrary
  PROVE  IInv'
<1>1. /\ UNCHANGED <<alloc, m_nRefCount, fields, clrRefs, refs, locks, pc,
                     fault>>
      /\ loaded' \in BOOLEAN
  BY DEF LoadLibrary, UnloadLibrary
<1>2. g_DllLockCount' = 0 /\ alloc = {} /\ locks = 0
        /\ \A t \in Threads : pc[t] = Idle
  <2>1. CASE LoadLibrary
    BY <2>1, FS_EmptySet DEF IInv, UnloadedIdle, LoadLibrary
  <2>2. CASE UnloadLibrary
    <3>1. Cardinality(alloc) = 0 /\ locks = 0
      BY <2>2, AllocFinite DEF IInv, UnloadLibrary, DllCanUnloadNow,
         LockCountExact, TypeOK
    <3>2. alloc = {}
      BY <3>1, AllocFinite, FS_EmptySet DEF IInv
    <3>3. QED
      BY <2>2, <3>1, <3>2 DEF UnloadLibrary, DllCanUnloadNow
  <2>3. QED
    BY <2>1, <2>2
<1>3. TypeOK'
  BY <1>1, <1>2 DEF IInv, TypeOK
<1>4. PlacesOK' /\ FieldsOK'
  BY <1>1 DEF IInv, PlacesOK, PlaceOK, FieldsOK
<1>5. RefCountExact' /\ OneDestroyer'
  BY <1>1 DEF IInv, RefCountExact, Releasing, OneDestroyer, Owns
<1>6. LockCountExact'
  BY <1>1, <1>2, FS_EmptySet DEF LockCountExact
<1>7. ClrRefsExact' /\ UnloadedIdle'
  BY <1>1, <1>2 DEF IInv, ClrRefsExact, Holding1, Holding2, UnloadedIdle
<1>8. QED
  BY <1>3, <1>4, <1>5, <1>6, <1>7 DEF IInv

\* A step that changes nothing keeps the inductive invariant.
LEMMA StutterIInv ==
  ASSUME IInv, UNCHANGED vars
  PROVE  IInv'
<1>1. TypeOK' /\ PlacesOK' /\ FieldsOK'
  BY DEF IInv, vars, TypeOK, PlacesOK, PlaceOK, FieldsOK
<1>2. RefCountExact' /\ OneDestroyer' /\ LockCountExact'
  BY DEF IInv, vars, RefCountExact, Releasing, OneDestroyer, Owns,
     LockCountExact
<1>3. ClrRefsExact' /\ UnloadedIdle'
  BY DEF IInv, vars, ClrRefsExact, Holding1, Holding2, UnloadedIdle
<1>4. QED
  BY <1>1, <1>2, <1>3 DEF IInv

(***************************************************************************)
(* IInv is an invariant of the server: every reference and lock counter    *)
(* stays exact whatever the threads do.                                    *)
(***************************************************************************)
THEOREM Inductive == Spec => []IInv
<1>1. Init => IInv
  BY InitIInv
<1>2. IInv /\ [Next]_vars => IInv'
  <2> SUFFICES ASSUME IInv, [Next]_vars PROVE IInv'
    OBVIOUS
  <2>1. ASSUME NEW t \in Threads, ThreadStep(t)
        PROVE  IInv'
    <3>1. TypeOK' /\ RefCountExact' /\ OneDestroyer' /\ LockCountExact'
      BY <2>1, TypeStep, RefCountStep, OneDestroyerStep, LockCountStep
    <3>2. PlacesOK'
      BY <2>1, OwnPlace, OtherPlaces DEF PlacesOK
    <3>3. FieldsOK' /\ ClrRefsExact'
      BY <2>1, FieldsStep, ClrRefsStep
    <3>4. UnloadedIdle'
      BY <2>1, StepsInLoaded DEF UnloadedIdle
    <3>5. QED
      BY <3>1, <3>2, <3>3, <3>4 DEF IInv
  <2>2. CASE LoadLibrary \/ UnloadLibrary
    BY <2>2, LoadSteps
  <2>3. CASE UNCHANGED vars
    BY <2>3, StutterIInv
  <2>4. QED
    BY <2>1, <2>2, <2>3 DEF Next, Crashed, ThreadStep
<1>3. QED
  BY <1>1, <1>2, PTL DEF Spec

-----------------------------------------------------------------------------
\* Without objects nobody holds a reference or is inside a method.
LEMMA NoObject ==
  ASSUME IInv, alloc = {}
  PROVE  /\ \A o \in Objects : refs[o] = 0
         /\ \A t \in Threads : \/ pc[t].at \in {"idle", "getclass", "tail"}
                               \/ pc[t].at = "test" /\ pc[t].res # 0
         /\ clrRefs = 0
<1>1. \A o \in Objects : refs[o] = 0 /\ Releasing(o) = {}
  BY DEF IInv, RefCountExact
<1>2. ASSUME NEW t \in Threads
      PROVE  \/ pc[t].at \in {"idle", "getclass", "tail"}
             \/ pc[t].at = "test" /\ pc[t].res # 0
  <2>1. pc[t].on \notin Objects
    BY <1>1, ObjectsAssumption DEF IInv, PlacesOK, PlaceOK
  <2>2. ~Owns(t)
    BY DEF IInv, OneDestroyer
  <2>3. pc[t].at # "release"
    BY <1>1 DEF Releasing, IInv, PlacesOK, PlaceOK
  <2>4. pc[t].at \notin {"create", "addref", "callback"}
    BY <2>1 DEF IInv, PlacesOK, PlaceOK, Objects
  <2>5. QED
    BY <2>2, <2>3, <2>4 DEF Owns, IInv, TypeOK, Steps
<1>3. clrRefs = 0
  <2>1. Holding1 = {} /\ Holding2 = {}
    BY DEF IInv, FieldsOK, Indeterminate, Holding1, Holding2
  <2>2. QED
    BY <2>1, FS_EmptySet DEF IInv, ClrRefsExact
<1>4. QED
  BY <1>1, <1>2, <1>3

\* Every variable of the server keeps its type.
THEOREM TypeCorrect == Spec => []TypeOK
<1>1. IInv => TypeOK
  BY DEF IInv
<1>2. QED
  BY <1>1, Inductive, PTL

(***************************************************************************)
(* The counter in every object is exactly the references held or on their  *)
(* way back (AddRef, Release and QueryInterface of both classes).          *)
(***************************************************************************)
THEOREM CountersExact == Spec => []RefCountExact
<1>1. IInv => RefCountExact
  BY DEF IInv
<1>2. QED
  BY <1>1, Inductive, PTL

(***************************************************************************)
(* An object is created or destroyed by one thread, while nobody else can  *)
(* reach it, and an unreferenced object has such a thread.                 *)
(***************************************************************************)
THEOREM DestroyedOnce == Spec => []OneDestroyer
<1>1. IInv => OneDestroyer
  BY DEF IInv
<1>2. QED
  BY <1>1, Inductive, PTL

\* g_DllLockCount counts the objects and the server locks, no more, no less.
THEOREM LockCounted == Spec => []LockCountExact
<1>1. IInv => LockCountExact
  BY DEF IInv
<1>2. QED
  BY <1>1, Inductive, PTL

(***************************************************************************)
(* While g_DllLockCount is zero, the only code of the library in progress  *)
(* is the head of DllGetClassObject, the end of a Release that has deleted *)
(* its object, and a Release past a decrement that did not give zero,      *)
(* which only returns: no other method, no constructor and no destructor.  *)
(***************************************************************************)
THEOREM CodeCovered == Spec => []CallsCovered
<1>1. ASSUME IInv, g_DllLockCount = 0 PROVE alloc = {}
  BY <1>1, AllocFinite, FS_EmptySet DEF IInv, LockCountExact, TypeOK
<1>2. IInv => CallsCovered
  BY <1>1, NoObject DEF CallsCovered
<1>3. QED
  BY <1>2, Inductive, PTL

\* Unloading the library leaves nothing behind.
THEOREM CleanUnload == Spec => []UnloadedMeansEmpty
<1>1. IInv => UnloadedMeansEmpty
  BY NoObject DEF IInv, UnloadedIdle, UnloadedMeansEmpty
<1>2. QED
  BY <1>1, Inductive, PTL

\* The counters of the objects and of the library are exact together.
THEOREM AllCountsExact == Spec => []CountsExact
<1>1. QED
  BY CountersExact, LockCounted, PTL DEF CountsExact

\* The library is never unloaded under running code or with objects left.
THEOREM SafeToUnload == Spec => []UnloadSafe
<1>1. QED
  BY CodeCovered, CleanUnload, PTL DEF UnloadSafe

(***************************************************************************)
(* No object, no reference to the CLR and no count on the library outlives *)
(* the clients' references, whichever calls failed on the way.             *)
(***************************************************************************)
THEOREM NothingOrphaned == Spec => []NoOrphans
<1>1. ASSUME IInv, Quiescent PROVE alloc = {}
  <2>1. \A t \in Threads : ~Owns(t) /\ pc[t].at # "release"
    BY <1>1 DEF Quiescent, Owns, Idle, At
  <2>2. \A o \in Objects : refs[o] = 0 /\ Cardinality(Releasing(o)) = 0
    BY <1>1, <2>1, FS_EmptySet DEF Quiescent, Releasing
  <2>3. \A o \in alloc : m_nRefCount[o] = 0
    BY <1>1, <2>2 DEF IInv, RefCountExact, TypeOK
  <2>4. QED
    BY <1>1, <2>1, <2>3 DEF IInv, OneDestroyer
<1>2. ASSUME IInv, Quiescent, alloc = {} PROVE DllCanUnloadNow
  BY <1>2, FS_EmptySet DEF IInv, LockCountExact, Quiescent, DllCanUnloadNow
<1>3. IInv => NoOrphans
  BY <1>1, <1>2, NoObject DEF NoOrphans
<1>4. QED
  BY <1>3, Inductive, PTL

(***************************************************************************)
(* A callback always runs on a live profiler with valid CLR pointers.      *)
(***************************************************************************)
THEOREM CallbacksSafe == Spec => []CallbackSafe
<1>1. IInv => CallbackSafe
  <2> SUFFICES ASSUME IInv, NEW t \in Threads, pc[t].at = "callback"
               PROVE  /\ pc[t].on \in alloc
                      /\ fields[pc[t].on].info = "ref"
                      /\ fields[pc[t].on].v2 = "yes" =>
                           fields[pc[t].on].info2 = "ref"
    BY DEF CallbackSafe
  <2>1. /\ pc[t].on \in Profilers /\ fields[pc[t].on].info = "ref"
        /\ refs[pc[t].on] > 0
    BY ObjectsAssumption DEF IInv, PlacesOK, PlaceOK, Objects
  <2>2. pc[t].on \in alloc
    BY <2>1 DEF IInv, RefCountExact, Objects
  <2>3. QED
    BY <2>1, <2>2 DEF IInv, FieldsOK
<1>2. QED
  BY <1>1, Inductive, PTL

-----------------------------------------------------------------------------
(***************************************************************************)
(* The refinement: which step of the lifetime specification each kind of   *)
(* step is.                                                                *)
(***************************************************************************)
SameLife(q) ==
  /\ q \in alloc' <=> q \in alloc
  /\ m_nRefCount'[q] = m_nRefCount[q]
  /\ BeingCreated(q)' <=> BeingCreated(q)

LifetimeStep == Lifetime!Next \/ UNCHANGED Lifetime!vars

\* An object a step does not touch keeps its abstract life.
LEMMA SameLifeFrame ==
  ASSUME NEW q \in Objects, SameLife(q)
  PROVE  LifeOf(q)' = LifeOf(q) /\ OwedOn(q)' = OwedOn(q)
BY DEF SameLife, LifeOf, OwedOn

\* A step that leaves every object as it is, the locks and the library too.
LEMMA StutterLife ==
  ASSUME \A q \in Objects : SameLife(q), locks' = locks, loaded' = loaded
  PROVE  LifetimeStep
<1>1. \A q \in Objects : LifeOf(q)' = LifeOf(q) /\ OwedOn(q)' = OwedOn(q)
  BY SameLifeFrame
<1>2. /\ [q \in Objects |-> LifeOf(q)]' = [q \in Objects |-> LifeOf(q)]
      /\ [q \in Objects |-> OwedOn(q)]' = [q \in Objects |-> OwedOn(q)]
  BY <1>1
<1>3. QED
  BY <1>2 DEF LifetimeStep, Lifetime!vars

(***************************************************************************)
(* A step in the life of one object: the two functions of the lifetime     *)
(* specification change at that object only.                               *)
(***************************************************************************)
LEMMA OneLife ==
  ASSUME NEW o \in Objects, \A q \in Objects \ {o} : SameLife(q)
  PROVE  /\ [q \in Objects |-> LifeOf(q)]' =
              [[q \in Objects |-> LifeOf(q)] EXCEPT ![o] = LifeOf(o)']
         /\ [q \in Objects |-> OwedOn(q)]' =
              [[q \in Objects |-> OwedOn(q)] EXCEPT ![o] = OwedOn(o)']
         /\ OwedOn(o)' = OwedOn(o) =>
              [q \in Objects |-> OwedOn(q)]' = [q \in Objects |-> OwedOn(q)]
         /\ LifeOf(o)' = LifeOf(o) =>
              [q \in Objects |-> LifeOf(q)]' = [q \in Objects |-> LifeOf(q)]
<1>1. \A q \in Objects \ {o} : LifeOf(q)' = LifeOf(q) /\ OwedOn(q)' = OwedOn(q)
  BY SameLifeFrame
<1>2. QED
  BY <1>1

\* Every step of a thread is a step of ComLifetime or a stutter.
LEMMA RefinesStep ==
  ASSUME IInv, NEW t \in Threads, ThreadStep(t)
  PROVE  LifetimeStep
<1>1. /\ TypeOK /\ PlacesOK /\ OneDestroyer /\ loaded /\ loaded'
      /\ \A u \in Threads : pc[u].at = "query" => Owns(u)
  BY StepsInLoaded DEF IInv, Owns
<1>2. CASE Quiet(t)
  <2>1. CASE pc'[t].at = "query" <=> pc[t].at = "query"
    <3>1. \A q \in Objects : SameLife(q)
      BY <1>1, <1>2, <2>1 DEF Quiet, SameLife, BeingCreated
    <3>2. QED
      BY <1>2, <3>1, StutterLife DEF Quiet
  <2>2. CASE pc'[t].at # "query" /\ pc[t].at = "query"
    <3>1. PICK o \in Objects : pc[t].obj = o
      BY <1>1, <2>2 DEF PlacesOK, PlaceOK
    <3>2. /\ o \in alloc /\ m_nRefCount[o] = 0
          /\ \A u \in Threads \ {t} : pc[u].at = "query" => pc[u].obj # o
      BY <1>1, <2>2, <3>1 DEF OneDestroyer
    <3>3. \A q \in Objects \ {o} : SameLife(q)
      BY <1>2, <2>2, <3>1 DEF Quiet, SameLife, BeingCreated
    <3>4. LifeOf(o) = "fresh"
      BY <2>2, <3>1, <3>2 DEF LifeOf, BeingCreated
    <3>5. LifeOf(o)' = "dying" /\ OwedOn(o)' = OwedOn(o)
      BY <1>2, <2>2, <3>2 DEF Quiet, LifeOf, BeingCreated, OwedOn
    <3>6. Lifetime!Abandon(o)
      BY <1>2, <3>3, <3>4, <3>5, OneLife
         DEF Quiet, Lifetime!Abandon, Lifetime!BecomesLife
    <3>7. QED
      BY <3>6 DEF LifetimeStep, Lifetime!Next
  <2>3. QED
    BY <1>2, <2>1, <2>2 DEF Quiet
<1>3. ASSUME NEW o \in Objects, Creates(t, o)
      PROVE  LifetimeStep
  <2>1. \A q \in Objects \ {o} : SameLife(q)
    BY <1>1, <1>3 DEF Creates, Construct, SameLife, BeingCreated, TypeOK
  <2>2. /\ LifeOf(o) = "none" /\ LifeOf(o)' = "fresh"
        /\ OwedOn(o)' = OwedOn(o)
    BY <1>1, <1>3 DEF Creates, Construct, LifeOf, OwedOn, BeingCreated, TypeOK
  <2>3. Lifetime!Create(o)
    BY <1>1, <1>3, <2>1, <2>2, OneLife
       DEF Creates, Construct, Lifetime!Create, Lifetime!BecomesLife
  <2>4. QED
    BY <2>3 DEF LifetimeStep, Lifetime!Next
<1>4. ASSUME NEW o \in Objects, MakesRef(t, o)
      PROVE  LifetimeStep
  <2>1. \A q \in Objects \ {o} : SameLife(q)
    BY <1>1, <1>4 DEF MakesRef, Returns, Idle, At, SameLife, BeingCreated,
       TypeOK
  <2>2. CASE pc[t].at = "query" /\ o = pc[t].obj
    <3>1. o \in alloc /\ m_nRefCount[o] = 0
      BY <1>1, <2>2 DEF OneDestroyer
    <3>2. LifeOf(o) = "fresh"
      BY <2>2, <3>1 DEF LifeOf, BeingCreated
    <3>3. LifeOf(o)' = "owned" /\ OwedOn(o)' = 1
      BY <1>1, <1>4, <3>1 DEF MakesRef, LifeOf, OwedOn, TypeOK
    <3>4. Lifetime!Grant(o)
      BY <1>4, <2>1, <3>2, <3>3, OneLife
         DEF MakesRef, Lifetime!Grant, Lifetime!BecomesLife
    <3>5. QED
      BY <3>4 DEF LifetimeStep, Lifetime!Next
  <2>3. CASE pc[t].at = "addref" /\ o = pc[t].on
    <3>1. o \in alloc /\ m_nRefCount[o] > 0
      BY <1>1, <2>3, ObjectsAssumption, HeldNotOwned DEF PlacesOK, PlaceOK
    <3>2. /\ LifeOf(o) = "owned" /\ LifeOf(o)' = "owned"
          /\ OwedOn(o)' = OwedOn(o) + 1
      BY <1>1, <1>4, <3>1 DEF MakesRef, LifeOf, OwedOn, TypeOK
    <3>3. Lifetime!Share(o)
      BY <1>4, <2>1, <3>2, OneLife DEF MakesRef, Lifetime!Share
    <3>4. QED
      BY <3>3 DEF LifetimeStep, Lifetime!Next
  <2>4. QED
    BY <1>4, <2>2, <2>3 DEF MakesRef
<1>5. ASSUME NEW o \in Objects, Release(t, o)
      PROVE  LifetimeStep
  <2>1. \A q \in Objects : SameLife(q)
    BY <1>1, <1>5 DEF Release, Idle, At, SameLife, BeingCreated, TypeOK
  <2>2. QED
    BY <1>5, <2>1, StutterLife DEF Release
<1>6. CASE Decrement(t)
  <2>1. PICK o \in Objects : pc[t].obj = o
    BY <1>1, <1>6 DEF Decrement, PlacesOK, PlaceOK
  <2>2. /\ o \in alloc /\ m_nRefCount[o] > 0
        /\ \A u \in Threads : pc[u].at = "query" => pc[u].obj # o
    <3>1. t \in Releasing(o)
      BY <1>6, <2>1 DEF Decrement, Releasing
    <3>2. QED
      BY <1>1, <3>1, HeldNotOwned
  <2>3. \A q \in Objects \ {o} : SameLife(q)
    BY <1>1, <1>6, <2>1 DEF Decrement, At, SameLife, BeingCreated, TypeOK
  <2>4. ~BeingCreated(o)'
    BY <1>1, <1>6, <2>2 DEF Decrement, At, BeingCreated, TypeOK
  <2>5. /\ LifeOf(o) = "owned"
        /\ LifeOf(o)' = (IF OwedOn(o) = 1 THEN "dying" ELSE "owned")
        /\ OwedOn(o)' = OwedOn(o) - 1
    BY <1>1, <1>6, <2>1, <2>2, <2>4 DEF Decrement, LifeOf, OwedOn, TypeOK
  <2>6. Lifetime!GiveBack(o)
    BY <1>6, <2>3, <2>5, OneLife DEF Decrement, Lifetime!GiveBack
  <2>7. QED
    BY <2>6 DEF LifetimeStep, Lifetime!Next
<1>7. CASE ReleasePointers(t)
  <2>1. \A q \in Objects : SameLife(q)
    BY <1>1, <1>7 DEF ReleasePointers, SameLife, BeingCreated, TypeOK
  <2>2. QED
    BY <1>7, <2>1, StutterLife DEF ReleasePointers
<1>8. CASE DllUnlock(t)
  <2>1. PICK o \in Objects : pc[t].obj = o
    BY <1>1, <1>8 DEF DllUnlock, PlacesOK, PlaceOK
  <2>2. /\ o \in alloc /\ m_nRefCount[o] = 0
        /\ \A u \in Threads : pc[u].at = "query" => pc[u].obj # o
    BY <1>1, <1>8, <2>1 DEF OneDestroyer, Owns, DllUnlock
  <2>3. \A q \in Objects \ {o} : SameLife(q)
    BY <1>1, <1>8, <2>1 DEF DllUnlock, At, SameLife, BeingCreated, TypeOK
  <2>4. /\ LifeOf(o) = "dying" /\ LifeOf(o)' = "none"
        /\ OwedOn(o)' = OwedOn(o)
    BY <1>8, <2>1, <2>2 DEF DllUnlock, LifeOf, OwedOn, BeingCreated
  <2>5. Lifetime!Destroy(o)
    BY <1>8, <2>3, <2>4, OneLife
       DEF DllUnlock, Lifetime!Destroy, Lifetime!BecomesLife
  <2>6. QED
    BY <2>5 DEF LifetimeStep, Lifetime!Next
<1>9. ASSUME NEW f \in Factories, NEW b \in BOOLEAN, LockServer(t, f, b)
      PROVE  LifetimeStep
  <2>1. f \in Objects /\ f \in alloc /\ m_nRefCount[f] > 0
    BY <1>9, HeldNotOwned DEF LockServer, Objects
  <2>2. \A q \in Objects : SameLife(q)
    BY <1>9 DEF LockServer, SameLife, BeingCreated
  <2>3. /\ [q \in Objects |-> LifeOf(q)]' = [q \in Objects |-> LifeOf(q)]
        /\ [q \in Objects |-> OwedOn(q)]' = [q \in Objects |-> OwedOn(q)]
    BY <2>2, SameLifeFrame
  <2>4. \E q \in Objects : LifeOf(q) = "owned"
    BY <2>1 DEF LifeOf
  <2>5. CASE locks' = locks + 1
    <3>1. Lifetime!Lock
      BY <1>9, <2>3, <2>4, <2>5 DEF LockServer, Lifetime!Lock
    <3>2. QED
      BY <3>1 DEF LifetimeStep, Lifetime!Next
  <2>6. CASE locks > 0 /\ locks' = locks - 1
    <3>1. Lifetime!Unlock
      BY <1>9, <2>3, <2>4, <2>6 DEF LockServer, Lifetime!Unlock
    <3>2. QED
      BY <3>1 DEF LifetimeStep, Lifetime!Next
  <2>7. QED
    BY <1>9, <2>5, <2>6 DEF LockServer
<1>10. ASSUME NEW p \in Profilers, Initialize(t, p)
       PROVE  LifetimeStep
  <2>1. \A q \in Objects : SameLife(q)
    BY <1>10 DEF Initialize, SameLife, BeingCreated
  <2>2. QED
    BY <1>10, <2>1, StutterLife DEF Initialize
<1>11. QED
  BY StepKinds, <1>2, <1>3, <1>4, <1>5, <1>6, <1>7, <1>8, <1>9, <1>10

(***************************************************************************)
(* The server keeps the lifetime promised to COM clients: every step of    *)
(* the code is one step of ComLifetime or leaves its state alone.          *)
(***************************************************************************)
THEOREM Refinement == Spec => KeepsLifetime
<1>1. Init => Lifetime!Init
  <2> SUFFICES ASSUME Init PROVE Lifetime!Init
    OBVIOUS
  <2>1. \A o \in Objects : LifeOf(o) = "none" /\ OwedOn(o) = 0
    BY DEF Init, LifeOf, OwedOn
  <2>2. locks = 0 /\ loaded = FALSE
    BY DEF Init
  <2>3. QED
    BY <2>1, <2>2 DEF Lifetime!Init
<1>2. IInv /\ [Next]_vars => LifetimeStep
  <2> SUFFICES ASSUME IInv, [Next]_vars PROVE LifetimeStep
    OBVIOUS
  <2>1. ASSUME NEW t \in Threads, ThreadStep(t)
        PROVE  LifetimeStep
    BY <2>1, RefinesStep
  <2>2. CASE UNCHANGED vars
    <3>1. \A q \in Objects : SameLife(q)
      BY <2>2 DEF vars, SameLife, BeingCreated
    <3>2. QED
      BY <2>2, <3>1, StutterLife DEF vars
  <2>3. CASE LoadLibrary \/ UnloadLibrary
    <3>1. \A q \in Objects : SameLife(q)
      BY <2>3 DEF LoadLibrary, UnloadLibrary, SameLife, BeingCreated
    <3>2. /\ [q \in Objects |-> LifeOf(q)]' = [q \in Objects |-> LifeOf(q)]
          /\ [q \in Objects |-> OwedOn(q)]' = [q \in Objects |-> OwedOn(q)]
      BY <3>1, SameLifeFrame
    <3>3. CASE LoadLibrary
      BY <3>2, <3>3 DEF LoadLibrary, LifetimeStep, Lifetime!Next,
         Lifetime!Load
    <3>4. CASE UnloadLibrary
      <4>1. Cardinality(alloc) = 0 /\ locks = 0
        BY <3>4, AllocFinite DEF IInv, UnloadLibrary, DllCanUnloadNow,
           LockCountExact, TypeOK
      <4>2. \A q \in Objects : LifeOf(q) = "none"
        BY <4>1, AllocFinite, FS_EmptySet DEF IInv, LifeOf
      <4>3. Lifetime!Unload
        BY <3>2, <3>4, <4>1, <4>2 DEF UnloadLibrary, Lifetime!Unload
      <4>4. QED
        BY <4>3 DEF LifetimeStep, Lifetime!Next
    <3>5. QED
      BY <2>3, <3>3, <3>4
  <2>4. QED
    BY <2>1, <2>2, <2>3 DEF Next, Crashed, ThreadStep
<1>3. QED
  BY <1>1, <1>2, Inductive, PTL
     DEF Spec, KeepsLifetime, Lifetime!Spec, LifetimeStep
=============================================================================
