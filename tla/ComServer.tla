----------------------------- MODULE ComServer -----------------------------
(***************************************************************************)
(* The COM server in uMock.RewriteProfiler: the exports of dllmain.cpp,    *)
(* CRewriteProfilerClassFactory, and the lifetime of CRewriteProfiler (its *)
(* constructor, destructor, IUnknown methods and Initialize).  The server  *)
(* registers as free-threaded (dllmain.cpp, ThreadingModel "Free"), so any *)
(* thread may be in any method at any time.                                *)
(*                                                                         *)
(* A step is one access to state that threads share: an Interlocked        *)
(* operation, a construction, a destructor's releases.  The result of an   *)
(* InterlockedDecrement is kept in the thread until the code tests it.     *)
(*                                                                         *)
(* Left to other modules: CLogger (Logger) and the metadata cache the      *)
(* destructor empties (MetadataCache).  External, modelled from how the    *)
(* code is called: the clients' references and locks, the CLR's            *)
(* ICorProfilerInfo object, COM loading and unloading the library.         *)
(***************************************************************************)
EXTENDS Integers, FiniteSets

CONSTANTS
  Threads,    \* threads of the host process
  Factories,  \* identities for class factory objects
  Profilers,  \* identities for profiler objects
  None,       \* "no object"
  MaxRefs,    \* bound: a client shares an object it holds below this count
  MaxLocks    \* bound: LockServer(TRUE) calls outstanding at once

Objects == Factories \cup Profilers

ASSUME ThreadsAssumption == IsFiniteSet(Threads)
ASSUME ObjectsAssumption ==
  /\ IsFiniteSet(Factories)
  /\ IsFiniteSet(Profilers)
  /\ Factories \cap Profilers = {}
  /\ None \notin Objects
ASSUME BoundsAssumption == MaxRefs \in Nat /\ MaxLocks \in Nat

VARIABLES
  g_DllLockCount,  \* what DllCanUnloadNow reads
  alloc,           \* objects constructed and not yet destroyed
  m_nRefCount,     \* the reference count in each object
  fields,          \* the profilers' pointers to the CLR and their flag
  clrRefs,         \* references this library has on the CLR's info object
  refs,            \* references the clients hold and may use
  locks,           \* LockServer(TRUE) calls the clients have not undone
  loaded,          \* the library is mapped in the process
  pc,              \* what each thread is doing inside the library
  fault            \* the process died on an indeterminate pointer

vars == <<g_DllLockCount, alloc, m_nRefCount, fields, clrRefs, refs, locks,
          loaded, pc, fault>>

server == <<g_DllLockCount, alloc, m_nRefCount, fields, clrRefs>>
host == <<refs, locks, loaded>>

(***************************************************************************)
(* A thread's place: the step it is at, the object whose method it runs    *)
(* (on), the object it creates, releases or destroys (obj), and the result *)
(* of its InterlockedDecrement (res).                                      *)
(***************************************************************************)
At(step, on, obj, res) == [at |-> step, on |-> on, obj |-> obj, res |-> res]
Idle == At("idle", None, None, 0)

Steps == {"idle", "getclass", "create", "query", "addref", "callback",
          "release", "test", "dtor", "unlock", "tail"}

\* Members a constructor does not set hold whatever the heap block held.
Indeterminate == [info |-> "uninit", info2 |-> "uninit", v2 |-> "uninit"]

TypeOK ==
  /\ g_DllLockCount \in Nat
  /\ alloc \subseteq Objects
  /\ m_nRefCount \in [Objects -> Nat]
  /\ fields \in [Profilers -> [info  : {"uninit", "null", "ref"},
                               info2 : {"uninit", "null", "ref"},
                               v2    : {"uninit", "yes", "no"}]]
  /\ clrRefs \in Nat
  /\ refs \in [Objects -> Nat]
  /\ locks \in Nat
  /\ loaded \in BOOLEAN
  /\ pc \in [Threads -> [at : Steps, on : Objects \cup {None},
                         obj : Objects \cup {None}, res : Nat]]
  /\ fault \in {"none", "wild_call", "wild_release"}

Init ==
  /\ g_DllLockCount = 0
  /\ alloc = {}
  /\ m_nRefCount = [o \in Objects |-> 0]
  /\ fields = [p \in Profilers |-> Indeterminate]
  /\ clrRefs = 0
  /\ refs = [o \in Objects |-> 0]
  /\ locks = 0
  /\ loaded = FALSE
  /\ pc = [t \in Threads |-> Idle]
  /\ fault = "none"

-----------------------------------------------------------------------------
(***************************************************************************)
(* Who may call what (external).  A client calls a method only through a   *)
(* reference it holds, and gives up the last one only when no call on that *)
(* object is in progress.                                                  *)
(***************************************************************************)
Enters(t, step, on) ==
  /\ pc[t] = Idle
  /\ pc' = [pc EXCEPT ![t] = At(step, on, None, 0)]

Returns(t) == pc' = [pc EXCEPT ![t] = Idle]

MayGiveUp(o) == refs[o] > 1 \/ \A u \in Threads : pc[u].on # o

\* Mutant: an object comes into existence, or goes, without being counted.
Uncounted == UNCHANGED g_DllLockCount

\* The InterlockedIncrement of both constructors and the InterlockedDecrement
\* of both destructors.
CountObject == g_DllLockCount' = g_DllLockCount + 1

DiscountObject == g_DllLockCount' = g_DllLockCount - 1

(***************************************************************************)
(* Both constructors: the object starts with a reference count of zero and *)
(* counts itself in g_DllLockCount.                                        *)
(***************************************************************************)
Construct(o) ==
  /\ o \notin alloc
  /\ alloc' = alloc \cup {o}
  /\ m_nRefCount' = [m_nRefCount EXCEPT ![o] = 0]
  /\ CountObject
  /\ UNCHANGED <<fields, clrRefs, host, fault>>

\* DllGetClassObject, called by COM once the library is loaded.
DllGetClassObject(t) ==
  /\ loaded
  /\ Enters(t, "getclass", None)
  /\ UNCHANGED <<server, host, fault>>

\* Another CLSID, an unwritable ppv, or operator new throwing.
GetClassRefused(t) ==
  /\ pc[t].at = "getclass"
  /\ Returns(t)
  /\ UNCHANGED <<server, host, fault>>

NewFactory(t) ==
  /\ pc[t].at = "getclass"
  /\ \E f \in Factories :
       /\ Construct(f)
       /\ pc' = [pc EXCEPT ![t] = At("query", None, f, 0)]

\* CRewriteProfilerClassFactory::CreateInstance.
CreateInstance(t, f) ==
  /\ refs[f] > 0
  /\ Enters(t, "create", f)
  /\ UNCHANGED <<server, host, fault>>

\* CLASS_E_NOAGGREGATION or E_POINTER.
CreateRefused(t) ==
  /\ pc[t].at = "create"
  /\ Returns(t)
  /\ UNCHANGED <<server, host, fault>>

NewProfiler(t) ==
  /\ pc[t].at = "create"
  /\ \E p \in Profilers :
       /\ Construct(p)
       /\ pc' = [pc EXCEPT ![t] = At("query", pc[t].on, p, 0)]

(***************************************************************************)
(* operator new throws and the handler swallows the exception, leaving     *)
(* pCRewriteProfiler unassigned: it may happen to be NULL (E_OUTOFMEMORY)  *)
(* or the code calls QueryInterface through it.                            *)
(***************************************************************************)
NewProfilerThrows(t) ==
  /\ pc[t].at = "create"
  /\ \/ Returns(t) /\ UNCHANGED fault
     \/ fault' = "wild_call" /\ UNCHANGED pc
  /\ UNCHANGED <<server, host>>

\* Mutant: QueryInterface hands out the pointer without AddRef.
QueryGrantedUncounted(t) ==
  /\ pc[t].at = "query"
  /\ refs' = [refs EXCEPT ![pc[t].obj] = @ + 1]
  /\ Returns(t)
  /\ UNCHANGED <<server, locks, loaded, fault>>

\* The creator's QueryInterface finds the interface: its AddRef makes the
\* first reference, and the client receives it.
QueryGranted(t) ==
  LET o == pc[t].obj IN
  /\ pc[t].at = "query"
  /\ m_nRefCount' = [m_nRefCount EXCEPT ![o] = @ + 1]
  /\ refs' = [refs EXCEPT ![o] = @ + 1]
  /\ Returns(t)
  /\ UNCHANGED <<g_DllLockCount, alloc, fields, clrRefs, locks, loaded, fault>>

\* Where `delete` starts: the factory's destructor only touches the lock count.
DestructorOf(o) == IF o \in Profilers THEN "dtor" ELSE "unlock"

\* Mutant: the creator returns E_NOINTERFACE and forgets the object.
QueryRefusedLeaks(t) ==
  /\ pc[t].at = "query"
  /\ Returns(t)
  /\ UNCHANGED <<server, host, fault>>

\* E_NOINTERFACE: the creator deletes the object, whose count is still zero.
QueryRefused(t) ==
  /\ pc[t].at = "query"
  /\ pc' = [pc EXCEPT ![t].at = DestructorOf(pc[t].obj)]
  /\ UNCHANGED <<server, host, fault>>

-----------------------------------------------------------------------------
(***************************************************************************)
(* IUnknown, on either class.  A client's QueryInterface does what AddRef  *)
(* does when it knows the interface, and nothing otherwise.                *)
(***************************************************************************)
AddRef(t, o) ==
  /\ refs[o] > 0
  /\ refs[o] < MaxRefs
  /\ Enters(t, "addref", o)
  /\ UNCHANGED <<server, host, fault>>

Increment(t) ==
  LET o == pc[t].on IN
  /\ pc[t].at = "addref"
  /\ m_nRefCount' = [m_nRefCount EXCEPT ![o] = @ + 1]
  /\ refs' = [refs EXCEPT ![o] = @ + 1]
  /\ Returns(t)
  /\ UNCHANGED <<g_DllLockCount, alloc, fields, clrRefs, locks, loaded, fault>>

NoInterface(t) ==
  /\ pc[t].at = "addref"
  /\ Returns(t)
  /\ UNCHANGED <<server, host, fault>>

Release(t, o) ==
  /\ pc[t] = Idle
  /\ refs[o] > 0
  /\ MayGiveUp(o)
  /\ refs' = [refs EXCEPT ![o] = @ - 1]
  /\ pc' = [pc EXCEPT ![t] = At("release", None, o, 0)]
  /\ UNCHANGED <<server, locks, loaded, fault>>

\* nRefCount = InterlockedDecrement(&m_nRefCount)
Decrement(t) ==
  LET o == pc[t].obj IN
  /\ pc[t].at = "release"
  /\ m_nRefCount' = [m_nRefCount EXCEPT ![o] = @ - 1]
  /\ pc' = [pc EXCEPT ![t] = At("test", None, o, m_nRefCount[o] - 1)]
  /\ UNCHANGED <<g_DllLockCount, alloc, fields, clrRefs, host, fault>>

\* Mutants: Release reads the member again instead of testing its own result;
\* it destroys the object one reference early; it never destroys it.
LastByMember(t) == m_nRefCount[pc[t].obj] = 0
LastTooEarly(t) == pc[t].res <= 1
LastNever(t) == FALSE

Last(t) == pc[t].res = 0

\* if (nRefCount == 0) delete this
TestCount(t) ==
  /\ pc[t].at = "test"
  /\ IF Last(t)
       THEN pc' = [pc EXCEPT ![t].at = DestructorOf(pc[t].obj)]
       ELSE Returns(t)
  /\ UNCHANGED <<server, host, fault>>

(***************************************************************************)
(* ~CRewriteProfiler up to the lock count: SAFE_RELEASE of both pointers   *)
(* (and of the metadata cache, see MetadataCache).  A pointer no call has  *)
(* set may happen to be NULL, or the macro calls Release through it.       *)
(***************************************************************************)
ClrRefsOf(p) ==
  (IF fields[p].info = "ref" THEN 1 ELSE 0)
    + (IF fields[p].info2 = "ref" THEN 1 ELSE 0)

ReleasePointers(t) ==
  LET p == pc[t].obj IN
  /\ pc[t].at = "dtor"
  /\ clrRefs' = clrRefs - ClrRefsOf(p)
  /\ fields' = [fields EXCEPT ![p].info = "null", ![p].info2 = "null"]
  /\ pc' = [pc EXCEPT ![t].at = "unlock"]
  /\ UNCHANGED <<g_DllLockCount, alloc, m_nRefCount, host, fault>>

ReleaseIndeterminate(t) ==
  LET p == pc[t].obj IN
  /\ pc[t].at = "dtor"
  /\ "uninit" \in {fields[p].info, fields[p].info2}
  /\ fault' = "wild_release"
  /\ UNCHANGED <<server, host, pc>>

\* The destructors' last statement; the memory is returned to the heap.
DllUnlock(t) ==
  LET o == pc[t].obj IN
  /\ pc[t].at = "unlock"
  /\ DiscountObject
  /\ alloc' = alloc \ {o}
  /\ fields' = [p \in Profilers |->
                  IF p = o THEN Indeterminate ELSE fields[p]]
  /\ pc' = [pc EXCEPT ![t] = At("tail", pc[t].on, None, 0)]
  /\ UNCHANGED <<m_nRefCount, clrRefs, host, fault>>

\* What runs after `delete`: CLogger::Shutdown in the profiler's Release,
\* then the return to the caller.
Leave(t) ==
  /\ pc[t].at = "tail"
  /\ Returns(t)
  /\ UNCHANGED <<server, host, fault>>

-----------------------------------------------------------------------------
LockServer(t, f, fLock) ==
  /\ pc[t] = Idle
  /\ refs[f] > 0
  /\ IF fLock
       THEN /\ locks < MaxLocks
            /\ g_DllLockCount' = g_DllLockCount + 1
            /\ locks' = locks + 1
       ELSE /\ locks > 0
            /\ g_DllLockCount' = g_DllLockCount - 1
            /\ locks' = locks - 1
  /\ UNCHANGED <<alloc, m_nRefCount, fields, clrRefs, refs, loaded, pc, fault>>

\* Mutant: Initialize believes in the second interface when it has the first.
InitializeTrusting(t, p) ==
  /\ pc[t] = Idle
  /\ refs[p] > 0
  /\ fields[p].info = "uninit"
  /\ \E got \in {"null", "ref"} :
       /\ fields' = [fields EXCEPT ![p] =
                       [info |-> "ref", info2 |-> got, v2 |-> "yes"]]
       /\ clrRefs' = clrRefs + (IF got = "ref" THEN 2 ELSE 1)
  /\ UNCHANGED <<g_DllLockCount, alloc, m_nRefCount, host, pc, fault>>

(***************************************************************************)
(* CRewriteProfiler::Initialize, which the CLR calls once.  QueryInterface *)
(* sets the pointer to NULL when it fails; when the first one fails the    *)
(* method returns E_FAIL before it looks at the second.                    *)
(***************************************************************************)
Initialize(t, p) ==
  /\ pc[t] = Idle
  /\ refs[p] > 0
  /\ fields[p].info = "uninit"
  /\ \/ /\ fields' = [fields EXCEPT ![p].info = "null"]
        /\ UNCHANGED clrRefs
     \/ /\ fields' = [fields EXCEPT ![p] =
                        [info |-> "ref", info2 |-> "null", v2 |-> "no"]]
        /\ clrRefs' = clrRefs + 1
     \/ /\ fields' = [fields EXCEPT ![p] =
                        [info |-> "ref", info2 |-> "ref", v2 |-> "yes"]]
        /\ clrRefs' = clrRefs + 2
  /\ UNCHANGED <<g_DllLockCount, alloc, m_nRefCount, host, pc, fault>>

\* Any callback of an initialised profiler (JITCompilationStarted,
\* ModuleLoadFinished, Shutdown, the empty ones of BaseProfiler): no step
\* of it changes the state of this module.
Callback(t, p) ==
  /\ refs[p] > 0
  /\ fields[p].info = "ref"
  /\ Enters(t, "callback", p)
  /\ UNCHANGED <<server, host, fault>>

CallbackReturns(t) ==
  /\ pc[t].at = "callback"
  /\ Returns(t)
  /\ UNCHANGED <<server, host, fault>>

-----------------------------------------------------------------------------
\* Mutant: an off-by-one in the answer.
CanUnloadWithOne == g_DllLockCount <= 1

DllCanUnloadNow == g_DllLockCount = 0

\* External: COM maps the library, and unmaps it on an S_OK answer once the
\* threads that were inside have left (its delay for free-threaded servers).
LoadLibrary ==
  /\ ~loaded
  /\ loaded' = TRUE
  /\ g_DllLockCount' = 0
  /\ UNCHANGED <<alloc, m_nRefCount, fields, clrRefs, refs, locks, pc, fault>>

UnloadLibrary ==
  /\ loaded
  /\ DllCanUnloadNow
  /\ \A t \in Threads : pc[t] = Idle
  /\ loaded' = FALSE
  /\ UNCHANGED <<server, refs, locks, pc, fault>>

-----------------------------------------------------------------------------
\* Calls a client may make or not.
Call(t) ==
  \/ DllGetClassObject(t)
  \/ \E f \in Factories : CreateInstance(t, f)
  \/ \E o \in Objects : AddRef(t, o) \/ Release(t, o)
  \/ \E f \in Factories, b \in BOOLEAN : LockServer(t, f, b)
  \/ \E p \in Profilers : Initialize(t, p) \/ Callback(t, p)

\* Steps of a call in progress.
Continue(t) ==
  \/ GetClassRefused(t) \/ NewFactory(t)
  \/ CreateRefused(t) \/ NewProfiler(t) \/ NewProfilerThrows(t)
  \/ QueryGranted(t) \/ QueryRefused(t)
  \/ Increment(t) \/ NoInterface(t)
  \/ Decrement(t) \/ TestCount(t)
  \/ ReleasePointers(t) \/ ReleaseIndeterminate(t) \/ DllUnlock(t) \/ Leave(t)
  \/ CallbackReturns(t)

\* The process died: nothing happens any more.
Crashed == fault # "none" /\ UNCHANGED vars

Next ==
  \/ /\ fault = "none"
     /\ \/ \E t \in Threads : Call(t) \/ Continue(t)
        \/ LoadLibrary
        \/ UnloadLibrary
  \/ Crashed

Spec == Init /\ [][Next]_vars

\* The operating system schedules every thread that is inside the library;
\* clients need not call, and COM need not load or unload.
Fairness == \A t \in Threads : WF_vars(fault = "none" /\ Continue(t))

FairSpec == Spec /\ Fairness

-----------------------------------------------------------------------------
(***************************************************************************)
(* Properties.                                                             *)
(***************************************************************************)
Releasing(o) == {t \in Threads : pc[t].at = "release" /\ pc[t].obj = o}

\* Thread t alone may create or destroy the object it works on.
Owns(t) == \/ pc[t].at \in {"query", "dtor", "unlock"}
           \/ pc[t].at = "test" /\ pc[t].res = 0

(***************************************************************************)
(* AddRef and Release, from any threads in any order: the counter in an    *)
(* object is exactly the references clients hold plus those on their way   *)
(* back, and nobody holds a reference to an object that was destroyed.     *)
(***************************************************************************)
RefCountExact ==
  \A o \in Objects :
    IF o \in alloc
      THEN m_nRefCount[o] = refs[o] + Cardinality(Releasing(o))
      ELSE refs[o] = 0 /\ Releasing(o) = {}

(***************************************************************************)
(* Release's `delete this` and the two failed-QueryInterface `delete`s: an *)
(* object being created or destroyed is in the hands of one thread, exists *)
(* and has no reference; and an object without a reference is in such      *)
(* hands, so none is destroyed twice and none is forgotten.                *)
(***************************************************************************)
OneDestroyer ==
  /\ \A t \in Threads : Owns(t) =>
       /\ pc[t].obj \in alloc
       /\ m_nRefCount[pc[t].obj] = 0
       /\ \A u \in Threads : Owns(u) /\ pc[u].obj = pc[t].obj => u = t
  /\ \A o \in alloc : m_nRefCount[o] = 0 =>
       \E t \in Threads : Owns(t) /\ pc[t].obj = o

(***************************************************************************)
(* g_DllLockCount is the number of objects in existence plus the server    *)
(* locks: it never goes below zero, and DllCanUnloadNow answers S_OK       *)
(* exactly when nothing keeps the library in memory.                       *)
(***************************************************************************)
LockCountExact == g_DllLockCount = Cardinality(alloc) + locks

(***************************************************************************)
(* Both kinds of counters at once, so that a count moved from one to the   *)
(* other is no exchange.                                                   *)
(***************************************************************************)
CountsExact == RefCountExact /\ LockCountExact

(***************************************************************************)
(* While g_DllLockCount is zero the only code of the library that can run  *)
(* is the head of DllGetClassObject and the tail of a Release, after its   *)
(* delete this or after a decrement that did not give zero; every other    *)
(* method body, constructor and destructor is covered by the count.        *)
(***************************************************************************)
CallsCovered ==
  g_DllLockCount = 0 =>
    \A t \in Threads : \/ pc[t].at \in {"idle", "getclass", "tail"}
                       \/ pc[t].at = "test" /\ pc[t].res # 0

(***************************************************************************)
(* An unloaded library has left nothing behind: no object, no reference or *)
(* lock of a client, no thread, no reference to the CLR.                   *)
(***************************************************************************)
UnloadedMeansEmpty ==
  ~loaded => /\ alloc = {} /\ locks = 0 /\ clrRefs = 0
             /\ \A o \in Objects : refs[o] = 0
             /\ \A t \in Threads : pc[t] = Idle

(***************************************************************************)
(* Unloading the library when DllCanUnloadNow answers S_OK takes away no   *)
(* code that runs and nothing that anybody still has.                      *)
(***************************************************************************)
UnloadSafe == CallsCovered /\ UnloadedMeansEmpty

(***************************************************************************)
(* Whatever calls were made, refused or failed, once the clients hold no   *)
(* reference and no lock and no call is in progress, every object is gone, *)
(* the CLR has all its references back and DllCanUnloadNow answers S_OK.   *)
(***************************************************************************)
Quiescent ==
  /\ fault = "none"
  /\ locks = 0
  /\ \A o \in Objects : refs[o] = 0
  /\ \A t \in Threads : pc[t] = Idle

NoOrphans == Quiescent => alloc = {} /\ clrRefs = 0 /\ DllCanUnloadNow

(***************************************************************************)
(* For its whole duration a callback runs on an object that exists, whose  *)
(* m_CorProfilerInfo is valid, and m_CorProfilerInfo2 too when             *)
(* m_CanUseV2Interfaces says that it may be used.                          *)
(***************************************************************************)
CallbackSafe ==
  \A t \in Threads : pc[t].at = "callback" =>
    LET p == pc[t].on IN
    /\ p \in alloc
    /\ fields[p].info = "ref"
    /\ fields[p].v2 = "yes" => fields[p].info2 = "ref"

(***************************************************************************)
(* An object that loses its last reference, or never gets one, is          *)
(* eventually destroyed (or the process dies).                             *)
(***************************************************************************)
UnownedGoes ==
  \A o \in Objects :
    (o \in alloc /\ refs[o] = 0)
      ~> (o \notin alloc \/ refs[o] > 0 \/ fault # "none")

(***************************************************************************)
(* The server implements the lifetime COM promises.                        *)
(***************************************************************************)
BeingCreated(o) == \E t \in Threads : pc[t].at = "query" /\ pc[t].obj = o

LifeOf(o) ==
  IF o \notin alloc THEN "none"
  ELSE IF m_nRefCount[o] > 0 THEN "owned"
  ELSE IF BeingCreated(o) THEN "fresh"
  ELSE "dying"

OwedOn(o) == IF o \in alloc THEN m_nRefCount[o] ELSE 0

Lifetime == INSTANCE ComLifetime
              WITH life <- [o \in Objects |-> LifeOf(o)],
                   owed <- [o \in Objects |-> OwedOn(o)]

KeepsLifetime == Lifetime!Spec

(***************************************************************************)
(* "safely release COM pointer" (stdafx.h, above SAFE_RELEASE): no release *)
(* goes through a pointer that was never set.                              *)
(***************************************************************************)
SafeRelease == fault # "wild_release"
=============================================================================
