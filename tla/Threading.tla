----------------------------- MODULE Threading -----------------------------
(***************************************************************************)
(* The thread support the vendored log4cpp headers compile in: a Mutex     *)
(* with its ScopedLock, and a ThreadLocalDataHolder<T>, in the version of  *)
(* the thread library that Portability.hh and Threading.hh select.  One    *)
(* mutex and one holder; the threads lock, nest locks, set and release     *)
(* thread-local objects, delete what they released and exit, and one of    *)
(* them finally destroys the holder.  The holder is a static object, so    *)
(* that its memory is zero before its constructor runs: the constructor of *)
(* the build without threads leaves the pointer as it finds it.            *)
(***************************************************************************)
EXTENDS Naturals, FiniteSets

CONSTANTS
    Threads, Main,  \* the threads; a build without threading runs Main only
    Object,         \* the heap objects of type T
    Foreign,        \* an object of another component, kept under its own key
    Null,           \* the null pointer, and nobody
    Platform,       \* the platforms this instance is built for
    KeysRunOut,     \* whether TlsAlloc, pthread_key_create may have no key left
    MaxNesting      \* how many ScopedLocks one thread nests

(* The thread libraries: whether their mutex excludes other threads, and   *)
(* lets its owner in again; whether ~ThreadLocalDataHolder deletes what    *)
(* the calling thread holds; whether the end of a thread deletes what it   *)
(* holds: never, while the key exists, or always; what the key may be when *)
(* its allocation failed and the constructor did not look; and whether     *)
(* reset of the object already held deletes it.                            *)
Row(excludes, recursive, destroyDeletes, exitDeletes, keyFailures, deletesSame) ==
    [excludes |-> excludes, recursive |-> recursive,
     destroyDeletes |-> destroyDeletes, exitDeletes |-> exitDeletes,
     keyFailures |-> keyFailures, deletesSame |-> deletesSame]

(* A CRITICAL_SECTION and a TLS index, which has no destructor; TlsAlloc   *)
(* answers an index that no thread has.                                    *)
MSThreads == Row(TRUE, TRUE, FALSE, "never", {"none"}, TRUE)

(* A default pthread mutex, and a key with the destructor freeHolder.  A   *)
(* failed pthread_key_create leaves _key as it was, which is no key, or a  *)
(* key that somebody else created.                                         *)
PThreads == Row(TRUE, FALSE, TRUE, "with_key", {"none", "foreign"}, TRUE)

(* An omni_mutex, and a value_t that the thread deletes when it ends.      *)
OmniThreads == Row(TRUE, FALSE, FALSE, "always", {}, TRUE)

(* A boost::mutex and a boost::thread_specific_ptr, which ignores a reset  *)
(* to what it holds.                                                       *)
BoostThreads == Row(TRUE, FALSE, TRUE, "with_key", {}, FALSE)

(* Integers for the mutex and the lock, and one pointer for all threads.   *)
DummyThreads == Row(FALSE, TRUE, TRUE, "never", {}, TRUE)

Libraries == {MSThreads, PThreads, OmniThreads, BoostThreads, DummyThreads}

(* What each configuration header defines; config.h is written by the      *)
(* configure script and is not in the repository, so its two rows are the  *)
(* libraries of Threading.hh that no other header selects.                 *)
Macros ==
    [msvc               |-> {"HAVE_THREADING", "USE_MSTHREADS"},
     msvc_stlport_boost |-> {"HAVE_THREADING", "USE_BOOSTTHREADS"},
     openvms            |-> {},
     config_pthreads    |-> {"HAVE_THREADING", "USE_PTHREADS"},
     config_omni        |-> {"HAVE_THREADING", "USE_OMNITHREADS"}]

(* The headers Threading.hh includes under a set of macros.                *)
Included(macros) ==
    IF "HAVE_THREADING" \in macros
    THEN {use[2] : use \in {u \in {<<"USE_OMNITHREADS", OmniThreads>>,
                                   <<"USE_BOOSTTHREADS", BoostThreads>>,
                                   <<"USE_MSTHREADS", MSThreads>>,
                                   <<"USE_PTHREADS", PThreads>>} :
                            u[1] \in macros}}
    ELSE {DummyThreads}

ASSUME ThreadingAssumption ==
    /\ Main \in Threads
    /\ Foreign \notin Object
    /\ Null \notin Object \cup {Foreign} \cup Threads
    /\ Platform \subseteq DOMAIN Macros
    /\ KeysRunOut \in BOOLEAN
    /\ MaxNesting \in Nat

(* Every platform gets exactly one library.                                *)
ASSUME OneLibrary == \A p \in Platform : Cardinality(Included(Macros[p])) = 1

VARIABLES
    library,   \* the thread library compiled in
    key,       \* the holder's key: its own ("good"), "none", or "foreign"
    destroyed, \* whether the holder's destructor has run
    slot,      \* per thread the pointer kept under the key
    mine,      \* per thread the objects its own code has a pointer to
    born,      \* the objects allocated so far
    deletes,   \* how often each object was deleted (up to 2)
    kept,      \* history: the objects a reset deleted and went on holding
    exited,    \* the threads that have terminated
    owner,     \* the thread that owns the mutex, or Null
    count,     \* how often the owner entered it
    locks,     \* per thread the ScopedLocks it has constructed
    waiting    \* the threads inside the constructor of a ScopedLock

holderVars == <<key, destroyed, slot, mine, born, deletes, kept>>
mutexVars == <<owner, count, locks, waiting>>
threadingVars == <<library, holderVars, exited, mutexVars>>

-----------------------------------------------------------------------------

(* The objects that can be deleted, and the pointers.                      *)
Item == Object \cup {Foreign}
Pointer == Item \cup {Null}

ThreadingInit ==
    /\ \E p \in Platform : library \in Included(Macros[p])
    /\ key \in {"good"} \cup (IF KeysRunOut THEN library.keyFailures ELSE {})
    /\ destroyed = FALSE
    /\ slot \in [Threads -> IF key = "foreign" THEN {Null, Foreign}
                                               ELSE {Null}]
    /\ mine = [t \in Threads |-> {}]
    /\ born = {}
    /\ deletes = [o \in Item |-> 0]
    /\ kept = {}
    /\ exited = {}
    /\ owner = Null
    /\ count = 0
    /\ locks = [t \in Threads |-> 0]
    /\ waiting = {}

Runs(t) ==
    /\ t \notin exited \cup waiting
    /\ ~library.excludes => t = Main

(* get(): without a key TlsGetValue and pthread_getspecific answer NULL,   *)
(* and under somebody else's key what is kept there.                       *)
Get(t) == IF key = "none" \/ destroyed THEN Null ELSE slot[t]

(* TlsSetValue, pthread_setspecific, Holder::data: nothing is stored       *)
(* without a key.                                                          *)
Set(t, p) == slot' = IF key = "none" THEN slot ELSE [slot EXCEPT ![t] = p]

(* operator delete on a pointer; deleting NULL does nothing.               *)
Delete(p) ==
    deletes' = [o \in Item |->
                  IF o = p /\ deletes[o] < 2 THEN deletes[o] + 1
                                             ELSE deletes[o]]

(* The user allocates an object.                                           *)
New(t, o) ==
    /\ Runs(t)
    /\ o \notin born
    /\ born' = born \cup {o}
    /\ mine' = [mine EXCEPT ![t] = @ \cup {o}]
    /\ UNCHANGED <<library, key, destroyed, slot, deletes, kept, exited,
                   mutexVars>>

(* The user deletes an object it has from new or from release().           *)
Drop(t, o) ==
    /\ Runs(t)
    /\ o \in mine[t]
    /\ mine' = [mine EXCEPT ![t] = @ \ {o}]
    /\ Delete(o)
    /\ UNCHANGED <<library, key, destroyed, slot, born, kept, exited, mutexVars>>

(* reset(p): deletes what is held, then keeps p, owned by the holder now.  *)
(* The caller passes an object of its own, NULL, or what is held already:  *)
(* that one is deleted and kept, except by boost.                          *)
Reset(t, p) ==
    /\ Runs(t)
    /\ ~destroyed
    /\ p \in mine[t] \cup {Null, Get(t)}
    /\ IF p = Get(t) /\ ~library.deletesSame
       THEN UNCHANGED <<deletes, slot, kept>>
       ELSE /\ Delete(Get(t))
            /\ Set(t, p)
            /\ kept' = kept \cup (({p} \cap {Get(t)}) \ {Null})
    /\ mine' = [mine EXCEPT ![t] = @ \ {p}]
    /\ UNCHANGED <<library, key, destroyed, born, exited, mutexVars>>

\* Mutant: the slot is not cleared.
ReleaseKeeps(t) ==
    /\ Runs(t)
    /\ ~destroyed
    /\ mine' = [mine EXCEPT ![t] = @ \cup ({Get(t)} \ {Null})]
    /\ UNCHANGED <<library, key, destroyed, slot, born, deletes, kept, exited,
                   mutexVars>>

(* release(): gives what is held back to the caller.                       *)
Release(t) ==
    /\ Runs(t)
    /\ ~destroyed
    /\ mine' = [mine EXCEPT ![t] = @ \cup ({Get(t)} \ {Null})]
    /\ Set(t, Null)
    /\ UNCHANGED <<library, key, destroyed, born, deletes, kept, exited,
                   mutexVars>>

(* ~ThreadLocalDataHolder(), run by t: TlsFree frees the index only;       *)
(* pthreads and boost delete what t holds and then the key; the dummy      *)
(* deletes the only object; omni does nothing.                             *)
Destroy(t) ==
    /\ Runs(t)
    /\ ~destroyed
    /\ destroyed' = TRUE
    /\ IF library.destroyDeletes
       THEN Delete(Get(t)) /\ Set(t, Null)
       ELSE UNCHANGED <<deletes, slot>>
    /\ UNCHANGED <<library, key, mine, born, kept, exited, mutexVars>>

(* The end of a thread deletes what it holds: freeHolder and boost's       *)
(* cleanup run while the key exists, omni deletes its Holder in any case,  *)
(* and a TLS index has no destructor.                                      *)
EndDeletes ==
    \/ library.exitDeletes = "always"
    \/ library.exitDeletes = "with_key" /\ key = "good" /\ ~destroyed

(* A thread terminates, with no object and no lock of its own left.  Under *)
(* somebody else's key the destructor is theirs, and may delete or not.    *)
Exit(t) ==
    /\ Runs(t)
    /\ mine[t] = {}
    /\ locks[t] = 0
    /\ exited' = exited \cup {t}
    /\ \/ /\ EndDeletes \/ (key = "foreign" /\ ~destroyed)
          /\ Delete(slot[t])
          /\ slot' = [slot EXCEPT ![t] = Null]
       \/ ~EndDeletes /\ UNCHANGED <<deletes, slot>>
    /\ UNCHANGED <<library, key, destroyed, mine, born, kept, mutexVars>>

(* The component that did create the key uses it.                          *)
OtherUses(t) ==
    /\ Runs(t)
    /\ key = "foreign" /\ ~destroyed
    /\ \E p \in {Null, Foreign} : slot' = [slot EXCEPT ![t] = p]
    /\ UNCHANGED <<library, key, destroyed, mine, born, deletes, kept, exited,
                   mutexVars>>

-----------------------------------------------------------------------------
(* The mutex.  A critical section is entered again by its owner; the other *)
(* mutexes are not recursive; the dummy's ScopedLock is an int.            *)
Free(t) ==
    \/ owner = Null
    \/ library.recursive /\ owner = t
    \/ ~library.excludes

(* The constructor of a ScopedLock is entered...                           *)
Ask(t) ==
    /\ Runs(t)
    /\ locks[t] < MaxNesting
    /\ waiting' = waiting \cup {t}
    /\ UNCHANGED <<library, holderVars, exited, owner, count, locks>>

(* ... and returns, the mutex entered.                                     *)
Enter(t) ==
    /\ t \in waiting
    /\ Free(t)
    /\ waiting' = waiting \ {t}
    /\ locks' = [locks EXCEPT ![t] = @ + 1]
    /\ IF library.excludes
       THEN owner' = t /\ count' = count + 1
       ELSE UNCHANGED <<owner, count>>
    /\ UNCHANGED <<library, holderVars, exited>>

\* Mutant: one LeaveCriticalSection frees it, however often it was entered.
LeaveFrees(t) ==
    /\ Runs(t)
    /\ locks[t] > 0
    /\ locks' = [locks EXCEPT ![t] = @ - 1]
    /\ owner' = Null
    /\ count' = 0
    /\ UNCHANGED <<library, holderVars, exited, waiting>>

\* Mutant: the mutex is left by hand, and by the destructor again.
LeaveTwice(t) ==
    /\ Runs(t)
    /\ locks[t] > 0
    /\ locks' = [locks EXCEPT ![t] = @ - 1]
    /\ owner' = IF count = 1 THEN Null ELSE owner
    /\ count' = count - 2
    /\ UNCHANGED <<library, holderVars, exited, waiting>>

(* The destructor of a ScopedLock.                                         *)
Leave(t) ==
    /\ Runs(t)
    /\ locks[t] > 0
    /\ locks' = [locks EXCEPT ![t] = @ - 1]
    /\ IF library.excludes
       THEN /\ owner' = IF count = 1 THEN Null ELSE owner
            /\ count' = count - 1
       ELSE UNCHANGED <<owner, count>>
    /\ UNCHANGED <<library, holderVars, exited, waiting>>

ThreadingNext ==
    \/ \E t \in Threads :
          \/ \E o \in Object : New(t, o)
          \/ \E o \in Item : Drop(t, o)
          \/ \E p \in Pointer : Reset(t, p)
          \/ Release(t) \/ Destroy(t) \/ Exit(t) \/ OtherUses(t)
          \/ Ask(t) \/ Enter(t) \/ Leave(t)

ThreadingSpec == ThreadingInit /\ [][ThreadingNext]_threadingVars

-----------------------------------------------------------------------------

ThreadingTypeOK ==
    /\ library \in Libraries
    /\ key \in {"good", "none", "foreign"}
    /\ destroyed \in BOOLEAN
    /\ slot \in [Threads -> Pointer]
    /\ mine \in [Threads -> SUBSET Item]
    /\ born \subseteq Object
    /\ deletes \in [Item -> 0..2]
    /\ kept \subseteq Item
    /\ exited \subseteq Threads
    /\ owner \in Threads \cup {Null}
    /\ count \in Nat
    /\ locks \in [Threads -> Nat]
    /\ waiting \subseteq Threads

(* An object has one owner at most: one thread's slot, or the code of one  *)
(* thread.  reset() takes ownership and release() gives it back.           *)
OneOwner ==
    \A t, u \in Threads : \A o \in Object :
        /\ slot[t] = o /\ slot[u] = o => t = u
        /\ o \in mine[t] /\ o \in mine[u] => t = u
        /\ ~(slot[t] = o /\ o \in mine[u])

(* What a thread can get from the holder or owns itself is an object that  *)
(* was allocated and not deleted, whatever the other threads, an exit or   *)
(* the holder's destructor did - or that a reset to itself deleted.        *)
ReachableIsLive ==
    \A t \in Threads : \A o \in Object :
        Get(t) = o \/ o \in mine[t] =>
            o \in born /\ (deletes[o] = 0 \/ o \in kept)

(* Nothing is deleted twice: by reset, by the end of the thread, by the    *)
(* end of the holder, or by the user after release - but what a reset to   *)
(* itself deleted is still held, and the next owner to let go deletes it   *)
(* again.                                                                  *)
DeletedOnce == \A o \in Object : deletes[o] <= 1 \/ o \in kept

(* An allocated object that nobody can reach or will delete any more.      *)
Lost ==
    {o \in born :
        /\ deletes[o] = 0
        /\ \A t \in Threads : o \notin mine[t]
        /\ \A t \in Threads \ exited :
              slot[t] = o => destroyed /\ library.exitDeletes # "always"}

(* An object gets lost only where there is no key to hold it; with the     *)
(* holder, in the slot of another thread; or with its thread, where the    *)
(* end of a thread deletes nothing.  No sequence of reset and release      *)
(* leaks, and under omni nothing does.                                     *)
LostAccounted ==
    key # "none" =>
        \A o \in Lost : \E t \in Threads :
            /\ slot[t] = o
            /\ \/ destroyed /\ library.exitDeletes # "always"
               \/ t \in exited /\ library.exitDeletes = "never"

(* The holder, under a key of its own or none: every object is somebody's, *)
(* is not reachable once deleted, is deleted once and not forgotten.  The  *)
(* one use that breaks it is a reset to the object already held.           *)
HolderSound ==
    key # "foreign" =>
        OneOwner /\ ReachableIsLive /\ DeletedOnce /\ LostAccounted

(* The mutex knows its ScopedLocks: it is owned by the thread that has     *)
(* some, entered once for each, and free when nobody has any.              *)
MutexBalanced ==
    library.excludes =>
        /\ owner = Null <=> count = 0
        /\ \A t \in Threads : locks[t] = IF owner = t THEN count ELSE 0

(* At most one thread is between the constructor and the destructor of its *)
(* ScopedLocks.                                                            *)
MutualExclusion ==
    \A t, u \in Threads : locks[t] > 0 /\ locks[u] > 0 => t = u

(* The mutex excludes, also when one of two nested locks is left.          *)
MutexSound == MutexBalanced /\ MutualExclusion

(* MSThreads.hh:98-99: the held object "will be deleted upon termination   *)
(* of the thread to which it belongs".                                     *)
DeletedWithThread ==
    \A t \in exited : Get(t) # Null => deletes[Get(t)] > 0

(* MSThreads.hh:147-148, reset: "@param p the new object to hold.          *)
(* @post get() == p".                                                      *)
GetAfterReset ==
    [][\A t \in Threads, p \in Pointer : Reset(t, p) => Get(t)' = p]_threadingVars
=============================================================================
