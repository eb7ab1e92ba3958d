-------------------------- MODULE ThreadingProofs --------------------------
(***************************************************************************)
(* Ownership of thread-local objects and mutual exclusion in Threading,    *)
(* for all threads, objects and thread libraries.                          *)
(***************************************************************************)
EXTENDS Threading, TLAPS

-----------------------------------------------------------------------------
\* Whatever the macros, the library compiled in is one of the five.
LEMMA IncludedLibraries ==
  ASSUME NEW macros PROVE Included(macros) \subseteq Libraries
  <1>1. {OmniThreads, BoostThreads, MSThreads, PThreads, DummyThreads}
          \subseteq Libraries
    BY Zenon DEF Libraries
  <1>2. ASSUME NEW use \in {<<"USE_OMNITHREADS", OmniThreads>>,
                            <<"USE_BOOSTTHREADS", BoostThreads>>,
                            <<"USE_MSTHREADS", MSThreads>>,
                            <<"USE_PTHREADS", PThreads>>}
        PROVE  use[2] \in {OmniThreads, BoostThreads, MSThreads, PThreads}
    <2>1. CASE use = <<"USE_OMNITHREADS", OmniThreads>>
      BY <2>1
    <2>2. CASE use = <<"USE_BOOSTTHREADS", BoostThreads>>
      BY <2>2
    <2>3. CASE use = <<"USE_MSTHREADS", MSThreads>>
      BY <2>3
    <2>4. CASE use = <<"USE_PTHREADS", PThreads>>
      BY <2>4
    <2> QED BY <2>1, <2>2, <2>3, <2>4, Zenon
  <1>3. CASE "HAVE_THREADING" \in macros
    BY <1>1, <1>2, <1>3, Zenon DEF Included
  <1>4. CASE "HAVE_THREADING" \notin macros
    BY <1>1, <1>4, Zenon DEF Included
  <1> QED BY <1>3, <1>4

\* What `delete` does to the counters of the objects.
LEMMA DeleteFacts ==
  ASSUME deletes \in [Item -> 0 .. 2], NEW p, Delete(p)
  PROVE  /\ deletes' \in [Item -> 0 .. 2]
         /\ \A o \in Item : o # p => deletes'[o] = deletes[o]
         /\ p \in Item => deletes'[p] > 0
         /\ p \in Item /\ deletes[p] = 0 => deletes'[p] = 1
         /\ p \notin Item => deletes' = deletes
  BY SMT DEF Delete

-----------------------------------------------------------------------------
(***************************************************************************)
(* The types of the holder and its users, under any key.                   *)
(***************************************************************************)
HolderType ==
  /\ key \in {"good", "none", "foreign"}
  /\ destroyed \in BOOLEAN
  /\ slot \in [Threads -> Pointer]
  /\ mine \in [Threads -> SUBSET Item]
  /\ born \subseteq Object
  /\ deletes \in [Item -> 0 .. 2]
  /\ kept \subseteq Item

LEMMA HolderTypeInit == ASSUME ThreadingInit PROVE HolderType
  <1>1. key \in {"good", "none", "foreign"}
    <2>1. PICK p \in Platform : library \in Included(Macros[p])
      BY DEF ThreadingInit
    <2>2. library \in Libraries
      BY <2>1, IncludedLibraries
    <2>3. library.keyFailures \subseteq {"none", "foreign"}
      BY <2>2 DEF Libraries, MSThreads, PThreads, OmniThreads, BoostThreads,
                  DummyThreads, Row
    <2> QED BY <2>3 DEF ThreadingInit
  <1>2. slot \in [Threads -> Pointer]
    BY DEF ThreadingInit, Pointer, Item
  <1>3. /\ destroyed = FALSE /\ born = {} /\ kept = {}
        /\ mine = [t \in Threads |-> {}] /\ deletes = [o \in Item |-> 0]
    BY DEF ThreadingInit
  <1>4. mine \in [Threads -> SUBSET Item] /\ deletes \in [Item -> 0 .. 2]
    BY <1>3
  <1>5. born \subseteq Object /\ kept \subseteq Item /\ destroyed \in BOOLEAN
    BY <1>3
  <1> QED BY <1>1, <1>2, <1>4, <1>5 DEF HolderType

LEMMA HolderTypeStep ==
  ASSUME HolderType, [ThreadingNext]_threadingVars PROVE HolderType'
  <1>1. CASE UNCHANGED holderVars
    BY <1>1 DEF holderVars, HolderType
  <1>2. ASSUME NEW t \in Threads, NEW o \in Object, New(t, o)
        PROVE  HolderType'
    BY <1>2 DEF New, HolderType, Item
  <1>3. ASSUME NEW t \in Threads, NEW o \in Item, Drop(t, o) PROVE HolderType'
    <2>1. deletes' \in [Item -> 0 .. 2]
      BY <1>3, DeleteFacts DEF Drop, HolderType
    <2> QED BY <1>3, <2>1 DEF Drop, HolderType
  <1>4. ASSUME NEW t \in Threads, NEW p \in Pointer, Reset(t, p)
        PROVE  HolderType'
    <2>1. deletes' \in [Item -> 0 .. 2]
      BY <1>4, DeleteFacts DEF Reset, HolderType
    <2>2. slot' \in [Threads -> Pointer]
      BY <1>4 DEF Reset, Set, HolderType
    <2>3. kept' \subseteq Item
      BY <1>4 DEF Reset, HolderType, Pointer
    <2>4. mine' \in [Threads -> SUBSET Item]
      BY <1>4 DEF Reset, HolderType
    <2> QED BY <1>4, <2>1, <2>2, <2>3, <2>4 DEF Reset, HolderType
  <1>5. ASSUME NEW t \in Threads, Release(t) PROVE HolderType'
    <2>1. Get(t) \in Pointer /\ Null \in Pointer
      BY DEF Get, HolderType, Pointer
    <2>2. mine' \in [Threads -> SUBSET Item]
      BY <1>5, <2>1 DEF Release, HolderType, Pointer
    <2>3. slot' \in [Threads -> Pointer]
      BY <1>5, <2>1 DEF Release, Set, HolderType
    <2> QED BY <1>5, <2>2, <2>3 DEF Release, HolderType
  <1>6. ASSUME NEW t \in Threads, Destroy(t) PROVE HolderType'
    <2>1. deletes' \in [Item -> 0 .. 2]
      BY <1>6, DeleteFacts DEF Destroy, HolderType
    <2>2. slot' \in [Threads -> Pointer]
      BY <1>6 DEF Destroy, Set, HolderType, Pointer
    <2> QED BY <1>6, <2>1, <2>2 DEF Destroy, HolderType
  <1>7. ASSUME NEW t \in Threads, Exit(t) PROVE HolderType'
    <2>1. deletes' \in [Item -> 0 .. 2]
      BY <1>7, DeleteFacts DEF Exit, HolderType
    <2>2. slot' \in [Threads -> Pointer]
      BY <1>7 DEF Exit, HolderType, Pointer
    <2> QED BY <1>7, <2>1, <2>2 DEF Exit, HolderType
  <1>8. ASSUME NEW t \in Threads, OtherUses(t) PROVE HolderType'
    BY <1>8 DEF OtherUses, HolderType, Pointer, Item
  <1>9. ASSUME NEW t \in Threads, Ask(t) \/ Enter(t) \/ Leave(t)
        PROVE  UNCHANGED holderVars
    BY <1>9 DEF Ask, Enter, Leave
  <1>10. UNCHANGED threadingVars => UNCHANGED holderVars
    BY DEF threadingVars
  <1> QED
    BY <1>1, <1>2, <1>3, <1>4, <1>5, <1>6, <1>7, <1>8, <1>9, <1>10 DEF ThreadingNext

-----------------------------------------------------------------------------
(***************************************************************************)
(* The holder under a key of its own, or none.  An object in a slot or in  *)
(* somebody's hands was allocated and not deleted, or was deleted by a     *)
(* reset to itself; with one owner for each object that makes any other    *)
(* deletion the first one.  With a key every live object can be traced,    *)
(* to the slots a destroyed holder or an ended thread left as well.        *)
(***************************************************************************)
HeldLive ==
  \A t \in Threads : \A o \in Object :
    slot[t] = o \/ o \in mine[t] =>
      o \in born /\ (deletes[o] = 0 \/ o \in kept)

UnbornUndeleted == \A o \in Object \ born : deletes[o] = 0

Traced ==
  key = "good" =>
    \A o \in born : deletes[o] = 0 =>
      \E t \in Threads : o \in mine[t] \/ slot[t] = o

Held ==
  /\ HeldLive
  /\ UnbornUndeleted
  /\ OneOwner
  /\ DeletedOnce
  /\ Traced

OwnKey == key # "foreign"

LEMMA HeldInit == ASSUME ThreadingInit, OwnKey PROVE Held
  <1>1. slot = [t \in Threads |-> Null] /\ mine = [t \in Threads |-> {}]
    BY DEF ThreadingInit, OwnKey
  <1>2. born = {} /\ deletes = [o \in Item |-> 0]
    BY DEF ThreadingInit
  <1> QED
    BY <1>1, <1>2, ThreadingAssumption
    DEF Held, HeldLive, UnbornUndeleted, OneOwner, DeletedOnce, Traced, Item

LEMMA NewStep ==
  ASSUME HolderType, Held, NEW t \in Threads, NEW o \in Object, New(t, o)
  PROVE  Held'
  <1>1. /\ key' = key /\ slot' = slot /\ deletes' = deletes /\ kept' = kept
        /\ born' = born \cup {o} /\ o \notin born
        /\ mine' = [mine EXCEPT ![t] = @ \cup {o}]
    BY DEF New
  <1>2. HeldLive' /\ UnbornUndeleted' /\ DeletedOnce'
    BY <1>1 DEF HolderType, Held, HeldLive, UnbornUndeleted, DeletedOnce
  <1>3. OneOwner'
    BY <1>1 DEF HolderType, Held, HeldLive, OneOwner
  <1>4. Traced'
    BY <1>1 DEF HolderType, Held, Traced
  <1> QED BY <1>2, <1>3, <1>4 DEF Held

LEMMA DropStep ==
  ASSUME HolderType, Held, NEW t \in Threads, NEW o \in Item, Drop(t, o)
  PROVE  Held'
  <1>1. /\ key' = key /\ slot' = slot /\ born' = born /\ kept' = kept
        /\ o \in mine[t]
        /\ mine' = [mine EXCEPT ![t] = @ \ {o}]
    BY DEF Drop
  <1>2. /\ deletes' \in [Item -> 0 .. 2]
        /\ \A q \in Item : q # o => deletes'[q] = deletes[q]
        /\ deletes'[o] > 0
        /\ o \in Object => o \in born /\ (deletes'[o] = 1 \/ o \in kept)
    BY <1>1, DeleteFacts DEF Drop, HolderType, Held, HeldLive
  <1>3. OneOwner'
    BY <1>1 DEF HolderType, Held, OneOwner
  <1>4. o \in Object => \A u \in Threads : slot'[u] # o /\ o \notin mine'[u]
    BY <1>1 DEF HolderType, Held, OneOwner
  <1>5. HeldLive' /\ UnbornUndeleted' /\ DeletedOnce'
    BY <1>1, <1>2, <1>4
    DEF HolderType, Held, HeldLive, UnbornUndeleted, DeletedOnce, Item
  <1>6. Traced'
    BY <1>1, <1>2 DEF HolderType, Held, Traced, Item
  <1> QED BY <1>3, <1>5, <1>6 DEF Held

\* Deleting what one slot holds and clearing that slot or putting an object
\* of the same thread into it: the common part of the steps below.
LEMMA ReplaceStep ==
  ASSUME HolderType, Held, NEW t \in Threads, NEW p \in mine[t] \cup {Null},
         Delete(slot[t]), slot' = [slot EXCEPT ![t] = p],
         mine' = [mine EXCEPT ![t] = @ \ {p}],
         born' = born, key' = key, kept \subseteq kept'
  PROVE  Held'
  <1>1. deletes \in [Item -> 0 .. 2] /\ p \in Pointer
    BY ThreadingAssumption DEF HolderType, Pointer
  <1>2. /\ deletes' \in [Item -> 0 .. 2]
        /\ \A o \in Item : o # slot[t] => deletes'[o] = deletes[o]
        /\ slot[t] \in Item => deletes'[slot[t]] > 0
        /\ slot[t] \in Object =>
             slot[t] \in born /\ (deletes'[slot[t]] = 1 \/ slot[t] \in kept')
    BY <1>1, DeleteFacts DEF HolderType, Held, HeldLive, Item
  <1>3. OneOwner'
    BY <1>1, ThreadingAssumption DEF HolderType, Held, OneOwner
  <1>4. \A u \in Threads : \A o \in Object :
          slot'[u] = o \/ o \in mine'[u] =>
            /\ slot[u] = o \/ o \in mine[u]
            /\ o # slot[t]
    BY <1>1, ThreadingAssumption DEF HolderType, Held, OneOwner
  <1>5. HeldLive' /\ UnbornUndeleted' /\ DeletedOnce'
    BY <1>2, <1>4
    DEF HolderType, Held, HeldLive, UnbornUndeleted, DeletedOnce, Item
  <1>6. Traced'
    <2> SUFFICES ASSUME key = "good", NEW o \in born, deletes'[o] = 0
                 PROVE  \E u \in Threads : o \in mine'[u] \/ slot'[u] = o
      BY DEF Traced
    <2>1. o # slot[t] /\ deletes[o] = 0 /\ o \in Object
      BY <1>2 DEF HolderType, Item
    <2>2. PICK u \in Threads : o \in mine[u] \/ slot[u] = o
      BY <2>1 DEF Held, Traced
    <2>3. CASE slot[u] = o
      BY <2>1, <2>3 DEF HolderType
    <2>4. CASE o \in mine[u]
      BY <2>4 DEF HolderType
    <2> QED BY <2>2, <2>3, <2>4
  <1> QED BY <1>3, <1>5, <1>6 DEF Held

\* Deleting what a slot holds and keeping it there: reset(get()).
LEMMA KeepStep ==
  ASSUME HolderType, Held, NEW t \in Threads, slot[t] # Null,
         Delete(slot[t]), slot' = slot, kept' = kept \cup {slot[t]},
         mine' = [mine EXCEPT ![t] = @ \ {slot[t]}],
         born' = born, key' = key
  PROVE  Held'
  <1>1. /\ deletes' \in [Item -> 0 .. 2]
        /\ \A o \in Item : o # slot[t] => deletes'[o] = deletes[o]
        /\ slot[t] \in Item => deletes'[slot[t]] > 0
    BY DeleteFacts DEF HolderType
  <1>2. \A u \in Threads : \A o \in Object : o \in mine'[u] <=> o \in mine[u]
    BY DEF HolderType, Held, OneOwner
  <1>3. OneOwner'
    BY <1>2 DEF Held, OneOwner
  <1>4. slot[t] \in Object => slot[t] \in born
    BY DEF Held, HeldLive
  <1>5. HeldLive' /\ UnbornUndeleted' /\ DeletedOnce'
    BY <1>1, <1>2, <1>4
    DEF HolderType, Held, HeldLive, UnbornUndeleted, DeletedOnce, Item
  <1>6. Traced'
    BY <1>1, <1>2 DEF HolderType, Held, Traced, Item
  <1> QED BY <1>3, <1>5, <1>6 DEF Held

\* A step that leaves the holder and the objects alone.
LEMMA HeldFrame ==
  ASSUME Held, UNCHANGED <<key, slot, mine, born, deletes, kept>> PROVE Held'
  BY DEF Held, HeldLive, UnbornUndeleted, OneOwner, DeletedOnce, Traced

\* Without a key a reset takes the object from its owner and holds nothing.
LEMMA LoseStep ==
  ASSUME HolderType, Held, key = "none", NEW t \in Threads, NEW p,
         mine' = [mine EXCEPT ![t] = @ \ {p}],
         UNCHANGED <<key, slot, born, deletes, kept>>
  PROVE  Held'
  <1>1. HeldLive' /\ UnbornUndeleted' /\ OneOwner' /\ DeletedOnce'
    BY DEF HolderType, Held, HeldLive, UnbornUndeleted, OneOwner, DeletedOnce
  <1>2. Traced'
    BY DEF Traced
  <1> QED BY <1>1, <1>2 DEF Held

LEMMA ResetStep ==
  ASSUME HolderType, Held, OwnKey,
         NEW t \in Threads, NEW p \in Pointer, Reset(t, p)
  PROVE  Held'
  <1>1. /\ key' = key /\ born' = born /\ ~destroyed
        /\ p \in mine[t] \cup {Null, Get(t)}
        /\ mine' = [mine EXCEPT ![t] = @ \ {p}]
    BY DEF Reset
  <1>2. key \in {"good", "none"}
    BY DEF HolderType, OwnKey
  <1>3. CASE p = Get(t) /\ ~library.deletesSame
    <2>1. UNCHANGED <<deletes, slot, kept>>
      BY <1>3 DEF Reset
    <2>2. CASE key = "none"
      BY <1>1, <2>1, <2>2, LoseStep
    <2>3. CASE key = "good"
      <3>1. p = slot[t]
        BY <1>1, <1>3, <2>3 DEF Get
      <3>2. \A u \in Threads : \A o \in Object : o \in mine'[u] <=> o \in mine[u]
        BY <1>1, <3>1 DEF HolderType, Held, OneOwner
      <3> QED
        BY <1>1, <2>1, <3>2
        DEF HolderType, Held, HeldLive, UnbornUndeleted, OneOwner,
            DeletedOnce, Traced
    <2> QED BY <1>2, <2>2, <2>3
  <1>4. CASE ~(p = Get(t) /\ ~library.deletesSame)
    <2>1. /\ Delete(Get(t)) /\ Set(t, p)
          /\ kept' = kept \cup (({p} \cap {Get(t)}) \ {Null})
      BY <1>4 DEF Reset
    <2>2. CASE key = "none"
      <3>1. Delete(Null) /\ slot' = slot /\ kept' = kept
        BY <2>1, <2>2 DEF Get, Set
      <3>2. deletes' = deletes
        BY <3>1, DeleteFacts, ThreadingAssumption DEF HolderType, Item
      <3> QED BY <1>1, <2>2, <3>1, <3>2, LoseStep
    <2>3. CASE key = "good"
      <3>1. Get(t) = slot[t]
        BY <1>1, <2>3 DEF Get
      <3>2. Delete(slot[t]) /\ slot' = [slot EXCEPT ![t] = p]
        BY <2>1, <2>3, <3>1 DEF Set
      <3>3. CASE p = slot[t] /\ p # Null
        <4>1. slot' = slot
          BY <3>2, <3>3 DEF HolderType
        <4>2. kept' = kept \cup {slot[t]}
          BY <2>1, <3>1, <3>3
        <4> QED BY <1>1, <3>2, <3>3, <4>1, <4>2, KeepStep
      <3>4. CASE ~(p = slot[t] /\ p # Null)
        <4>1. p \in mine[t] \cup {Null} /\ kept \subseteq kept'
          BY <1>1, <2>1, <3>1, <3>4
        <4> QED BY <1>1, <3>2, <4>1, ReplaceStep
      <3> QED BY <3>3, <3>4
    <2> QED BY <1>2, <2>2, <2>3
  <1> QED BY <1>3, <1>4

LEMMA ReleaseStep ==
  ASSUME HolderType, Held, OwnKey, NEW t \in Threads, Release(t)
  PROVE  Held'
  <1>1. /\ key' = key /\ born' = born /\ deletes' = deletes /\ kept' = kept
        /\ ~destroyed
        /\ mine' = [mine EXCEPT ![t] = @ \cup ({Get(t)} \ {Null})]
        /\ Set(t, Null)
    BY DEF Release
  <1>2. CASE key = "good"
    <2>1. /\ slot' = [slot EXCEPT ![t] = Null]
          /\ mine' = [mine EXCEPT ![t] = @ \cup ({slot[t]} \ {Null})]
      BY <1>1, <1>2 DEF Get, Set
    <2>2. \A u \in Threads : \A o \in Object :
            /\ slot'[u] = o => slot[u] = o /\ u # t
            /\ o \in mine'[u] => o \in mine[u] \/ (u = t /\ slot[t] = o)
      BY <2>1, ThreadingAssumption DEF HolderType
    <2>3. OneOwner'
      BY <2>2 DEF Held, OneOwner
    <2>4. HeldLive' /\ UnbornUndeleted' /\ DeletedOnce'
      BY <1>1, <2>2 DEF Held, HeldLive, UnbornUndeleted, DeletedOnce
    <2>5. \A u \in Threads : \A o \in Object :
            o \in mine[u] \/ slot[u] = o => o \in mine'[u] \/ slot'[u] = o
      BY <2>1, ThreadingAssumption DEF HolderType
    <2>6. Traced'
      BY <1>1, <2>5 DEF HolderType, Held, Traced
    <2> QED BY <2>3, <2>4, <2>6 DEF Held
  <1>3. CASE key = "none"
    <2>1. slot' = slot /\ mine' = mine
      BY <1>1, <1>3 DEF Get, Set, HolderType
    <2> QED BY <1>1, <2>1, HeldFrame
  <1> QED BY <1>2, <1>3 DEF HolderType, OwnKey

LEMMA DestroyStep ==
  ASSUME HolderType, Held, OwnKey, NEW t \in Threads, Destroy(t)
  PROVE  Held'
  <1>1. /\ key' = key /\ born' = born /\ mine' = mine /\ kept' = kept
        /\ ~destroyed
    BY DEF Destroy
  <1>2. mine = [mine EXCEPT ![t] = @ \ {Null}]
    BY ThreadingAssumption DEF HolderType, Item
  <1>3. CASE library.destroyDeletes /\ key = "good"
    <2>1. Delete(slot[t]) /\ slot' = [slot EXCEPT ![t] = Null]
      BY <1>1, <1>3 DEF Destroy, Get, Set
    <2> QED BY <1>1, <1>2, <2>1, ReplaceStep
  <1>4. CASE ~(library.destroyDeletes /\ key = "good")
    <2>1. slot' = slot /\ deletes' = deletes
      <3>1. CASE ~library.destroyDeletes
        BY <3>1 DEF Destroy
      <3>2. CASE key = "none" /\ library.destroyDeletes
        <4>1. Delete(Null) /\ slot' = slot
          BY <3>2 DEF Destroy, Get, Set
        <4> QED BY <4>1, DeleteFacts, ThreadingAssumption DEF HolderType, Item
      <3> QED BY <1>4, <3>1, <3>2 DEF HolderType, OwnKey
    <2> QED BY <1>1, <2>1, HeldFrame
  <1> QED BY <1>3, <1>4

LEMMA ExitStep ==
  ASSUME HolderType, Held, NEW t \in Threads, Exit(t)
  PROVE  Held'
  <1>1. key' = key /\ born' = born /\ mine' = mine /\ kept' = kept
    BY DEF Exit
  <1>2. mine = [mine EXCEPT ![t] = @ \ {Null}]
    BY ThreadingAssumption DEF HolderType, Item
  <1>3. CASE Delete(slot[t]) /\ slot' = [slot EXCEPT ![t] = Null]
    BY <1>1, <1>2, <1>3, ReplaceStep
  <1>4. CASE UNCHANGED <<deletes, slot>>
    BY <1>1, <1>4, HeldFrame
  <1> QED BY <1>3, <1>4 DEF Exit

LEMMA HeldStep ==
  ASSUME HolderType, Held, OwnKey, [ThreadingNext]_threadingVars PROVE Held'
  <1>1. CASE UNCHANGED holderVars
    BY <1>1, HeldFrame DEF holderVars
  <1>2. ASSUME NEW t \in Threads, NEW o \in Object, New(t, o)
        PROVE  Held'
    BY <1>2, NewStep
  <1>3. ASSUME NEW t \in Threads, NEW o \in Item, Drop(t, o)
        PROVE  Held'
    BY <1>3, DropStep
  <1>4. ASSUME NEW t \in Threads, NEW p \in Pointer, Reset(t, p)
        PROVE  Held'
    BY <1>4, ResetStep
  <1>5. ASSUME NEW t \in Threads, Release(t) \/ Destroy(t) \/ Exit(t)
        PROVE  Held'
    BY <1>5, ReleaseStep, DestroyStep, ExitStep
  <1>6. ASSUME NEW t \in Threads, OtherUses(t)
        PROVE  Held'
    BY <1>6 DEF OtherUses, OwnKey
  <1>7. ASSUME NEW t \in Threads, Ask(t) \/ Enter(t) \/ Leave(t)
        PROVE  UNCHANGED holderVars
    BY <1>7 DEF Ask, Enter, Leave
  <1>8. UNCHANGED threadingVars => UNCHANGED holderVars
    BY DEF threadingVars
  <1> QED BY <1>1, <1>2, <1>3, <1>4, <1>5, <1>6, <1>7, <1>8 DEF ThreadingNext

-----------------------------------------------------------------------------
(***************************************************************************)
(* The mutex.  A mutex that excludes has an owner exactly while it is      *)
(* entered, as often as that owner has scoped locks; without threads only  *)
(* the main thread ever locks, and the mutex is not used.                  *)
(***************************************************************************)
MutexType ==
  /\ library \in Libraries
  /\ owner \in Threads \cup {Null}
  /\ count \in Nat
  /\ locks \in [Threads -> Nat]
  /\ waiting \subseteq Threads

OnlyMain ==
  ~library.excludes =>
    /\ waiting \subseteq {Main}
    /\ \A t \in Threads : locks[t] > 0 => t = Main

MutexInv == MutexType /\ MutexBalanced /\ OnlyMain

LEMMA MutexInit == ASSUME ThreadingInit PROVE MutexInv
  <1>1. library \in Libraries
    <2>1. PICK p \in Platform : library \in Included(Macros[p])
      BY DEF ThreadingInit
    <2> QED BY <2>1, IncludedLibraries
  <1>2. /\ owner = Null /\ count = 0 /\ waiting = {}
        /\ locks = [t \in Threads |-> 0]
    BY DEF ThreadingInit
  <1> QED
    BY <1>1, <1>2, ThreadingAssumption
    DEF MutexInv, MutexType, MutexBalanced, OnlyMain

LEMMA MutexFrame ==
  ASSUME MutexInv, UNCHANGED <<library, mutexVars>> PROVE MutexInv'
  BY DEF MutexInv, MutexType, MutexBalanced, OnlyMain, mutexVars

LEMMA AskStep ==
  ASSUME MutexInv, NEW t \in Threads, Ask(t) PROVE MutexInv'
  <1>1. /\ UNCHANGED <<library, owner, count, locks>>
        /\ waiting' = waiting \cup {t}
        /\ ~library.excludes => t = Main
    BY DEF Ask, Runs
  <1> QED BY <1>1 DEF MutexInv, MutexType, MutexBalanced, OnlyMain

LEMMA EnterStep ==
  ASSUME MutexInv, NEW t \in Threads, Enter(t) PROVE MutexInv'
  <1>1. /\ library' = library
        /\ t \in waiting /\ waiting' = waiting \ {t}
        /\ locks' = [locks EXCEPT ![t] = locks[t] + 1]
    BY DEF Enter
  <1>2. CASE library.excludes
    <2>1. owner' = t /\ count' = count + 1 /\ owner \in {Null, t}
      BY <1>2 DEF Enter, Free
    <2>2. MutexType' /\ OnlyMain'
      BY <1>1, <1>2, <2>1 DEF MutexInv, MutexType, OnlyMain
    <2>3. locks[t] = count
      BY <1>2, <2>1, ThreadingAssumption DEF MutexInv, MutexBalanced
    <2>4. MutexBalanced'
      BY <1>1, <1>2, <2>1, <2>3, ThreadingAssumption
      DEF MutexInv, MutexType, MutexBalanced
    <2> QED BY <2>2, <2>4 DEF MutexInv
  <1>3. CASE ~library.excludes
    <2>1. UNCHANGED <<owner, count>>
      BY <1>3 DEF Enter
    <2> QED
      BY <1>1, <1>3, <2>1 DEF MutexInv, MutexType, MutexBalanced, OnlyMain
  <1> QED BY <1>2, <1>3

LEMMA LeaveStep ==
  ASSUME MutexInv, NEW t \in Threads, Leave(t) PROVE MutexInv'
  <1>1. /\ UNCHANGED <<library, waiting>>
        /\ locks[t] > 0 /\ locks' = [locks EXCEPT ![t] = locks[t] - 1]
    BY DEF Leave
  <1>2. CASE library.excludes
    <2>1. owner' = (IF count = 1 THEN Null ELSE owner) /\ count' = count - 1
      BY <1>2 DEF Leave
    <2>2. owner = t /\ locks[t] = count
      BY <1>1, <1>2 DEF MutexInv, MutexType, MutexBalanced
    <2>3. MutexType' /\ OnlyMain'
      BY <1>1, <1>2, <2>1, <2>2 DEF MutexInv, MutexType, OnlyMain
    <2>4. MutexBalanced'
      BY <1>1, <1>2, <2>1, <2>2, ThreadingAssumption
      DEF MutexInv, MutexType, MutexBalanced
    <2> QED BY <2>3, <2>4 DEF MutexInv
  <1>3. CASE ~library.excludes
    <2>1. UNCHANGED <<owner, count>>
      BY <1>3 DEF Leave
    <2> QED
      BY <1>1, <1>3, <2>1 DEF MutexInv, MutexType, MutexBalanced, OnlyMain
  <1> QED BY <1>2, <1>3

LEMMA MutexStep ==
  ASSUME MutexInv, [ThreadingNext]_threadingVars PROVE MutexInv'
  <1>1. ASSUME NEW t \in Threads, Ask(t) \/ Enter(t) \/ Leave(t)
        PROVE  MutexInv'
    BY <1>1, AskStep, EnterStep, LeaveStep
  <1>2. ASSUME NEW t \in Threads, NEW o,
               \/ New(t, o) \/ Drop(t, o) \/ Reset(t, o) \/ Release(t)
               \/ Destroy(t) \/ Exit(t) \/ OtherUses(t)
        PROVE  UNCHANGED <<library, mutexVars>>
    BY <1>2 DEF New, Drop, Reset, Release, Destroy, Exit, OtherUses
  <1>3. UNCHANGED threadingVars => UNCHANGED <<library, mutexVars>>
    BY DEF threadingVars
  <1> QED BY <1>1, <1>2, <1>3, MutexFrame DEF ThreadingNext

-----------------------------------------------------------------------------
(***************************************************************************)
(* What a thread that has ended left in its slot, where the end of a       *)
(* thread deletes what it held, is nothing: under omni always, under a key *)
(* with a destructor as long as there is that key.                         *)
(***************************************************************************)
LeftNothing ==
  /\ exited \subseteq Threads
  /\ key = "good" =>
       \/ library.exitDeletes = "never"
       \/ library.exitDeletes = "with_key" /\ destroyed
       \/ \A t \in exited : slot[t] = Null

LeaverInv ==
  HolderType /\ (OwnKey => Held) /\ MutexInv /\ LeftNothing

LEMMA LeaverStep ==
  ASSUME LeaverInv, [ThreadingNext]_threadingVars PROVE LeaverInv'
  <1>1. HolderType' /\ MutexInv'
    BY HolderTypeStep, MutexStep DEF LeaverInv
  <1>2. library.exitDeletes \in {"never", "with_key", "always"}
    BY DEF LeaverInv, MutexInv, MutexType, Libraries, MSThreads, PThreads,
           OmniThreads, BoostThreads, DummyThreads, Row
  <1>3. slot \in [Threads -> Pointer] /\ exited \subseteq Threads
    BY DEF LeaverInv, HolderType, LeftNothing
  <1>4. key' = key
    <2>1. ASSUME NEW t \in Threads, NEW o,
                 \/ New(t, o) \/ Drop(t, o) \/ Reset(t, o) \/ Release(t)
                 \/ Destroy(t) \/ Exit(t) \/ OtherUses(t)
                 \/ Ask(t) \/ Enter(t) \/ Leave(t)
          PROVE  key' = key
      BY <2>1 DEF New, Drop, Reset, Release, Destroy, Exit, OtherUses, Ask,
                  Enter, Leave, holderVars
    <2> QED BY <2>1 DEF ThreadingNext, threadingVars, holderVars
  <1>5. OwnKey' => Held'
    BY <1>4, HeldStep DEF LeaverInv, OwnKey
  <1>6. ASSUME UNCHANGED <<library, slot, exited, destroyed>>
        PROVE  LeftNothing'
    BY <1>4, <1>6 DEF LeaverInv, LeftNothing
  <1>7. ASSUME NEW t \in Threads, NEW o \in Item,
               New(t, o) \/ Drop(t, o) \/ Ask(t) \/ Enter(t) \/ Leave(t)
        PROVE  LeftNothing'
    BY <1>6, <1>7 DEF New, Drop, Ask, Enter, Leave, holderVars
  <1>8. ASSUME NEW t \in Threads, NEW p \in Pointer,
               Reset(t, p) \/ Release(t) \/ OtherUses(t)
        PROVE  LeftNothing'
    <2>1. t \notin exited /\ UNCHANGED <<library, destroyed, exited>>
      BY <1>8 DEF Reset, Release, OtherUses, Runs
    <2>2. \E q : slot' = [slot EXCEPT ![t] = q] \/ slot' = slot
      BY <1>8 DEF Reset, Release, OtherUses, Set
    <2> QED BY <1>3, <1>4, <2>1, <2>2 DEF LeaverInv, LeftNothing
  <1>9. ASSUME NEW t \in Threads, Destroy(t) PROVE LeftNothing'
    <2>1. UNCHANGED <<library, exited>> /\ t \notin exited
      BY <1>9 DEF Destroy, Runs
    <2>2. slot' = [slot EXCEPT ![t] = Null] \/ slot' = slot
      BY <1>9 DEF Destroy, Set
    <2>3. destroyed' = TRUE /\ ~destroyed
      BY <1>9 DEF Destroy
    <2> QED BY <1>3, <1>4, <2>1, <2>2, <2>3 DEF LeaverInv, LeftNothing
  <1>10. ASSUME NEW t \in Threads, Exit(t) PROVE LeftNothing'
    <2>1. exited' = exited \cup {t} /\ UNCHANGED <<library, destroyed>>
      BY <1>10 DEF Exit
    <2>2. CASE slot' = [slot EXCEPT ![t] = Null]
      BY <1>3, <1>4, <2>1, <2>2 DEF LeaverInv, LeftNothing
    <2>3. CASE ~EndDeletes /\ slot' = slot
      <3>1. key = "good" => \/ library.exitDeletes = "never"
                            \/ library.exitDeletes = "with_key" /\ destroyed
        BY <1>2, <2>3 DEF EndDeletes
      <3> QED BY <1>3, <1>4, <2>1, <3>1 DEF LeftNothing
    <2> QED BY <1>10, <2>2, <2>3 DEF Exit
  <1>11. UNCHANGED threadingVars => LeftNothing'
    BY <1>6 DEF threadingVars, holderVars
  <1>12. LeftNothing'
    <2>1. CASE UNCHANGED threadingVars
      BY <1>11, <2>1
    <2>2. CASE ThreadingNext
      <3>1. PICK t \in Threads :
              \/ \E o \in Item : New(t, o) \/ Drop(t, o)
              \/ \E p \in Pointer : Reset(t, p)
              \/ Release(t) \/ Destroy(t) \/ Exit(t) \/ OtherUses(t)
              \/ Ask(t) \/ Enter(t) \/ Leave(t)
        BY <2>2 DEF ThreadingNext, Item
      <3>2. CASE \E o \in Item : New(t, o) \/ Drop(t, o)
        BY <1>7, <3>2
      <3>3. CASE Ask(t) \/ Enter(t) \/ Leave(t)
        <4>1. Foreign \in Item
          BY DEF Item
        <4> QED BY <1>7, <3>3, <4>1
      <3>4. CASE \E p \in Pointer : Reset(t, p)
        BY <1>8, <3>4
      <3>5. CASE Release(t) \/ OtherUses(t)
        <4>1. Null \in Pointer
          BY DEF Pointer
        <4> QED BY <1>8, <3>5, <4>1
      <3>6. CASE Destroy(t) \/ Exit(t)
        BY <1>9, <1>10, <3>6
      <3> QED BY <3>1, <3>2, <3>3, <3>4, <3>5, <3>6
    <2> QED BY <2>1, <2>2
  <1> QED BY <1>1, <1>5, <1>12 DEF LeaverInv

LEMMA LeaverAlways == ThreadingSpec => []LeaverInv
  <1>1. ThreadingInit => LeaverInv
    <2> SUFFICES ASSUME ThreadingInit PROVE LeaverInv
      OBVIOUS
    <2>1. LeftNothing
      BY DEF LeftNothing, ThreadingInit
    <2> QED BY <2>1, HolderTypeInit, HeldInit, MutexInit DEF LeaverInv
  <1>2. LeaverInv /\ [ThreadingNext]_threadingVars => LeaverInv'
    BY LeaverStep
  <1> QED BY <1>1, <1>2, PTL DEF ThreadingSpec

-----------------------------------------------------------------------------
(***************************************************************************)
(* The theorems.                                                           *)
(***************************************************************************)
\* Every variable keeps its type; no deletion is counted past the second.
THEOREM TypeCorrect == ThreadingSpec => []ThreadingTypeOK
  <1>1. LeaverInv => ThreadingTypeOK
    BY DEF LeaverInv, LeftNothing, HolderType, MutexInv, MutexType, ThreadingTypeOK
  <1> QED BY <1>1, LeaverAlways, PTL

\* reset takes ownership and release gives it back: under a key of its own,
\* or none, an object is in one slot or in the hands of one thread.
THEOREM OneOwnerAlways == ThreadingSpec => [](key # "foreign" => OneOwner)
  <1>1. LeaverInv => (key # "foreign" => OneOwner)
    BY DEF LeaverInv, OwnKey, Held
  <1> QED BY <1>1, LeaverAlways, PTL

\* What a thread can reach was allocated, and not deleted but by a reset to
\* itself, unless pthread_key_create failed and left somebody else's key.
THEOREM NoDanglingPointer == ThreadingSpec => [](key # "foreign" => ReachableIsLive)
  <1>1. LeaverInv => (key # "foreign" => ReachableIsLive)
    BY ThreadingAssumption
    DEF LeaverInv, OwnKey, Held, HeldLive, ReachableIsLive, Get
  <1> QED BY <1>1, LeaverAlways, PTL

\* reset, the end of a thread, the end of the holder and the user between
\* them delete nothing twice but what a reset to itself left held; again
\* unless the key is somebody else's.
THEOREM NoDoubleDelete == ThreadingSpec => [](key # "foreign" => DeletedOnce)
  <1>1. LeaverInv => (key # "foreign" => DeletedOnce)
    BY DEF LeaverInv, OwnKey, Held
  <1> QED BY <1>1, LeaverAlways, PTL

\* With a key of its own, what the holder loses is in the slot of a thread
\* that outlived the holder, or that ended where this deletes nothing.
THEOREM LeaksOnlyAtExit == ThreadingSpec => [](key # "foreign" => LostAccounted)
  <1>1. LeaverInv => (key # "foreign" => LostAccounted)
    <2> SUFFICES ASSUME LeaverInv, key = "good", NEW o \in Lost
                 PROVE  \E t \in Threads :
                          /\ slot[t] = o
                          /\ \/ destroyed /\ library.exitDeletes # "always"
                             \/ t \in exited /\ library.exitDeletes = "never"
      BY DEF LeaverInv, HolderType, LostAccounted
    <2>1. /\ o \in born /\ deletes[o] = 0
          /\ \A t \in Threads : o \notin mine[t]
          /\ \A t \in Threads \ exited :
                slot[t] = o => destroyed /\ library.exitDeletes # "always"
      BY DEF Lost
    <2>2. PICK t \in Threads : slot[t] = o
      BY <2>1 DEF LeaverInv, OwnKey, Held, Traced
    <2>3. CASE t \notin exited
      BY <2>1, <2>2, <2>3
    <2>4. CASE t \in exited
      <3>1. o # Null
        BY <2>1, ThreadingAssumption DEF LeaverInv, HolderType
      <3>2. \/ library.exitDeletes = "never"
            \/ library.exitDeletes = "with_key" /\ destroyed
        BY <2>2, <2>4, <3>1 DEF LeaverInv, LeftNothing
      <3> QED BY <2>2, <2>4, <3>2
    <2> QED BY <2>3, <2>4
  <1> QED BY <1>1, LeaverAlways, PTL

\* All that the holder owes its users, under a key of its own or none.
THEOREM HolderIsSound == ThreadingSpec => []HolderSound
  BY OneOwnerAlways, NoDanglingPointer, NoDoubleDelete, LeaksOnlyAtExit, PTL
     DEF HolderSound

\* The mutex is owned by the thread that has scoped locks, entered once for
\* each, and free when nobody has any.
THEOREM MutexCounts == ThreadingSpec => []MutexBalanced
  <1>1. LeaverInv => MutexBalanced
    BY DEF LeaverInv, MutexInv
  <1> QED BY <1>1, LeaverAlways, PTL

\* Two threads never have scoped locks at once, whatever the library.
THEOREM MutexExcludes == ThreadingSpec => []MutualExclusion
  <1>1. LeaverInv => MutualExclusion
    <2>1. CASE library.excludes
      BY <2>1, ThreadingAssumption
      DEF LeaverInv, MutexInv, MutexType, MutexBalanced, MutualExclusion
    <2>2. CASE ~library.excludes
      BY <2>2 DEF LeaverInv, MutexInv, OnlyMain, MutualExclusion
    <2> QED BY <2>1, <2>2
  <1> QED BY <1>1, LeaverAlways, PTL

\* The mutex excludes, also when one of two nested locks is left.
THEOREM MutexIsSound == ThreadingSpec => []MutexSound
  BY MutexCounts, MutexExcludes, PTL DEF MutexSound
=============================================================================
