---------------------------- MODULE ComLifetime ----------------------------
(***************************************************************************)
(* What a COM in-process server promises to its clients, without saying    *)
(* how: an object is born without an owner, is given to its first owner or *)
(* abandoned, is shared and given back, and is destroyed once, when nobody *)
(* owns it any more; the library is unloaded only while it holds no object *)
(* and no client has locked it.                                            *)
(*                                                                         *)
(* There are no threads, reference counters or lock counter here:          *)
(* ComServer implements this specification with them.                      *)
(***************************************************************************)
EXTENDS Naturals

CONSTANT Objects

VARIABLES
  life,    \* life[o]: "none", "fresh", "owned" or "dying"
  owed,    \* owed[o]: the references that clients still have to give back
  locks,   \* the LockServer(TRUE) calls not yet undone
  loaded   \* the library is mapped in the process

vars == <<life, owed, locks, loaded>>

TypeOK ==
  /\ life \in [Objects -> {"none", "fresh", "owned", "dying"}]
  /\ owed \in [Objects -> Nat]
  /\ locks \in Nat
  /\ loaded \in BOOLEAN

Init ==
  /\ life = [o \in Objects |-> "none"]
  /\ owed = [o \in Objects |-> 0]
  /\ locks = 0
  /\ loaded = FALSE

BecomesLife(o, from, to) ==
  /\ life[o] = from
  /\ life' = [life EXCEPT ![o] = to]

Create(o) ==
  /\ loaded
  /\ BecomesLife(o, "none", "fresh")
  /\ UNCHANGED <<owed, locks, loaded>>

\* The creator hands the object, with its first reference, to a client.
Grant(o) ==
  /\ BecomesLife(o, "fresh", "owned")
  /\ owed' = [owed EXCEPT ![o] = 1]
  /\ UNCHANGED <<locks, loaded>>

\* The creator gives up an object no client has seen.
Abandon(o) ==
  /\ BecomesLife(o, "fresh", "dying")
  /\ UNCHANGED <<owed, locks, loaded>>

Share(o) ==
  /\ life[o] = "owned"
  /\ owed' = [owed EXCEPT ![o] = @ + 1]
  /\ UNCHANGED <<life, locks, loaded>>

\* A client gives a reference back; the last one condemns the object.
GiveBack(o) ==
  /\ life[o] = "owned"
  /\ owed' = [owed EXCEPT ![o] = @ - 1]
  /\ life' = [life EXCEPT ![o] = IF owed[o] = 1 THEN "dying" ELSE "owned"]
  /\ UNCHANGED <<locks, loaded>>

Destroy(o) ==
  /\ BecomesLife(o, "dying", "none")
  /\ UNCHANGED <<owed, locks, loaded>>

\* Only the owner of some object can reach LockServer.
Lock ==
  /\ \E o \in Objects : life[o] = "owned"
  /\ locks' = locks + 1
  /\ UNCHANGED <<life, owed, loaded>>

Unlock ==
  /\ \E o \in Objects : life[o] = "owned"
  /\ locks > 0
  /\ locks' = locks - 1
  /\ UNCHANGED <<life, owed, loaded>>

Load ==
  /\ ~loaded
  /\ loaded' = TRUE
  /\ UNCHANGED <<life, owed, locks>>

Unload ==
  /\ loaded
  /\ locks = 0
  /\ \A o \in Objects : life[o] = "none"
  /\ loaded' = FALSE
  /\ UNCHANGED <<life, owed, locks>>

Next ==
  \/ \E o \in Objects :
       \/ Create(o) \/ Grant(o) \/ Abandon(o)
       \/ Share(o) \/ GiveBack(o) \/ Destroy(o)
  \/ Lock \/ Unlock \/ Load \/ Unload

Spec == Init /\ [][Next]_vars
=============================================================================
