---------------------------- MODULE Registration ----------------------------
(***************************************************************************)
(* The registration of the profiler as a COM class (RegistryHelper.hpp):   *)
(* RegisterCOMClass and UnregisterCOMClass, which DllRegisterServer and    *)
(* DllUnregisterServer call, and GetCOMClassLocation, which the logger     *)
(* calls.  The class key is shared by all processes; each call on the      *)
(* registry is atomic and may fail, a registration is a sequence of them.  *)
(*                                                                         *)
(* External: the registry.  A key with subkeys cannot be deleted, and a    *)
(* handle to a deleted key stays open but every call on it fails.          *)
(* Data: of a value, whether it is absent, whole, or cut short because     *)
(* the size of a pointer was given for the size of the text.               *)
(***************************************************************************)
EXTENDS Naturals, Sequences

CONSTANTS
  Processes,
  PointerChars,     \* sizeof(const WCHAR*) in characters: 2 (Win32) or 4 (x64)
  MaxRegistrations  \* bound: registrations by one process

ASSUME RegistrationAssumption ==
  /\ PointerChars \in {2, 4}
  /\ MaxRegistrations \in Nat

Keys == {"class", "ProgId", "InProcServer32"}
Values == {"description", "progId", "path", "ThreadingModel"}
KeyOf == [description |-> "class", progId |-> "ProgId",
          path |-> "InProcServer32", ThreadingModel |-> "InProcServer32"]

VARIABLES
  keys,      \* the keys that exist
  values,    \* what each value holds
  pc,        \* what each process is doing: [op, step]
  handle,    \* each process' key handles
  hr,        \* what the call in progress returns
  leaked,    \* handles each process can no longer close
  opened,    \* history: registrations of each process that opened ProgId
  strayed,   \* history: a process closed a handle it had not opened
  found,     \* history: the registry when the unregistration in progress began
  disturbed, \* history: a registration and an unregistration overlapped
             \* among the calls in progress or the last ones
  torn       \* history: the last thing done to InProcServer32 and its
             \* ThreadingModel is a registration that failed to set the latter

registry == <<keys, values>>
history == <<opened, strayed, found, disturbed>>
vars == <<registry, pc, handle, hr, leaked, history, torn>>

Place == [op : {"none", "register", "unregister", "locate"}, step : 0 .. 8]
Idle == [op |-> "none", step |-> 0]
NoHandles == [k \in Keys |-> "none"]
Contents == {"absent", "cut", "whole"}

Nothing == <<{}, [v \in Values |-> "absent"]>>

TypeOK ==
  /\ keys \subseteq Keys
  /\ values \in [Values -> Contents]
  /\ \A v \in Values : values[v] # "absent" => KeyOf[v] \in keys
  /\ keys # {} => "class" \in keys
  /\ pc \in [Processes -> Place]
  /\ handle \in [Processes -> [Keys -> {"none", "open", "stale"}]]
  /\ \A p \in Processes, k \in Keys : handle[p][k] = "open" => k \in keys
  /\ hr \in [Processes -> {"ok", "fail"}]
  /\ leaked \in [Processes -> Nat]
  /\ opened \in [Processes -> 0 .. MaxRegistrations]
  /\ strayed \in [Processes -> BOOLEAN]
  /\ disturbed \in BOOLEAN
  /\ torn \in BOOLEAN

Init ==
  /\ keys = {}
  /\ values = [v \in Values |-> "absent"]
  /\ pc = [p \in Processes |-> Idle]
  /\ handle = [p \in Processes |-> NoHandles]
  /\ hr = [p \in Processes |-> "ok"]
  /\ leaked = [p \in Processes |-> 0]
  /\ opened = [p \in Processes |-> 0]
  /\ strayed = [p \in Processes |-> FALSE]
  /\ found = [p \in Processes |-> Nothing]
  /\ disturbed = FALSE
  /\ torn = FALSE

-----------------------------------------------------------------------------
Opposite == [register |-> "unregister", unregister |-> "register"]
Changing == {q \in Processes : pc[q].op \in DOMAIN Opposite}

Begin(p, op) ==
  /\ pc[p] = Idle
  /\ pc' = [pc EXCEPT ![p] = [op |-> op, step |-> 1]]
  /\ found' = [found EXCEPT ![p] = IF op = "unregister" THEN registry ELSE Nothing]
  /\ disturbed' = IF op = "locate" THEN disturbed
                  ELSE /\ Changing # {}
                       /\ \/ disturbed
                          \/ \E q \in Changing : pc[q].op = Opposite[op]
  /\ UNCHANGED <<registry, handle, hr, leaked, opened, strayed, torn>>

RegisterCOMClass(p) == opened[p] < MaxRegistrations /\ Begin(p, "register")
UnregisterCOMClass(p) == Begin(p, "unregister")
GetCOMClassLocation(p) == Begin(p, "locate")

At(p, op, step) == pc[p] = [op |-> op, step |-> step]
Goes(p, step) == pc' = [pc EXCEPT ![p].step = step]
Returning == 8
Fails(p) == Goes(p, Returning) /\ hr' = [hr EXCEPT ![p] = "fail"]
Succeeds(p) == Goes(p, Returning) /\ hr' = [hr EXCEPT ![p] = "ok"]

-----------------------------------------------------------------------------
(***************************************************************************)
(* DoClassRegistration: three keys are created or opened, the subkeys      *)
(* through the handle of the class key, and four values are set.  Each     *)
(* failure leaves through the __finally block.                             *)
(***************************************************************************)
Creates == [s \in {1, 3, 5} |->
              CASE s = 1 -> "class" [] s = 3 -> "ProgId"
                [] s = 5 -> "InProcServer32"]
Sets == [s \in {2, 4, 6, 7} |->
           CASE s = 2 -> "description" [] s = 4 -> "progId"
             [] s = 6 -> "path" [] s = 7 -> "ThreadingModel"]

\* sizeof(szDesc) and sizeof(szThreadingModel) are sizes of pointers.
Written(v) ==
  CASE v = "description" -> "cut"
    [] v = "ThreadingModel" -> IF PointerChars < 4 THEN "cut" ELSE "whole"
    [] OTHER -> "whole"

RegCreateKeyEx(p, s) ==
  LET k == Creates[s] IN
  /\ At(p, "register", s)
  /\ k = "class" \/ handle[p]["class"] = "open"
  /\ keys' = keys \cup {k}
  /\ handle' = [handle EXCEPT ![p][k] = "open"]
  /\ opened' = [opened EXCEPT ![p] = IF k = "ProgId" THEN @ + 1 ELSE @]
  /\ Goes(p, s + 1)
  /\ UNCHANGED <<values, hr, leaked, strayed, found, disturbed, torn>>

\* Mutant: the value is written by its path, not through a handle.
RegSetByPath(p, s) ==
  LET v == Sets[s] IN
  /\ At(p, "register", s)
  /\ values' = [values EXCEPT ![v] = Written(v)]
  /\ torn' = (torn /\ v # "ThreadingModel")
  /\ IF s = 7 THEN Succeeds(p) ELSE Goes(p, s + 1) /\ UNCHANGED hr
  /\ UNCHANGED <<keys, handle, leaked, history>>

RegSetValueEx(p, s) ==
  LET v == Sets[s] IN
  /\ At(p, "register", s)
  /\ handle[p][KeyOf[v]] = "open"
  /\ values' = [values EXCEPT ![v] = Written(v)]
  /\ torn' = (torn /\ v # "ThreadingModel")
  /\ IF s = 7 THEN Succeeds(p) ELSE Goes(p, s + 1) /\ UNCHANGED hr
  /\ UNCHANGED <<keys, handle, leaked, history>>

\* Mutant: the result of the call is not looked at.
RegistrationStepIgnored(p) ==
  /\ pc[p].op = "register" /\ pc[p].step < Returning
  /\ IF pc[p].step = 7 THEN Succeeds(p)
     ELSE Goes(p, pc[p].step + 1) /\ UNCHANGED hr
  /\ UNCHANGED <<registry, handle, leaked, history, torn>>

\* The last value of a registration whose handle is still good.
SettingModel(p) == At(p, "register", 7) /\ handle[p]["InProcServer32"] = "open"

RegistrationStepFails(p) ==
  /\ pc[p].op = "register" /\ pc[p].step < Returning
  /\ Fails(p)
  /\ torn' = (torn \/ SettingModel(p))
  /\ UNCHANGED <<registry, handle, leaked, history>>

-----------------------------------------------------------------------------
(***************************************************************************)
(* UnregisterCOMClass: the subkeys are deleted first, the first failure    *)
(* returns.                                                                *)
(***************************************************************************)
\* Mutant: ProgId goes first.
DeletesProgIdFirst == <<"ProgId", "InProcServer32", "class">>

Deletes == <<"InProcServer32", "ProgId", "class">>

RegDeleteKey(p, s) ==
  LET k == Deletes[s] IN
  /\ At(p, "unregister", s)
  /\ k \in keys
  /\ k = "class" => keys = {"class"}
  /\ keys' = keys \ {k}
  /\ values' = [v \in Values |-> IF KeyOf[v] = k THEN "absent" ELSE values[v]]
  /\ handle' = [q \in Processes |->
                  [handle[q] EXCEPT ![k] = IF @ = "open" THEN "stale" ELSE @]]
  /\ torn' = (torn /\ k # "InProcServer32")
  /\ IF s = 3 THEN Succeeds(p) ELSE Goes(p, s + 1) /\ UNCHANGED hr
  /\ UNCHANGED <<leaked, history>>

\* Mutant: a key that cannot be deleted is passed over.
RegDeleteKeyIgnored(p) ==
  /\ pc[p].op = "unregister" /\ pc[p].step \in 1 .. 3
  /\ IF pc[p].step = 3 THEN Succeeds(p)
     ELSE Goes(p, pc[p].step + 1) /\ UNCHANGED hr
  /\ UNCHANGED <<registry, handle, leaked, history, torn>>

RegDeleteKeyFails(p) ==
  /\ pc[p].op = "unregister" /\ pc[p].step < Returning
  /\ Fails(p)
  /\ UNCHANGED <<registry, handle, leaked, history, torn>>

-----------------------------------------------------------------------------
(***************************************************************************)
(* GetCOMClassLocation: a key that cannot be opened makes it close handles *)
(* it never opened.  What an uninitialised handle closes is unknown: it    *)
(* may be nothing or a handle that the process had leaked.                 *)
(***************************************************************************)
Opens == <<"class", "InProcServer32">>

RegOpenKeyEx(p, s) ==
  LET k == Opens[s] IN
  /\ At(p, "locate", s)
  /\ k \in keys
  /\ k = "class" \/ handle[p]["class"] = "open"
  /\ handle' = [handle EXCEPT ![p][k] = "open"]
  /\ Goes(p, s + 1)
  /\ UNCHANGED <<registry, hr, leaked, history, torn>>

RegOpenKeyExFails(p) ==
  /\ pc[p].op = "locate" /\ pc[p].step \in {1, 2}
  /\ Fails(p)
  /\ strayed' = [strayed EXCEPT ![p] = TRUE]
  /\ \/ UNCHANGED leaked
     \/ leaked[p] > 0 /\ leaked' = [leaked EXCEPT ![p] = @ - 1]
  /\ UNCHANGED <<registry, handle, opened, found, disturbed, torn>>

\* GetStringRegKey's error is dropped: the location is then empty.
RegQueryValueEx(p) ==
  /\ At(p, "locate", 3)
  /\ Succeeds(p)
  /\ UNCHANGED <<registry, handle, leaked, history, torn>>

-----------------------------------------------------------------------------
\* Mutant: every handle is forgotten.
ReturnWithoutClosing(p) ==
  /\ pc[p].step = Returning
  /\ leaked' = [leaked EXCEPT ![p] =
                  @ + (IF handle[p]["ProgId"] = "none" THEN 0 ELSE 1)
                    + (IF handle[p]["class"] = "none" THEN 0 ELSE 1)]
  /\ handle' = [handle EXCEPT ![p] = NoHandles]
  /\ pc' = [pc EXCEPT ![p] = Idle]
  /\ hr' = [hr EXCEPT ![p] = "ok"]
  /\ found' = [found EXCEPT ![p] = Nothing]
  /\ UNCHANGED <<registry, opened, strayed, disturbed, torn>>

\* The handles of the class key and of InProcServer32 are closed on every
\* path, the one of ProgId on none.
Return(p) ==
  /\ pc[p].step = Returning
  /\ leaked' = [leaked EXCEPT ![p] =
                  @ + (IF handle[p]["ProgId"] = "none" THEN 0 ELSE 1)]
  /\ handle' = [handle EXCEPT ![p] = NoHandles]
  /\ pc' = [pc EXCEPT ![p] = Idle]
  /\ hr' = [hr EXCEPT ![p] = "ok"]
  /\ found' = [found EXCEPT ![p] = Nothing]
  /\ UNCHANGED <<registry, opened, strayed, disturbed, torn>>

Step(p) ==
  \/ \E s \in DOMAIN Creates : RegCreateKeyEx(p, s)
  \/ \E s \in DOMAIN Sets : RegSetValueEx(p, s)
  \/ RegistrationStepFails(p)
  \/ \E s \in DOMAIN Deletes : RegDeleteKey(p, s)
  \/ RegDeleteKeyFails(p)
  \/ \E s \in DOMAIN Opens : RegOpenKeyEx(p, s)
  \/ RegOpenKeyExFails(p)
  \/ RegQueryValueEx(p)
  \/ Return(p)

Next ==
  \E p \in Processes :
    RegisterCOMClass(p) \/ UnregisterCOMClass(p) \/ GetCOMClassLocation(p)
      \/ Step(p)

Spec == Init /\ [][Next]_vars

-----------------------------------------------------------------------------
(***************************************************************************)
(* Properties.                                                             *)
(***************************************************************************)
Returns(p, op, result) == At(p, op, Returning) /\ hr[p] = result

(***************************************************************************)
(* A registration that says S_OK leaves every key and every value in       *)
(* place, whatever residue of failed calls it met and whichever other      *)
(* registrations ran at the same time, unless they overlapped with an      *)
(* unregistration.                                                         *)
(***************************************************************************)
RegisteredIsComplete ==
  \A p \in Processes :
    Returns(p, "register", "ok") /\ ~disturbed =>
      keys = Keys /\ \A v \in Values : values[v] # "absent"

(***************************************************************************)
(* An unregistration that says S_OK leaves nothing, unless a registration  *)
(* overlapped; another unregistration at the same time may have failed on  *)
(* what this one deleted.                                                  *)
(***************************************************************************)
UnregisteredIsGone ==
  \A p \in Processes :
    Returns(p, "unregister", "ok") /\ ~disturbed => keys = {}

(***************************************************************************)
(* A server with a path and without a ThreadingModel, which COM would      *)
(* activate in the main apartment, is there only while a registration is   *)
(* about to set the value, or because the last one failed to.              *)
(***************************************************************************)
HalfServerKnown ==
  values["path"] # "absent" /\ values["ThreadingModel"] = "absent" =>
    torn \/ \E p \in Processes : SettingModel(p)

(***************************************************************************)
(* An unregistration with no registration beside it that fails changed     *)
(* nothing or left no server; one that succeeds found every key, since the *)
(* residue of a failed call, which lacks one, is refused.                  *)
(***************************************************************************)
OnlyCompleteKeysGo ==
  \A p \in Processes : ~disturbed =>
    /\ Returns(p, "unregister", "fail") =>
         "InProcServer32" \notin keys \/ registry = found[p]
    /\ Returns(p, "unregister", "ok") => found[p][1] = Keys

(***************************************************************************)
(* What failures leave: a half server only behind a registration that      *)
(* failed at its last step, and no half unregistered class with a server.  *)
(***************************************************************************)
ResidueKnown == HalfServerKnown /\ OnlyCompleteKeysGo

(***************************************************************************)
(* Between calls a process holds no handle but one to ProgId for each      *)
(* registration that got that far, unless it closed a stray one.           *)
(***************************************************************************)
HandlesAccounted ==
  \A p \in Processes :
    pc[p] = Idle => /\ handle[p] = NoHandles
                    /\ leaked[p] <= opened[p]
                    /\ ~strayed[p] => leaked[p] = opened[p]

(***************************************************************************)
(* "if reached this line then all is ok": when a registration returns      *)
(* S_OK, and no unregistration ran beside it, every value holds its text.  *)
(***************************************************************************)
AllIsOk ==
  \A p \in Processes :
    Returns(p, "register", "ok") /\ ~disturbed =>
      \A v \in Values : values[v] = "whole"
=============================================================================
