------------------------- MODULE RegistrationProofs -------------------------
(***************************************************************************)
(* The registration of the COM class, for any number of processes and      *)
(* either size of a pointer.  The invariant says which handles a process   *)
(* can have (Handles) and, while only calls of one kind run beside one     *)
(* another (OneKind), what the steps behind a registration or an           *)
(* unregistration have left in the registry (Registering, Unregistering).  *)
(* That a server without ThreadingModel is accounted for (HalfServerKnown) *)
(* is inductive beside it.                                                 *)
(***************************************************************************)
EXTENDS Registration, TLAPS

Registries == (SUBSET Keys) \X [Values -> Contents]

\* A step the call has behind it, unless it is on its way out with a failure.
Past(p, s) == s < pc[p].step /\ (pc[p].step = Returning => hr[p] = "ok")

Handles ==
  \A p \in Processes :
    /\ pc[p].op = "none" => pc[p] = Idle
    /\ pc[p] = Idle => handle[p] = NoHandles
    /\ handle[p]["ProgId"] # "none" => pc[p].op = "register" /\ pc[p].step > 3
    /\ pc[p].op = "register" /\ pc[p].step <= 3 => opened[p] < MaxRegistrations
    /\ LET due == opened[p] - (IF handle[p]["ProgId"] = "none" THEN 0 ELSE 1) IN
       /\ leaked[p] <= due
       /\ ~strayed[p] => leaked[p] = due

OneKind ==
  ~disturbed => \A p, q \in Changing : pc[p].op = pc[q].op

Registering ==
  ~disturbed =>
    \A p \in Processes : pc[p].op = "register" =>
      /\ \A s \in DOMAIN Creates : Past(p, s) => Creates[s] \in keys
      /\ \A s \in DOMAIN Sets : Past(p, s) => values[Sets[s]] # "absent"

Unregistering ==
  ~disturbed =>
    \A p \in Processes : pc[p].op = "unregister" =>
      /\ "InProcServer32" \notin keys \/ registry = found[p]
      /\ keys \subseteq found[p][1]
      /\ \A s \in DOMAIN Deletes :
            Past(p, s) => Deletes[s] \notin keys /\ Deletes[s] \in found[p][1]

RegistrationInv ==
  /\ TypeOK
  /\ found \in [Processes -> Registries]
  /\ Handles
  /\ OneKind
  /\ Registering
  /\ Unregistering

-----------------------------------------------------------------------------
\* The tables of the steps, entry by entry.
LEMMA Tables ==
  /\ DOMAIN Creates = {1, 3, 5}
  /\ Creates[1] = "class" /\ Creates[3] = "ProgId" /\ Creates[5] = "InProcServer32"
  /\ DOMAIN Sets = {2, 4, 6, 7}
  /\ Sets[2] = "description" /\ Sets[4] = "progId"
  /\ Sets[6] = "path" /\ Sets[7] = "ThreadingModel"
  /\ DOMAIN Deletes = {1, 2, 3}
  /\ Deletes[1] = "InProcServer32" /\ Deletes[2] = "ProgId" /\ Deletes[3] = "class"
  /\ DOMAIN Opens = {1, 2}
  /\ Opens[1] = "class" /\ Opens[2] = "InProcServer32"
  /\ KeyOf["description"] = "class" /\ KeyOf["progId"] = "ProgId"
  /\ KeyOf["path"] = "InProcServer32" /\ KeyOf["ThreadingModel"] = "InProcServer32"
  /\ Returning = 8
  <1>1. DOMAIN Creates = {1, 3, 5}
        /\ Creates[1] = "class" /\ Creates[3] = "ProgId" /\ Creates[5] = "InProcServer32"
    BY DEF Creates
  <1>2. DOMAIN Sets = {2, 4, 6, 7}
        /\ Sets[2] = "description" /\ Sets[4] = "progId"
        /\ Sets[6] = "path" /\ Sets[7] = "ThreadingModel"
    BY DEF Sets
  <1>3. DOMAIN Deletes = {1, 2, 3}
        /\ Deletes[1] = "InProcServer32" /\ Deletes[2] = "ProgId" /\ Deletes[3] = "class"
    BY DEF Deletes
  <1>4. DOMAIN Opens = {1, 2} /\ Opens[1] = "class" /\ Opens[2] = "InProcServer32"
    BY DEF Opens
  <1>5. KeyOf["description"] = "class" /\ KeyOf["progId"] = "ProgId"
        /\ KeyOf["path"] = "InProcServer32" /\ KeyOf["ThreadingModel"] = "InProcServer32"
    BY DEF KeyOf
  <1> QED BY <1>1, <1>2, <1>3, <1>4, <1>5 DEF Returning

LEMMA WrittenIsThere ==
  ASSUME NEW v \in Values PROVE Written(v) \in {"cut", "whole"}
  BY DEF Written

LEMMA IdleFacts ==
  /\ Idle.op = "none" /\ Idle.step = 0 /\ Idle \in Place
  /\ \A k \in Keys : NoHandles[k] = "none"
  /\ NoHandles \in [Keys -> {"none", "open", "stale"}]
  BY DEF Idle, Place, NoHandles

LEMMA RegistrationInit == ASSUME Init PROVE RegistrationInv
  <1> USE DEF Init
  <1>1. \A p \in Processes : pc[p] = Idle /\ pc[p].op = "none" /\ handle[p] = NoHandles
    BY IdleFacts
  <1>2. TypeOK
    <2>1. pc \in [Processes -> Place]
      BY IdleFacts
    <2>2. handle \in [Processes -> [Keys -> {"none", "open", "stale"}]]
      BY IdleFacts
    <2>3. \A p \in Processes, k \in Keys : handle[p][k] # "open"
      BY IdleFacts
    <2>4. values \in [Values -> Contents] /\ \A v \in Values : values[v] = "absent"
      BY DEF Contents
    <2>5. opened \in [Processes -> 0 .. MaxRegistrations] /\ leaked \in [Processes -> Nat]
      BY RegistrationAssumption
    <2>6. hr \in [Processes -> {"ok", "fail"}] /\ strayed \in [Processes -> BOOLEAN]
      OBVIOUS
    <2> QED BY <2>1, <2>2, <2>3, <2>4, <2>5, <2>6 DEF TypeOK
  <1>3. found \in [Processes -> Registries]
    BY DEF Nothing, Registries, Contents
  <1>4. Handles
    <2>1. \A p \in Processes : handle[p]["ProgId"] = "none"
      BY <1>1, IdleFacts DEF Keys
    <2>2. \A p \in Processes : opened[p] = 0 /\ leaked[p] = 0
      OBVIOUS
    <2> SUFFICES ASSUME NEW p \in Processes
                 PROVE  LET due == opened[p] - (IF handle[p]["ProgId"] = "none" THEN 0 ELSE 1) IN
                        leaked[p] <= due /\ (~strayed[p] => leaked[p] = due)
      BY <1>1, <2>1, IdleFacts DEF Handles
    <2> QED BY <2>1, <2>2
  <1>5. OneKind /\ Registering /\ Unregistering
    <2>1. \A p \in Processes : p \notin Changing
      BY <1>1 DEF Changing, Opposite
    <2>2. OneKind
      BY <2>1 DEF OneKind, Changing
    <2>3. Registering
      BY <1>1 DEF Registering
    <2>4. Unregistering
      BY <1>1 DEF Unregistering
    <2> QED BY <2>2, <2>3, <2>4
  <1> QED BY <1>2, <1>3, <1>4, <1>5 DEF RegistrationInv

-----------------------------------------------------------------------------
\* A thread of control that goes from step to step of its call.
LEMMA StepMoves ==
  ASSUME TypeOK, NEW p \in Processes, NEW s \in 0 .. 8, Goes(p, s)
  PROVE  /\ pc' \in [Processes -> Place]
         /\ pc'[p].op = pc[p].op /\ pc'[p].step = s
         /\ \A q \in Processes : q # p => pc'[q] = pc[q]
         /\ \A q \in Processes : pc'[q].op = pc[q].op
  BY DEF TypeOK, Goes, Place

(***************************************************************************)
(* A step that leaves the registry alone and after which the process has   *)
(* failed or has no changing call: what is known of the others' calls      *)
(* stays true.                                                             *)
(***************************************************************************)
LEMMA QuietStep ==
  ASSUME RegistrationInv, NEW p \in Processes,
         UNCHANGED <<registry, found, disturbed>>,
         \A q \in Processes : q # p => pc'[q] = pc[q] /\ hr'[q] = hr[q],
         \/ pc'[p].op \in {"none", "locate"}
         \/ pc'[p].op = pc[p].op /\ pc'[p].step = Returning /\ hr'[p] = "fail"
  PROVE  OneKind' /\ Registering' /\ Unregistering'
  <1> USE DEF RegistrationInv, registry
  <1>1. \A q \in Changing' : q \in Changing /\ pc'[q].op = pc[q].op
    BY DEF Changing, Opposite
  <1>2. \A s : \A q \in Processes : Past(q, s)' /\ pc'[q].op \in {"register", "unregister"} => Past(q, s)
    BY DEF Past
  <1>3. OneKind'
    BY <1>1 DEF OneKind
  <1>4. \A q \in Processes : pc'[q].op \in {"register", "unregister"} => pc'[q].op = pc[q].op
    OBVIOUS
  <1>5. Registering'
    BY <1>2, <1>4 DEF Registering
  <1>6. Unregistering'
    BY <1>2, <1>4 DEF Unregistering
  <1> QED BY <1>3, <1>5, <1>6

\* A step that does not touch the handles of ProgId, or the counts.
LEMMA HandlesStay ==
  ASSUME RegistrationInv, NEW p \in Processes,
         UNCHANGED <<leaked, opened, strayed>>,
         \A q \in Processes : q # p => pc'[q] = pc[q] /\ handle'[q] = handle[q],
         pc[p].op # "none", pc'[p].op = pc[p].op,
         pc[p].step <= pc'[p].step, pc'[p].step \in 0 .. 8,
         handle'[p]["ProgId"] = handle[p]["ProgId"]
  PROVE  Handles'
  <1> SUFFICES ASSUME NEW q \in Processes
               PROVE  /\ pc'[q].op = "none" => pc'[q] = Idle
                      /\ pc'[q] = Idle => handle'[q] = NoHandles
                      /\ handle'[q]["ProgId"] # "none" => pc'[q].op = "register" /\ pc'[q].step > 3
                      /\ pc'[q].op = "register" /\ pc'[q].step <= 3 => opened'[q] < MaxRegistrations
                      /\ LET due == opened'[q] - (IF handle'[q]["ProgId"] = "none" THEN 0 ELSE 1) IN
                         leaked'[q] <= due /\ (~strayed'[q] => leaked'[q] = due)
    BY DEF Handles
  <1>1. CASE q # p
    BY <1>1 DEF RegistrationInv, Handles
  <1>2. CASE q = p
    <2>1. pc[p].step \in 0 .. 8 /\ pc'[p] # Idle
      BY IdleFacts DEF RegistrationInv, TypeOK, Place
    <2> QED BY <1>2, <2>1 DEF RegistrationInv, Handles
  <1> QED BY <1>1, <1>2

-----------------------------------------------------------------------------
\* A call begins with what it found in the registry, and settles whether it
\* runs beside one of the opposite kind.
LEMMA BeginStep ==
  ASSUME RegistrationInv, NEW p \in Processes,
         NEW op \in {"register", "unregister", "locate"},
         op = "register" => opened[p] < MaxRegistrations, Begin(p, op)
  PROVE  RegistrationInv'
  <1> USE DEF RegistrationInv, Begin, registry
  <1>1. /\ pc[p] = Idle /\ pc[p].op = "none"
        /\ pc'[p].op = op /\ pc'[p].step = 1
        /\ \A q \in Processes : q # p => pc'[q] = pc[q]
        /\ pc' \in [Processes -> Place]
    BY IdleFacts DEF TypeOK, Place
  <1>2. TypeOK'
    <2>1. disturbed' \in BOOLEAN
      BY DEF TypeOK
    <2> QED BY <1>1, <2>1 DEF TypeOK
  <1>3. /\ found' \in [Processes -> Registries]
        /\ \A q \in Processes : q # p => found'[q] = found[q]
        /\ found'[p] = IF op = "unregister" THEN registry ELSE Nothing
    <2>1. Nothing \in Registries /\ registry \in Registries
      BY DEF Nothing, Registries, Contents, TypeOK
    <2> QED BY <2>1
  <1>4. Handles'
    <2> SUFFICES ASSUME NEW q \in Processes
                 PROVE  /\ pc'[q].op = "none" => pc'[q] = Idle
                        /\ pc'[q] = Idle => handle'[q] = NoHandles
                        /\ handle'[q]["ProgId"] # "none" => pc'[q].op = "register" /\ pc'[q].step > 3
                        /\ pc'[q].op = "register" /\ pc'[q].step <= 3 => opened'[q] < MaxRegistrations
                        /\ LET due == opened'[q] - (IF handle'[q]["ProgId"] = "none" THEN 0 ELSE 1) IN
                           leaked'[q] <= due /\ (~strayed'[q] => leaked'[q] = due)
      BY DEF Handles
    <2>1. CASE q # p
      BY <1>1, <2>1 DEF Handles
    <2>2. CASE q = p
      <3>1. pc'[p] # Idle /\ handle[p]["ProgId"] = "none"
        BY <1>1, IdleFacts DEF Handles
      <3> QED BY <1>1, <2>2, <3>1 DEF Handles
    <2> QED BY <2>1, <2>2
  <1>5. CASE op = "locate"
    <2>1. UNCHANGED <<registry, disturbed, hr>>
      BY <1>5
    <2>2. \A q \in Changing' : q \in Changing /\ pc'[q] = pc[q]
      BY <1>1, <1>5 DEF Changing, Opposite
    <2>3. OneKind'
      BY <2>1, <2>2 DEF OneKind
    <2>4. \A q \in Processes : pc'[q].op \in {"register", "unregister"} => q # p
      BY <1>1, <1>5
    <2>5. Registering'
      BY <1>1, <1>3, <2>1, <2>4 DEF Registering, Past
    <2>6. Unregistering'
      BY <1>1, <1>3, <2>1, <2>4 DEF Unregistering, Past
    <2> QED BY <1>2, <1>3, <1>4, <2>3, <2>5, <2>6
  <1>6. CASE op # "locate"
    <2>1. disturbed' = (Changing # {} /\ (disturbed \/ \E q \in Changing : pc[q].op = Opposite[op]))
      BY <1>6
    <2>2. Changing' = Changing \cup {p} /\ p \notin Changing
      BY <1>1, <1>6 DEF Changing, Opposite
    <2>3. \A q \in Changing : pc[q].op \in {"register", "unregister"}
      BY DEF Changing, Opposite
    <2>4. Opposite["register"] = "unregister" /\ Opposite["unregister"] = "register"
      BY DEF Opposite
    <2>5. ~disturbed' => \A q \in Changing : ~disturbed /\ pc[q].op = op
      BY <1>6, <2>1, <2>3, <2>4 DEF TypeOK
    <2>6. OneKind'
      BY <1>1, <2>2, <2>5 DEF OneKind
    <2>7. UNCHANGED <<keys, values, hr>>
      OBVIOUS
    <2>8. \A s \in {1, 2, 3, 4, 5, 6, 7} : ~Past(p, s)'
      BY <1>1 DEF Past
    <2>9. Registering'
      <3> SUFFICES ASSUME ~disturbed', NEW q \in Processes, pc'[q].op = "register"
                   PROVE  /\ \A s \in DOMAIN Creates : Past(q, s)' => Creates[s] \in keys
                          /\ \A s \in DOMAIN Sets : Past(q, s)' => values[Sets[s]] # "absent"
        BY <2>7 DEF Registering
      <3>1. CASE q = p
        BY <1>3, <1>6, <2>8, <3>1, Tables
      <3>2. CASE q # p
        BY <1>1, <1>3, <2>5, <2>7, <3>2 DEF Registering, Past, Changing, Opposite
      <3> QED BY <3>1, <3>2
    <2>10. Unregistering'
      <3> SUFFICES ASSUME ~disturbed', NEW q \in Processes, pc'[q].op = "unregister"
                   PROVE  /\ "InProcServer32" \notin keys \/ registry = found'[q]
                          /\ keys \subseteq found'[q][1]
                          /\ \A s \in DOMAIN Deletes : Past(q, s)' =>
                                Deletes[s] \notin keys /\ Deletes[s] \in found'[q][1]
        BY <2>7 DEF Unregistering
      <3>1. CASE q = p
        <4>1. found'[q] = registry /\ found'[q][1] = keys
          BY <1>1, <1>3, <1>6, <3>1 DEF registry
        <4> QED BY <2>8, <3>1, <4>1, Tables
      <3>2. CASE q # p
        BY <1>1, <1>3, <2>5, <2>7, <3>2 DEF Unregistering, Past, Changing, Opposite
      <3> QED BY <3>1, <3>2
    <2> QED BY <1>2, <1>3, <1>4, <2>6, <2>9, <2>10
  <1> QED BY <1>5, <1>6

-----------------------------------------------------------------------------
\* What holds while a registration runs undisturbed: nobody unregisters.
LEMMA OnlyRegistrations ==
  ASSUME RegistrationInv, NEW p \in Processes, ~disturbed,
         pc[p].op \in {"register", "unregister"}
  PROVE  \A q \in Processes :
           pc[q].op \in {"register", "unregister"} => pc[q].op = pc[p].op
  BY DEF RegistrationInv, OneKind, Changing, Opposite

(***************************************************************************)
(* A registration creates or opens the key of its step.                    *)
(***************************************************************************)
LEMMA CreateStep ==
  ASSUME RegistrationInv, NEW p \in Processes, NEW s \in DOMAIN Creates,
         RegCreateKeyEx(p, s)
  PROVE  RegistrationInv'
  <1> USE DEF RegistrationInv, RegCreateKeyEx
  <1>1. PICK k \in Keys : k = Creates[s]
    BY Tables DEF Keys
  <1>2. /\ s \in {1, 3, 5} /\ pc[p].op = "register" /\ pc[p].step = s
        /\ (k = "ProgId" <=> s = 3)
    BY <1>1, Tables DEF At
  <1>3. /\ pc' \in [Processes -> Place]
        /\ pc'[p].op = "register" /\ pc'[p].step = s + 1
        /\ \A q \in Processes : q # p => pc'[q] = pc[q]
        /\ \A q \in Processes : pc'[q].op = pc[q].op
    <2>1. s + 1 \in 0 .. 8 /\ Goes(p, s + 1)
      BY <1>2
    <2> QED BY <1>2, <2>1, StepMoves
  <1>4. /\ keys' = keys \cup {k} /\ UNCHANGED <<values, hr, leaked, strayed, found, disturbed>>
        /\ handle' = [handle EXCEPT ![p][k] = "open"]
        /\ opened' = [opened EXCEPT ![p] = IF k = "ProgId" THEN @ + 1 ELSE @]
    BY <1>1
  <1>5. TypeOK'
    <2>1. keys' \subseteq Keys /\ "class" \in keys'
      BY <1>1, <1>4 DEF TypeOK, Keys
    <2>2. /\ handle' \in [Processes -> [Keys -> {"none", "open", "stale"}]]
          /\ \A q \in Processes, j \in Keys : handle'[q][j] = "open" => j \in keys'
      BY <1>1, <1>4 DEF TypeOK
    <2>3. opened' \in [Processes -> 0 .. MaxRegistrations]
      <3>1. s = 3 => opened[p] < MaxRegistrations
        BY <1>2 DEF Handles
      <3> QED BY <1>2, <1>4, <3>1, RegistrationAssumption DEF TypeOK
    <2> QED BY <1>3, <1>4, <2>1, <2>2, <2>3 DEF TypeOK
  <1>6. Handles'
    <2> SUFFICES ASSUME NEW q \in Processes
                 PROVE  /\ pc'[q].op = "none" => pc'[q] = Idle
                        /\ pc'[q] = Idle => handle'[q] = NoHandles
                        /\ handle'[q]["ProgId"] # "none" => pc'[q].op = "register" /\ pc'[q].step > 3
                        /\ pc'[q].op = "register" /\ pc'[q].step <= 3 => opened'[q] < MaxRegistrations
                        /\ LET due == opened'[q] - (IF handle'[q]["ProgId"] = "none" THEN 0 ELSE 1) IN
                           leaked'[q] <= due /\ (~strayed'[q] => leaked'[q] = due)
      BY DEF Handles
    <2>1. CASE q # p
      BY <1>3, <1>4, <2>1 DEF Handles, TypeOK
    <2>2. CASE q = p
      <3>1. pc'[p] # Idle /\ pc[p] # Idle
        BY <1>2, <1>3, IdleFacts
      <3>2. /\ handle'[p]["ProgId"] = IF s = 3 THEN "open" ELSE handle[p]["ProgId"]
            /\ opened'[p] = IF s = 3 THEN opened[p] + 1 ELSE opened[p]
        BY <1>2, <1>4 DEF TypeOK, Keys
      <3>3. opened[p] \in Nat /\ leaked[p] \in Nat /\ (s <= 3 => handle[p]["ProgId"] = "none")
        BY <1>2, RegistrationAssumption DEF TypeOK, Handles
      <3>4. s # 3 /\ handle[p]["ProgId"] # "none" => s + 1 > 3
        BY <1>2 DEF Handles
      <3>5. leaked'[p] = leaked[p] /\ strayed'[p] = strayed[p]
        BY <1>4
      <3>6. CASE s = 3
        BY <1>2, <1>3, <2>2, <3>1, <3>2, <3>3, <3>5, <3>6 DEF Handles
      <3>7. CASE s # 3
        BY <1>2, <1>3, <2>2, <3>1, <3>2, <3>3, <3>4, <3>5, <3>7 DEF Handles
      <3> QED BY <3>6, <3>7
    <2> QED BY <2>1, <2>2
  <1>7. OneKind'
    BY <1>3, <1>4 DEF OneKind, Changing
  <1>8. Registering'
    <2> SUFFICES ASSUME ~disturbed, NEW q \in Processes, pc[q].op = "register"
                 PROVE  /\ \A r \in DOMAIN Creates : Past(q, r)' => Creates[r] \in keys'
                        /\ \A r \in DOMAIN Sets : Past(q, r)' => values[Sets[r]] # "absent"
      BY <1>3, <1>4 DEF Registering
    <2>2. \A r \in {1, 2, 3, 4, 5, 6, 7} : Past(q, r)' => Past(q, r) \/ (q = p /\ r = s)
      BY <1>2, <1>3, <1>4 DEF Past, Returning
    <2> QED BY <1>1, <1>2, <1>4, <2>2, Tables DEF Registering
  <1>9. Unregistering'
    <2>1. \A q \in Processes : ~disturbed => pc[q].op # "unregister"
      BY <1>2, OnlyRegistrations
    <2> QED BY <1>3, <1>4, <2>1 DEF Unregistering
  <1> QED BY <1>4, <1>5, <1>6, <1>7, <1>8, <1>9

-----------------------------------------------------------------------------
\* The result of a call's last step is the success that Past asks for.
LEMMA Advances ==
  ASSUME TypeOK, NEW p \in Processes, NEW s \in 1 .. 7, NEW next \in {s + 1, 8},
         pc[p].step = s,
         \/ Goes(p, next) /\ UNCHANGED hr
         \/ next = 8 /\ hr' = [hr EXCEPT ![p] = "ok"] /\ Goes(p, next)
  PROVE  /\ pc' \in [Processes -> Place] /\ hr' \in [Processes -> {"ok", "fail"}]
         /\ pc'[p].op = pc[p].op /\ pc'[p].step = next
         /\ \A q \in Processes : q # p => pc'[q] = pc[q] /\ hr'[q] = hr[q]
         /\ \A q \in Processes : pc'[q].op = pc[q].op
  <1>1. next \in 0 .. 8 /\ Goes(p, next)
    OBVIOUS
  <1>2. hr' \in [Processes -> {"ok", "fail"}] /\ \A q \in Processes : q # p => hr'[q] = hr[q]
    BY DEF TypeOK
  <1> QED BY <1>1, <1>2, StepMoves

(***************************************************************************)
(* A registration sets the value of its step.                              *)
(***************************************************************************)
LEMMA SetStep ==
  ASSUME RegistrationInv, NEW p \in Processes, NEW s \in DOMAIN Sets,
         RegSetValueEx(p, s)
  PROVE  RegistrationInv'
  <1> USE DEF RegistrationInv, RegSetValueEx
  <1>1. PICK v \in Values : v = Sets[s]
    BY Tables DEF Values
  <1>2. /\ s \in {2, 4, 6, 7} /\ pc[p].op = "register" /\ pc[p].step = s
        /\ handle[p][KeyOf[v]] = "open"
    BY <1>1, Tables DEF At
  <1>3. PICK next \in {s + 1, 8} : next = s + 1
    OBVIOUS
  <1>4. /\ pc' \in [Processes -> Place] /\ hr' \in [Processes -> {"ok", "fail"}]
        /\ pc'[p].op = "register" /\ pc'[p].step = s + 1
        /\ \A q \in Processes : q # p => pc'[q] = pc[q] /\ hr'[q] = hr[q]
        /\ \A q \in Processes : pc'[q].op = pc[q].op
    <2>1. \/ Goes(p, next) /\ UNCHANGED hr
          \/ next = 8 /\ hr' = [hr EXCEPT ![p] = "ok"] /\ Goes(p, next)
      BY <1>2, <1>3 DEF Succeeds, Returning
    <2>2. s \in 1 .. 7
      BY <1>2
    <2> QED BY <1>2, <1>3, <2>1, <2>2, Advances
  <1>5. /\ values' = [values EXCEPT ![v] = Written(v)]
        /\ UNCHANGED <<keys, handle, leaked, opened, strayed, found, disturbed>>
    BY <1>1 DEF history
  <1>6. /\ values' \in [Values -> Contents] /\ values'[v] # "absent"
        /\ \A w \in Values : values'[w] = "absent" => values[w] = "absent"
        /\ \A w \in Values : w # v => values'[w] = values[w]
    <2>1. values \in [Values -> Contents] /\ Written(v) \in Contents /\ Written(v) # "absent"
      BY WrittenIsThere DEF TypeOK, Contents
    <2> QED BY <1>5, <2>1
  <1>7. KeyOf[v] \in keys
    <2>1. KeyOf[v] \in Keys
      BY Tables DEF Values, Keys
    <2> QED BY <1>2, <2>1 DEF TypeOK
  <1>8. TypeOK'
    BY <1>4, <1>5, <1>6, <1>7 DEF TypeOK
  <1>9. Handles'
    BY <1>2, <1>4, <1>5, HandlesStay
  <1>10. OneKind'
    BY <1>4, <1>5 DEF OneKind, Changing
  <1>11. Registering'
    <2> SUFFICES ASSUME ~disturbed, NEW q \in Processes, pc[q].op = "register"
                 PROVE  /\ \A r \in DOMAIN Creates : Past(q, r)' => Creates[r] \in keys
                        /\ \A r \in DOMAIN Sets : Past(q, r)' => values'[Sets[r]] # "absent"
      BY <1>4, <1>5 DEF Registering
    <2>2. \A r \in {1, 2, 3, 4, 5, 6, 7} : Past(q, r)' => Past(q, r) \/ (q = p /\ r = s)
      BY <1>2, <1>4 DEF Past, Returning
    <2>3. \A r \in DOMAIN Sets : Sets[r] \in Values
      BY Tables DEF Values
    <2> QED BY <1>1, <1>2, <1>6, <2>2, <2>3, Tables DEF Registering
  <1>12. Unregistering'
    <2>1. \A q \in Processes : ~disturbed => pc[q].op # "unregister"
      BY <1>2, OnlyRegistrations
    <2> QED BY <1>4, <1>5, <2>1 DEF Unregistering
  <1> QED BY <1>5, <1>8, <1>9, <1>10, <1>11, <1>12

-----------------------------------------------------------------------------
(***************************************************************************)
(* An unregistration deletes the key of its step, whose handles in other   *)
(* processes become stale.                                                 *)
(***************************************************************************)
LEMMA DeleteStep ==
  ASSUME RegistrationInv, NEW p \in Processes, NEW s \in DOMAIN Deletes,
         RegDeleteKey(p, s)
  PROVE  RegistrationInv'
  <1> USE DEF RegistrationInv, RegDeleteKey
  <1>1. PICK k \in Keys : k = Deletes[s]
    BY Tables DEF Keys
  <1>2. /\ s \in {1, 2, 3} /\ pc[p].op = "unregister" /\ pc[p].step = s
        /\ k \in keys /\ (k = "class" => keys = {"class"})
    BY <1>1, Tables DEF At
  <1>3. PICK next \in {s + 1, 8} : next = IF s = 3 THEN 8 ELSE s + 1
    OBVIOUS
  <1>4. /\ pc' \in [Processes -> Place] /\ hr' \in [Processes -> {"ok", "fail"}]
        /\ pc'[p].op = "unregister" /\ pc'[p].step = next
        /\ \A q \in Processes : q # p => pc'[q] = pc[q] /\ hr'[q] = hr[q]
        /\ \A q \in Processes : pc'[q].op = pc[q].op
    <2>1. \/ Goes(p, next) /\ UNCHANGED hr
          \/ next = 8 /\ hr' = [hr EXCEPT ![p] = "ok"] /\ Goes(p, next)
      BY <1>2, <1>3 DEF Succeeds, Returning
    <2>2. s \in 1 .. 7
      BY <1>2
    <2> QED BY <1>2, <1>3, <2>1, <2>2, Advances
  <1>5. /\ keys' = keys \ {k} /\ UNCHANGED <<leaked, opened, strayed, found, disturbed>>
        /\ values' = [v \in Values |-> IF KeyOf[v] = k THEN "absent" ELSE values[v]]
        /\ handle' = [q \in Processes |->
                        [handle[q] EXCEPT ![k] = IF @ = "open" THEN "stale" ELSE @]]
    BY <1>1 DEF history
  <1>6. TypeOK'
    <2>1. /\ values' \in [Values -> Contents]
          /\ \A v \in Values : values'[v] # "absent" => KeyOf[v] \in keys'
      <3>1. values' \in [Values -> Contents]
        BY <1>5 DEF TypeOK, Contents
      <3>2. \A v \in Values : values'[v] # "absent" => KeyOf[v] # k /\ values[v] # "absent"
        BY <1>5
      <3> QED BY <1>5, <3>1, <3>2 DEF TypeOK
    <2>2. keys' \subseteq Keys /\ (keys' # {} => "class" \in keys')
      BY <1>2, <1>5 DEF TypeOK
    <2>3. /\ handle' \in [Processes -> [Keys -> {"none", "open", "stale"}]]
          /\ \A q \in Processes, j \in Keys : handle'[q][j] = "open" => j \in keys'
      BY <1>1, <1>5 DEF TypeOK
    <2> QED BY <1>4, <1>5, <2>1, <2>2, <2>3 DEF TypeOK
  <1>7. \A q \in Processes, j \in Keys : handle'[q][j] = "none" <=> handle[q][j] = "none"
    BY <1>1, <1>5 DEF TypeOK
  <1>8. Handles'
    <2> SUFFICES ASSUME NEW q \in Processes
                 PROVE  /\ pc'[q].op = "none" => pc'[q] = Idle
                        /\ pc'[q] = Idle => handle'[q] = NoHandles
                        /\ handle'[q]["ProgId"] # "none" => pc'[q].op = "register" /\ pc'[q].step > 3
                        /\ pc'[q].op = "register" /\ pc'[q].step <= 3 => opened'[q] < MaxRegistrations
                        /\ LET due == opened'[q] - (IF handle'[q]["ProgId"] = "none" THEN 0 ELSE 1) IN
                           leaked'[q] <= due /\ (~strayed'[q] => leaked'[q] = due)
      BY DEF Handles
    <2>1. handle'[q]["ProgId"] = "none" <=> handle[q]["ProgId"] = "none"
      BY <1>7 DEF Keys
    <2>2. pc'[q] = Idle => handle'[q] = NoHandles
      <3> SUFFICES ASSUME pc'[q] = Idle PROVE handle'[q] = NoHandles
        OBVIOUS
      <3>1. q # p
        BY <1>4, IdleFacts
      <3>2. handle[q] = NoHandles
        BY <1>4, <3>1 DEF Handles
      <3> QED BY <1>1, <1>5, <3>2 DEF NoHandles
    <2>3. pc'[q].op = "none" => pc'[q] = Idle
      BY <1>4 DEF Handles
    <2>4. pc'[q].op = "register" => pc'[q] = pc[q]
      BY <1>4
    <2>5. pc'[q].op = pc[q].op
      BY <1>4
    <2> QED BY <1>5, <2>1, <2>2, <2>3, <2>4, <2>5 DEF Handles
  <1>9. OneKind'
    BY <1>4, <1>5 DEF OneKind, Changing
  <1>10. Registering'
    <2>1. \A q \in Processes : ~disturbed => pc[q].op # "register"
      BY <1>2, OnlyRegistrations
    <2> QED BY <1>4, <1>5, <2>1 DEF Registering
  <1>11. Unregistering'
    <2> SUFFICES ASSUME ~disturbed, NEW q \in Processes, pc[q].op = "unregister"
                 PROVE  /\ "InProcServer32" \notin keys'
                        /\ keys' \subseteq found[q][1]
                        /\ \A r \in DOMAIN Deletes : Past(q, r)' =>
                              Deletes[r] \notin keys' /\ Deletes[r] \in found[q][1]
      BY <1>4, <1>5 DEF Unregistering
    <2>1. "InProcServer32" \notin keys'
      <3>1. CASE s = 1
        BY <1>1, <1>5, <3>1, Tables
      <3>2. CASE s # 1
        <4>1. Past(p, 1) /\ 1 \in DOMAIN Deletes
          BY <1>2, <3>2, Tables DEF Past
        <4>2. Deletes[1] \notin keys
          BY <1>2, <4>1 DEF Unregistering
        <4> QED BY <1>5, <4>2, Tables
      <3> QED BY <3>1, <3>2
    <2>2. \A r \in {1, 2, 3} : Past(q, r)' => Past(q, r) \/ (q = p /\ r <= s)
      BY <1>2, <1>3, <1>4 DEF Past, Returning
    <2>3. \A r \in {1, 2, 3} : r < s => Past(p, r)
      BY <1>2 DEF Past, Returning
    <2>4. \A r \in {1, 2, 3} : r <= s <=> r < s \/ r = s
      BY <1>2
    <2> QED BY <1>1, <1>2, <1>5, <2>1, <2>2, <2>3, <2>4, Tables DEF Unregistering
  <1> QED BY <1>5, <1>6, <1>8, <1>9, <1>10, <1>11

-----------------------------------------------------------------------------
\* A registration or an unregistration that fails leaves things as they are.
LEMMA FailStep ==
  ASSUME RegistrationInv, NEW p \in Processes,
         RegistrationStepFails(p) \/ RegDeleteKeyFails(p)
  PROVE  RegistrationInv'
  <1> USE DEF RegistrationInv, RegistrationStepFails, RegDeleteKeyFails, Fails
  <1>1. /\ Goes(p, 8) /\ pc[p].op \in {"register", "unregister"}
        /\ hr' = [hr EXCEPT ![p] = "fail"]
        /\ UNCHANGED <<registry, handle, leaked, opened, strayed, found, disturbed>>
    BY DEF history, Returning
  <1>2. /\ pc' \in [Processes -> Place]
        /\ pc'[p].op = pc[p].op /\ pc'[p].step = 8
        /\ \A q \in Processes : q # p => pc'[q] = pc[q]
    BY <1>1, StepMoves
  <1>3. /\ hr' \in [Processes -> {"ok", "fail"}] /\ hr'[p] = "fail"
        /\ \A q \in Processes : q # p => hr'[q] = hr[q]
    BY <1>1 DEF TypeOK
  <1>4. TypeOK'
    <2>1. torn' \in BOOLEAN
      BY DEF SettingModel, At, TypeOK
    <2> QED BY <1>1, <1>2, <1>3, <2>1 DEF TypeOK, registry
  <1>5. Handles'
    <2>1. pc[p].step <= 8
      <3>1. pc[p] \in Place
        BY DEF TypeOK
      <3> QED BY <3>1 DEF Place
    <2> QED BY <1>1, <1>2, <2>1, HandlesStay
  <1>6. OneKind' /\ Registering' /\ Unregistering'
    BY <1>1, <1>2, <1>3, QuietStep, Tables
  <1> QED BY <1>1, <1>4, <1>5, <1>6

\* The location is looked up without a change of the registry.
LEMMA OpenStep ==
  ASSUME RegistrationInv, NEW p \in Processes, NEW s \in DOMAIN Opens,
         RegOpenKeyEx(p, s)
  PROVE  RegistrationInv'
  <1> USE DEF RegistrationInv, RegOpenKeyEx
  <1>1. PICK k \in Keys : k = Opens[s] /\ k # "ProgId"
    BY Tables DEF Keys
  <1>2. /\ s \in {1, 2} /\ pc[p].op = "locate" /\ pc[p].step = s /\ k \in keys
        /\ handle' = [handle EXCEPT ![p][k] = "open"]
        /\ UNCHANGED <<registry, hr, leaked, opened, strayed, found, disturbed>>
    BY <1>1, Tables DEF At, history
  <1>3. /\ pc' \in [Processes -> Place]
        /\ pc'[p].op = "locate" /\ pc'[p].step = s + 1
        /\ \A q \in Processes : q # p => pc'[q] = pc[q]
    <2>1. s + 1 \in 0 .. 8 /\ Goes(p, s + 1)
      BY <1>2
    <2> QED BY <1>2, <2>1, StepMoves
  <1>4. TypeOK'
    <2>1. /\ handle' \in [Processes -> [Keys -> {"none", "open", "stale"}]]
          /\ \A q \in Processes, j \in Keys : handle'[q][j] = "open" => j \in keys
      BY <1>1, <1>2 DEF TypeOK
    <2> QED BY <1>2, <1>3, <2>1 DEF TypeOK, registry
  <1>5. Handles'
    <2>1. /\ handle'[p]["ProgId"] = handle[p]["ProgId"]
          /\ \A q \in Processes : q # p => handle'[q] = handle[q]
      BY <1>1, <1>2 DEF TypeOK, Keys
    <2>2. s <= s + 1 /\ s + 1 \in 0 .. 8
      BY <1>2
    <2> QED BY <1>2, <1>3, <2>1, <2>2, HandlesStay
  <1>6. OneKind' /\ Registering' /\ Unregistering'
    BY <1>2, <1>3, QuietStep
  <1> QED BY <1>2, <1>4, <1>5, <1>6

LEMMA QueryStep ==
  ASSUME RegistrationInv, NEW p \in Processes, RegQueryValueEx(p)
  PROVE  RegistrationInv'
  <1> USE DEF RegistrationInv, RegQueryValueEx, Succeeds
  <1>1. /\ Goes(p, 8) /\ pc[p].op = "locate" /\ pc[p].step = 3
        /\ hr' = [hr EXCEPT ![p] = "ok"]
        /\ UNCHANGED <<registry, handle, leaked, opened, strayed, found, disturbed>>
    BY DEF history, Returning, At
  <1>2. /\ pc' \in [Processes -> Place]
        /\ pc'[p].op = "locate" /\ pc'[p].step = 8
        /\ \A q \in Processes : q # p => pc'[q] = pc[q]
    BY <1>1, StepMoves
  <1>3. /\ hr' \in [Processes -> {"ok", "fail"}]
        /\ \A q \in Processes : q # p => hr'[q] = hr[q]
    BY <1>1 DEF TypeOK
  <1>4. TypeOK'
    BY <1>1, <1>2, <1>3 DEF TypeOK, registry
  <1>5. Handles'
    BY <1>1, <1>2, HandlesStay
  <1>6. OneKind' /\ Registering' /\ Unregistering'
    BY <1>1, <1>2, <1>3, QuietStep
  <1> QED BY <1>1, <1>4, <1>5, <1>6

\* Without a key the look-up closes what is in its uninitialised variables: a
\* leaked handle less, and from now on the account of handles is a bound.
LEMMA OpenFailsStep ==
  ASSUME RegistrationInv, NEW p \in Processes, RegOpenKeyExFails(p)
  PROVE  RegistrationInv'
  <1> USE DEF RegistrationInv, RegOpenKeyExFails, Fails
  <1>1. /\ Goes(p, 8) /\ pc[p].op = "locate" /\ pc[p].step \in {1, 2}
        /\ hr' = [hr EXCEPT ![p] = "fail"]
        /\ strayed' = [strayed EXCEPT ![p] = TRUE]
        /\ UNCHANGED <<registry, handle, opened, found, disturbed>>
    BY DEF Returning
  <1>2. /\ pc' \in [Processes -> Place]
        /\ pc'[p].op = "locate" /\ pc'[p].step = 8
        /\ \A q \in Processes : q # p => pc'[q] = pc[q]
    BY <1>1, StepMoves
  <1>3. /\ hr' \in [Processes -> {"ok", "fail"}]
        /\ \A q \in Processes : q # p => hr'[q] = hr[q]
    BY <1>1 DEF TypeOK
  <1>4. /\ strayed' \in [Processes -> BOOLEAN] /\ strayed'[p]
        /\ leaked' \in [Processes -> Nat] /\ leaked'[p] <= leaked[p]
        /\ \A q \in Processes : q # p => leaked'[q] = leaked[q] /\ strayed'[q] = strayed[q]
    BY <1>1 DEF TypeOK
  <1>5. TypeOK'
    BY <1>1, <1>2, <1>3, <1>4 DEF TypeOK, registry
  <1>6. Handles'
    <2> SUFFICES ASSUME NEW q \in Processes
                 PROVE  /\ pc'[q].op = "none" => pc'[q] = Idle
                        /\ pc'[q] = Idle => handle'[q] = NoHandles
                        /\ handle'[q]["ProgId"] # "none" => pc'[q].op = "register" /\ pc'[q].step > 3
                        /\ pc'[q].op = "register" /\ pc'[q].step <= 3 => opened'[q] < MaxRegistrations
                        /\ LET due == opened'[q] - (IF handle'[q]["ProgId"] = "none" THEN 0 ELSE 1) IN
                           leaked'[q] <= due /\ (~strayed'[q] => leaked'[q] = due)
      BY DEF Handles
    <2>1. CASE q # p
      BY <1>1, <1>2, <1>4, <2>1 DEF Handles
    <2>2. CASE q = p
      <3>1. pc'[p] # Idle
        BY <1>2, IdleFacts
      <3>2. handle[p]["ProgId"] = "none" /\ leaked[p] <= opened[p]
        BY <1>1, RegistrationAssumption DEF Handles, TypeOK
      <3>3. leaked'[p] \in Nat /\ leaked[p] \in Nat /\ opened[p] \in Nat
        BY <1>4, RegistrationAssumption DEF TypeOK
      <3> QED BY <1>1, <1>2, <1>4, <2>2, <3>1, <3>2, <3>3
    <2> QED BY <2>1, <2>2
  <1>7. OneKind' /\ Registering' /\ Unregistering'
    BY <1>1, <1>2, <1>3, QuietStep
  <1> QED BY <1>1, <1>5, <1>6, <1>7

\* A call returns, with its handle to ProgId leaked if it had one.
LEMMA ReturnStep ==
  ASSUME RegistrationInv, NEW p \in Processes, Return(p)
  PROVE  RegistrationInv'
  <1> USE DEF RegistrationInv, Return
  <1>1. /\ pc' = [pc EXCEPT ![p] = Idle] /\ hr' = [hr EXCEPT ![p] = "ok"]
        /\ handle' = [handle EXCEPT ![p] = NoHandles]
        /\ found' = [found EXCEPT ![p] = Nothing]
        /\ UNCHANGED <<registry, opened, strayed, disturbed>>
    OBVIOUS
  <1>2. /\ pc' \in [Processes -> Place] /\ pc'[p] = Idle
        /\ \A q \in Processes : q # p => pc'[q] = pc[q]
    BY <1>1, IdleFacts DEF TypeOK
  <1>3. /\ hr' \in [Processes -> {"ok", "fail"}]
        /\ \A q \in Processes : q # p => hr'[q] = hr[q]
    BY <1>1 DEF TypeOK
  <1>4. /\ handle' \in [Processes -> [Keys -> {"none", "open", "stale"}]]
        /\ handle'[p] = NoHandles
        /\ \A q \in Processes : q # p => handle'[q] = handle[q]
    BY <1>1, IdleFacts DEF TypeOK
  <1>5. /\ leaked' \in [Processes -> Nat]
        /\ leaked'[p] = leaked[p] + (IF handle[p]["ProgId"] = "none" THEN 0 ELSE 1)
        /\ \A q \in Processes : q # p => leaked'[q] = leaked[q]
    BY DEF TypeOK
  <1>6. found' \in [Processes -> Registries] /\ \A q \in Processes : q # p => found'[q] = found[q]
    BY <1>1 DEF Nothing, Registries, Contents
  <1>7. TypeOK'
    <2>1. \A q \in Processes, k \in Keys : handle'[q][k] = "open" => k \in keys
      BY <1>4, IdleFacts DEF TypeOK
    <2> QED BY <1>1, <1>2, <1>3, <1>4, <1>5, <2>1 DEF TypeOK, registry
  <1>8. Handles'
    <2> SUFFICES ASSUME NEW q \in Processes
                 PROVE  /\ pc'[q].op = "none" => pc'[q] = Idle
                        /\ pc'[q] = Idle => handle'[q] = NoHandles
                        /\ handle'[q]["ProgId"] # "none" => pc'[q].op = "register" /\ pc'[q].step > 3
                        /\ pc'[q].op = "register" /\ pc'[q].step <= 3 => opened'[q] < MaxRegistrations
                        /\ LET due == opened'[q] - (IF handle'[q]["ProgId"] = "none" THEN 0 ELSE 1) IN
                           leaked'[q] <= due /\ (~strayed'[q] => leaked'[q] = due)
      BY DEF Handles
    <2>1. CASE q # p
      BY <1>1, <1>2, <1>4, <1>5, <2>1 DEF Handles
    <2>2. CASE q = p
      <3>1. handle'[p]["ProgId"] = "none"
        BY <1>4, IdleFacts DEF Keys
      <3>2. leaked[p] \in Nat /\ opened[p] \in Nat
        BY RegistrationAssumption DEF TypeOK
      <3>3. leaked'[p] <= opened[p] /\ (~strayed[p] => leaked'[p] = opened[p])
        BY <1>5, <3>2 DEF Handles
      <3> QED BY <1>1, <1>2, <1>4, <2>2, <3>1, <3>2, <3>3, IdleFacts
    <2> QED BY <2>1, <2>2
  <1>9. OneKind' /\ Registering' /\ Unregistering'
    <2>1. \A q \in Changing' : q \in Changing /\ pc'[q].op = pc[q].op
      BY <1>2, IdleFacts DEF Changing, Opposite
    <2>2. \A q \in Processes : pc'[q].op \in {"register", "unregister"} => q # p
      BY <1>2, IdleFacts
    <2>3. OneKind'
      BY <1>1, <2>1 DEF OneKind
    <2>4. Registering'
      BY <1>1, <1>2, <1>3, <1>6, <2>2 DEF Registering, Past, registry
    <2>5. Unregistering'
      BY <1>1, <1>2, <1>3, <1>6, <2>2 DEF Unregistering, Past, registry
    <2> QED BY <2>3, <2>4, <2>5
  <1> QED BY <1>6, <1>7, <1>8, <1>9

-----------------------------------------------------------------------------
(***************************************************************************)
(* A half server keeps its excuse: a path comes with a registration that   *)
(* goes on to its last value, which is set, fails, or went with the key.   *)
(***************************************************************************)
\* The registrations about to set their last value still are.
LEMMA HalfStays ==
  ASSUME HalfServerKnown, UNCHANGED values, torn => torn',
         \A q \in Processes : SettingModel(q) => SettingModel(q)'
  PROVE  HalfServerKnown'
  BY DEF HalfServerKnown

LEMMA HalfSet ==
  ASSUME TypeOK, HalfServerKnown, NEW p \in Processes, NEW s \in DOMAIN Sets,
         RegSetValueEx(p, s)
  PROVE  HalfServerKnown'
  <1>1. /\ s \in {2, 4, 6, 7} /\ pc[p].op = "register" /\ pc[p].step = s
        /\ pc[p] = [op |-> "register", step |-> s]
        /\ handle[p][KeyOf[Sets[s]]] = "open" /\ handle' = handle
    BY Tables DEF RegSetValueEx, At
  <1>2. CASE s = 7
    <2>1. values'["ThreadingModel"] # "absent"
      BY <1>2, Tables, WrittenIsThere DEF RegSetValueEx, TypeOK, Values
    <2> QED BY <2>1 DEF HalfServerKnown
  <1>3. CASE s = 6
    <2>1. pc' = [pc EXCEPT ![p].step = 7]
      BY <1>3 DEF RegSetValueEx, Goes
    <2>2. pc'[p] = [op |-> "register", step |-> 7]
      BY <1>1, <2>1 DEF TypeOK, Place
    <2>3. SettingModel(p)'
      BY <1>1, <1>3, <2>2, Tables DEF SettingModel, At
    <2> QED BY <2>3 DEF HalfServerKnown
  <1>4. CASE s \in {2, 4}
    <2>1. /\ values'["path"] = values["path"]
          /\ values'["ThreadingModel"] = values["ThreadingModel"]
      BY <1>4, Tables DEF RegSetValueEx, TypeOK, Values
    <2>2. torn' = torn
      BY <1>4, Tables DEF RegSetValueEx, TypeOK
    <2>3. \A q \in Processes : SettingModel(q) => q # p
      BY <1>1, <1>4 DEF SettingModel, At
    <2>4. pc' = [pc EXCEPT ![p].step = s + 1]
      BY <1>4 DEF RegSetValueEx, Goes
    <2>5. \A q \in Processes : SettingModel(q) => SettingModel(q)'
      BY <1>1, <2>3, <2>4 DEF SettingModel, At, TypeOK
    <2> QED BY <2>1, <2>2, <2>5 DEF HalfServerKnown
  <1> QED BY <1>1, <1>2, <1>3, <1>4

LEMMA HalfDelete ==
  ASSUME TypeOK, HalfServerKnown, NEW p \in Processes, NEW s \in DOMAIN Deletes,
         RegDeleteKey(p, s)
  PROVE  HalfServerKnown'
  <1>1. PICK k \in Keys : k = Deletes[s]
    BY Tables DEF Keys
  <1>2. /\ values' = [v \in Values |-> IF KeyOf[v] = k THEN "absent" ELSE values[v]]
        /\ handle' = [q \in Processes |->
                        [handle[q] EXCEPT ![k] = IF @ = "open" THEN "stale" ELSE @]]
        /\ torn' = (torn /\ k # "InProcServer32")
        /\ pc[p].op = "unregister"
    BY <1>1 DEF RegDeleteKey, At
  <1>3. CASE k = "InProcServer32"
    <2>1. values'["path"] = "absent"
      BY <1>2, <1>3, Tables DEF Values
    <2> QED BY <2>1 DEF HalfServerKnown
  <1>4. CASE k # "InProcServer32"
    <2>1. /\ values'["path"] = values["path"]
          /\ values'["ThreadingModel"] = values["ThreadingModel"]
      BY <1>2, <1>4, Tables DEF Values, TypeOK
    <2>2. \A q \in Processes : handle'[q]["InProcServer32"] = handle[q]["InProcServer32"]
      BY <1>2, <1>4 DEF TypeOK, Keys
    <2>3. \A q \in Processes : q # p => pc'[q] = pc[q]
      BY DEF RegDeleteKey, Succeeds, Goes, TypeOK
    <2>4. \A q \in Processes : SettingModel(q) => SettingModel(q)'
      BY <1>2, <2>2, <2>3 DEF SettingModel, At
    <2>5. torn' = torn
      BY <1>2, <1>4 DEF TypeOK
    <2> QED BY <2>1, <2>4, <2>5 DEF HalfServerKnown
  <1> QED BY <1>3, <1>4

LEMMA HalfFails ==
  ASSUME TypeOK, HalfServerKnown, NEW p \in Processes, RegistrationStepFails(p)
  PROVE  HalfServerKnown'
  <1>1. /\ UNCHANGED <<values, handle>> /\ torn' = (torn \/ SettingModel(p))
        /\ \A q \in Processes : q # p => pc'[q] = pc[q]
    BY DEF RegistrationStepFails, Fails, Goes, registry, TypeOK
  <1>2. \A q \in Processes : SettingModel(q) => torn' \/ SettingModel(q)'
    BY <1>1 DEF SettingModel, At
  <1> QED BY <1>1, <1>2 DEF HalfServerKnown

\* A step of a process that is not at its last value, beside the others.
LEMMA HalfBeside ==
  ASSUME HalfServerKnown, NEW p \in Processes, UNCHANGED <<values, torn>>,
         pc[p].op # "register" \/ pc[p].step # 7,
         \A q \in Processes : q # p => pc'[q] = pc[q] /\ handle'[q] = handle[q]
  PROVE  HalfServerKnown'
  <1>1. \A q \in Processes : SettingModel(q) => q # p
    BY DEF SettingModel, At
  <1>2. \A q \in Processes : SettingModel(q) => SettingModel(q)'
    BY <1>1 DEF SettingModel, At
  <1> QED BY <1>2, HalfStays

LEMMA HalfNext ==
  ASSUME TypeOK, HalfServerKnown, [Next]_vars PROVE HalfServerKnown'
  <1>1. ASSUME NEW p \in Processes, NEW op, Begin(p, op) PROVE HalfServerKnown'
    <2>1. pc[p].op = "none"
      BY <1>1, IdleFacts DEF Begin
    <2>2. \A q \in Processes : q # p => pc'[q] = pc[q] /\ handle'[q] = handle[q]
      BY <1>1 DEF Begin, TypeOK
    <2> QED BY <1>1, <2>1, <2>2, HalfBeside DEF Begin, registry
  <1>2. ASSUME NEW p \in Processes, NEW s \in DOMAIN Creates, RegCreateKeyEx(p, s)
        PROVE  HalfServerKnown'
    <2>1. pc[p].step \in {1, 3, 5}
      BY <1>2, Tables DEF RegCreateKeyEx, At
    <2>2. \A q \in Processes : q # p => pc'[q] = pc[q] /\ handle'[q] = handle[q]
      BY <1>2 DEF RegCreateKeyEx, Goes, TypeOK
    <2> QED BY <1>2, <2>1, <2>2, HalfBeside DEF RegCreateKeyEx
  <1>3. ASSUME NEW p \in Processes, RegDeleteKeyFails(p) PROVE HalfServerKnown'
    <2>1. \A q \in Processes : q # p => pc'[q] = pc[q] /\ handle'[q] = handle[q]
      BY <1>3 DEF RegDeleteKeyFails, Fails, Goes, TypeOK
    <2> QED BY <1>3, <2>1, HalfBeside DEF RegDeleteKeyFails, registry
  <1>4. ASSUME NEW p \in Processes, NEW s \in DOMAIN Opens, RegOpenKeyEx(p, s)
        PROVE  HalfServerKnown'
    <2>1. \A q \in Processes : q # p => pc'[q] = pc[q] /\ handle'[q] = handle[q]
      BY <1>4 DEF RegOpenKeyEx, Goes, TypeOK
    <2>2. pc[p].op = "locate"
      BY <1>4 DEF RegOpenKeyEx, At
    <2> QED BY <1>4, <2>1, <2>2, HalfBeside DEF RegOpenKeyEx, registry
  <1>5. ASSUME NEW p \in Processes, RegOpenKeyExFails(p) \/ RegQueryValueEx(p)
        PROVE  HalfServerKnown'
    <2>1. \A q \in Processes : q # p => pc'[q] = pc[q] /\ handle'[q] = handle[q]
      BY <1>5 DEF RegOpenKeyExFails, RegQueryValueEx, Fails, Succeeds, Goes, TypeOK
    <2>2. pc[p].op = "locate" /\ UNCHANGED <<values, torn>>
      BY <1>5 DEF RegOpenKeyExFails, RegQueryValueEx, At, registry
    <2> QED BY <2>1, <2>2, HalfBeside
  <1>6. ASSUME NEW p \in Processes, Return(p) PROVE HalfServerKnown'
    <2>1. \A q \in Processes : q # p => pc'[q] = pc[q] /\ handle'[q] = handle[q]
      BY <1>6 DEF Return, TypeOK
    <2>2. pc[p].step = 8 /\ UNCHANGED <<values, torn>>
      BY <1>6 DEF Return, Returning, registry
    <2> QED BY <2>1, <2>2, HalfBeside
  <1>7. CASE UNCHANGED vars
    <2>1. UNCHANGED <<values, torn, pc, handle>>
      BY <1>7 DEF vars, registry
    <2> QED BY <2>1, HalfStays DEF SettingModel, At
  <1>8. ASSUME NEW p \in Processes, Step(p) PROVE HalfServerKnown'
    BY <1>2, <1>3, <1>4, <1>5, <1>6, <1>8, HalfSet, HalfDelete, HalfFails
    DEF Step
  <1> QED BY <1>1, <1>7, <1>8
      DEF Next, RegisterCOMClass, UnregisterCOMClass, GetCOMClassLocation

-----------------------------------------------------------------------------
LEMMA RegistrationNext ==
  ASSUME RegistrationInv, [Next]_vars PROVE RegistrationInv'
  <1>1. ASSUME NEW p \in Processes, RegisterCOMClass(p) PROVE RegistrationInv'
    BY <1>1, BeginStep DEF RegisterCOMClass
  <1>2. ASSUME NEW p \in Processes,
               UnregisterCOMClass(p) \/ GetCOMClassLocation(p)
        PROVE  RegistrationInv'
    BY <1>2, BeginStep DEF UnregisterCOMClass, GetCOMClassLocation
  <1>3. ASSUME NEW p \in Processes, Step(p) PROVE RegistrationInv'
    BY <1>3, CreateStep, SetStep, FailStep, DeleteStep, OpenStep,
       OpenFailsStep, QueryStep, ReturnStep DEF Step
  <1>4. CASE UNCHANGED vars
    <2>1. UNCHANGED <<keys, values, pc, handle, hr, leaked, opened, strayed,
                      found, disturbed, torn>>
      BY <1>4 DEF vars, registry, history
    <2>2. TypeOK' /\ (found \in [Processes -> Registries])' /\ Handles' /\ OneKind'
      BY <2>1 DEF RegistrationInv, TypeOK, Handles, OneKind, Changing
    <2>3. Registering' /\ Unregistering'
      BY <2>1 DEF RegistrationInv, Registering, Unregistering, Past, registry
    <2> QED BY <2>2, <2>3 DEF RegistrationInv
  <1> QED BY <1>1, <1>2, <1>3, <1>4 DEF Next

LEMMA RegistrationIsSound == Spec => [](RegistrationInv /\ HalfServerKnown)
  <1>1. Init => RegistrationInv /\ HalfServerKnown
    <2>1. Init => values["path"] = "absent"
      BY DEF Init, Values
    <2> QED BY <2>1, RegistrationInit DEF HalfServerKnown
  <1>2. RegistrationInv /\ HalfServerKnown /\ [Next]_vars
          => RegistrationInv' /\ HalfServerKnown'
    BY RegistrationNext, HalfNext DEF RegistrationInv
  <1> QED BY <1>1, <1>2, PTL DEF Spec

\* What the invariant says of a call that returns.
LEMMA RegistrationImplies ==
  ASSUME RegistrationInv
  PROVE  /\ TypeOK /\ RegisteredIsComplete /\ UnregisteredIsGone
         /\ OnlyCompleteKeysGo /\ HandlesAccounted
  <1> USE DEF RegistrationInv
  <1>1. RegisteredIsComplete
    <2> SUFFICES ASSUME NEW p \in Processes, Returns(p, "register", "ok"), ~disturbed
                 PROVE  keys = Keys /\ \A v \in Values : values[v] # "absent"
      BY DEF RegisteredIsComplete
    <2>1. \A s \in {1, 2, 3, 4, 5, 6, 7} : Past(p, s)
      BY DEF Past, Returns, At, Returning
    <2>2. keys = Keys
      <3>1. "class" \in keys /\ "ProgId" \in keys /\ "InProcServer32" \in keys
        BY <2>1, Tables DEF Registering, Returns, At
      <3> QED BY <3>1 DEF TypeOK, Keys
    <2>3. \A v \in Values : values[v] # "absent"
      BY <2>1, Tables DEF Registering, Returns, At, Values
    <2> QED BY <2>2, <2>3
  <1>2. UnregisteredIsGone
    <2> SUFFICES ASSUME NEW p \in Processes, Returns(p, "unregister", "ok"), ~disturbed
                 PROVE  keys = {}
      BY DEF UnregisteredIsGone
    <2>1. \A s \in {1, 2, 3} : Past(p, s)
      BY DEF Past, Returns, At, Returning
    <2> QED BY <2>1, Tables DEF Unregistering, Returns, At, TypeOK, Keys
  <1>3. OnlyCompleteKeysGo
    <2>1. \A op, result : \A p \in Processes : Returns(p, op, result) => pc[p].op = op
      BY DEF Returns, At
    <2>2. \A p \in Processes : Returns(p, "unregister", "fail") /\ ~disturbed =>
            "InProcServer32" \notin keys \/ registry = found[p]
      BY <2>1 DEF Unregistering
    <2>3. ASSUME NEW p \in Processes, Returns(p, "unregister", "ok"), ~disturbed
          PROVE  found[p][1] = Keys
      <3>1. \A s \in {1, 2, 3} : Past(p, s)
        BY <2>3 DEF Past, Returns, At, Returning
      <3>2. Keys \subseteq found[p][1]
        BY <2>1, <2>3, <3>1, Tables DEF Unregistering, Keys
      <3>3. found[p][1] \subseteq Keys
        BY DEF Registries
      <3> QED BY <3>2, <3>3
    <2> QED BY <2>2, <2>3 DEF OnlyCompleteKeysGo
  <1>4. HandlesAccounted
    <2> SUFFICES ASSUME NEW p \in Processes, pc[p] = Idle
                 PROVE  /\ handle[p] = NoHandles /\ leaked[p] <= opened[p]
                        /\ ~strayed[p] => leaked[p] = opened[p]
      BY DEF HandlesAccounted
    <2>1. handle[p] = NoHandles /\ handle[p]["ProgId"] = "none"
      BY IdleFacts DEF Handles, Keys
    <2>2. opened[p] \in Nat /\ leaked[p] \in Nat
      BY RegistrationAssumption DEF TypeOK
    <2> QED BY <2>1, <2>2 DEF Handles
  <1> QED BY <1>1, <1>2, <1>3, <1>4

\* The variables have their types; an open handle is to a key that exists and
\* a value or a subkey is under the class key.
THEOREM RegistrationTypes == Spec => []TypeOK
  BY RegistrationIsSound, RegistrationImplies, PTL

\* A registration that returns S_OK, with no unregistration beside it, leaves
\* every key and every value.
THEOREM RegistrationCompletes == Spec => []RegisteredIsComplete
  BY RegistrationIsSound, RegistrationImplies, PTL

\* An unregistration that returns S_OK, with no registration beside it, leaves
\* nothing.
THEOREM UnregistrationCompletes == Spec => []UnregisteredIsGone
  BY RegistrationIsSound, RegistrationImplies, PTL

\* A server without a ThreadingModel is there only while or because a
\* registration is at, or failed at, that value; an unregistration with no
\* registration beside it fails with no server left or nothing changed, and
\* succeeds only on a complete class.
THEOREM ResidueIsKnown == Spec => []ResidueKnown
  BY RegistrationIsSound, RegistrationImplies, PTL DEF ResidueKnown

\* Between calls a process has leaked exactly its handles to ProgId, or fewer
\* when a look-up closed a stray one.
THEOREM HandlesAreAccounted == Spec => []HandlesAccounted
  BY RegistrationIsSound, RegistrationImplies, PTL
=============================================================================
