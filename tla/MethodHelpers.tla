--------------------------- MODULE MethodHelpers ---------------------------
(***************************************************************************)
(* The helpers that ask the CLR about a module or a function, and the      *)
(* sketch of the IL rewriter (MetadataHelper.hpp, RewriteHelper.h), called *)
(* from any of its threads.  A helper keeps nothing between calls except   *)
(* what it borrowed: COM references in local pointers, which are out of    *)
(* reach once it returns.                                                  *)
(*                                                                         *)
(* External: the CLR, which may fail any question, answer the allocator    *)
(* question with a success code other than S_OK, and have no memory left.  *)
(* Data: of a name or of the memory handed out, whether it is what was     *)
(* asked for or whatever the uninitialised buffer held.                    *)
(***************************************************************************)
EXTENDS Naturals, FiniteSets

CONSTANTS
  Threads,
  MaxStranded  \* bound: references that no pointer leads to any more

ASSUME MethodHelpersAssumption ==
  /\ IsFiniteSet(Threads)
  /\ MaxStranded \in Nat \ {0}

VARIABLES
  m_CorProfilerInfo,  \* of the rewriter: no constructor or setter assigns it
  at,        \* what each thread is about to do
  holds,     \* the COM references in the local pointers of each thread's call
  status,    \* the HRESULT (or pointer) each thread's last call returned
  told,      \* what that call wrote to its out parameter
  stranded,  \* per interface, references nobody can release any more
  denied,    \* history: the CLR failed a question of the thread's last call
  granted    \* history: imports the CLR gave GetFunctionDataByFunctionID

helpersVars == <<m_CorProfilerInfo, at, holds, status, told, stranded, denied,
                granted>>

Interfaces == {"import", "malloc"}
Steps == {"idle", "module", "token", "info", "fullName", "methodProps",
          "classProps", "allocator", "alloc", "body", "dead"}

HelpersTypeOK ==
  /\ m_CorProfilerInfo \in {"clr", "wild"}
  /\ at \in [Threads -> Steps]
  /\ holds \in [Threads -> SUBSET Interfaces]
  /\ status \in [Threads -> {"S_OK", "S_FALSE", "failure", "null", "memory"}]
  /\ told \in [Threads -> {"nothing", "answer", "garbage"}]
  /\ stranded \in [Interfaces -> 0 .. MaxStranded]
  /\ denied \in [Threads -> BOOLEAN]
  /\ granted \in 0 .. MaxStranded

\* A pointer that is not initialised may hold what an earlier object left.
HelpersInit ==
  /\ m_CorProfilerInfo \in {"clr", "wild"}
  /\ at = [t \in Threads |-> "idle"]
  /\ holds = [t \in Threads |-> {}]
  /\ status = [t \in Threads |-> "S_OK"]
  /\ told = [t \in Threads |-> "nothing"]
  /\ stranded = [i \in Interfaces |-> 0]
  /\ denied = [t \in Threads |-> FALSE]
  /\ granted = 0

-----------------------------------------------------------------------------
\* A thread that faults takes the process with it.
Running == \A t \in Threads : at[t] # "dead"

Calls(t, step) ==
  /\ Running
  /\ at[t] = "idle"
  /\ at' = [at EXCEPT ![t] = step]
  /\ told' = [told EXCEPT ![t] = "nothing"]
  /\ denied' = [denied EXCEPT ![t] = FALSE]
  /\ UNCHANGED <<m_CorProfilerInfo, holds, status, stranded, granted>>

Asks(t, step) == Running /\ at[t] = step
Goes(t, step) == at' = [at EXCEPT ![t] = step]

\* Returning loses what the local pointers still hold.
Returns(t, result, answer) ==
  /\ Goes(t, "idle")
  /\ status' = [status EXCEPT ![t] = result]
  /\ told' = [told EXCEPT ![t] = answer]
Drops(t, kept) ==
  /\ holds' = [holds EXCEPT ![t] = {}]
  /\ stranded' = [i \in Interfaces |->
                    stranded[i] + (IF i \in kept THEN 1 ELSE 0)]
Denies(t) == denied' = [denied EXCEPT ![t] = TRUE]

-----------------------------------------------------------------------------
(***************************************************************************)
(* GetModuleInfo: the CLR's result is not looked at, the name is whatever  *)
(* the buffer holds and the helper returns S_OK.                           *)
(***************************************************************************)
GetModuleInfo(t) == Calls(t, "module")

AskModuleInfo(t, succeeds) ==
  /\ Asks(t, "module")
  /\ Returns(t, "S_OK", IF succeeds THEN "answer" ELSE "garbage")
  /\ IF succeeds THEN UNCHANGED denied ELSE Denies(t)
  /\ UNCHANGED <<m_CorProfilerInfo, holds, stranded, granted>>

\* GetMethodData is a stub.
GetMethodData(t) ==
  /\ Running
  /\ at[t] = "idle"
  /\ status' = [status EXCEPT ![t] = "S_OK"]
  /\ told' = [told EXCEPT ![t] = "nothing"]
  /\ denied' = [denied EXCEPT ![t] = FALSE]
  /\ UNCHANGED <<m_CorProfilerInfo, at, holds, stranded, granted>>

-----------------------------------------------------------------------------
(***************************************************************************)
(* GetFunctionDataByFunctionID asks two questions, the second one whatever *)
(* came of the first.  The import that comes with the token is neither     *)
(* used nor released, and the bool it returns as an HRESULT is S_FALSE     *)
(* (1) when both questions succeeded and S_OK (0) when one failed.         *)
(***************************************************************************)
GetFunctionDataByFunctionID(t) ==
  /\ granted + Cardinality({u \in Threads : at[u] = "token"}) < MaxStranded
  /\ Calls(t, "token")

AskToken(t, succeeds) ==
  /\ Asks(t, "token")
  /\ Goes(t, "info")
  /\ IF succeeds
       THEN /\ holds' = [holds EXCEPT ![t] = @ \cup {"import"}]
            /\ granted' = granted + 1
            /\ UNCHANGED denied
       ELSE Denies(t) /\ UNCHANGED <<holds, granted>>
  /\ UNCHANGED <<m_CorProfilerInfo, status, told, stranded>>

AskFunctionInfo(t, succeeds) ==
  LET both == succeeds /\ ~denied[t] IN
  /\ Asks(t, "info")
  /\ Returns(t, IF both THEN "S_FALSE" ELSE "S_OK",
                IF both THEN "answer" ELSE "garbage")
  /\ Drops(t, holds[t])
  /\ IF succeeds THEN UNCHANGED denied ELSE Denies(t)
  /\ UNCHANGED <<m_CorProfilerInfo, granted>>

-----------------------------------------------------------------------------
(***************************************************************************)
(* GetFullMethodName asks for the token and an import, for the method and  *)
(* for its class; the first failure is what it returns.                    *)
(***************************************************************************)
GetFullMethodName(t) == Calls(t, "fullName")

AskTokenAndImport(t, succeeds) ==
  /\ Asks(t, "fullName")
  /\ IF succeeds
       THEN /\ Goes(t, "methodProps")
            /\ holds' = [holds EXCEPT ![t] = @ \cup {"import"}]
            /\ UNCHANGED <<status, told, denied>>
       ELSE /\ Returns(t, "failure", "nothing")
            /\ Denies(t)
            /\ UNCHANGED holds
  /\ UNCHANGED <<m_CorProfilerInfo, stranded, granted>>

AskProps(t, step, next, succeeds) ==
  /\ Asks(t, step)
  /\ IF succeeds /\ next # "idle"
       THEN Goes(t, next) /\ UNCHANGED <<holds, status, told, stranded, denied>>
       ELSE /\ Returns(t, IF succeeds THEN "S_OK" ELSE "failure",
                          IF succeeds THEN "answer" ELSE "nothing")
            /\ Drops(t, {})
            /\ IF succeeds THEN UNCHANGED denied ELSE Denies(t)
  /\ UNCHANGED <<m_CorProfilerInfo, granted>>

AskMethodProps(t, succeeds) == AskProps(t, "methodProps", "classProps", succeeds)
AskTypeDefProps(t, succeeds) == AskProps(t, "classProps", "idle", succeeds)

-----------------------------------------------------------------------------
(***************************************************************************)
(* CRewriteHelper.  Its pointer to the CLR is never set, so a call through *)
(* it faults unless the memory happens to hold a live pointer.             *)
(***************************************************************************)
AllocateMethodBody(t) == Calls(t, "allocator")
RewriteMethod(t) == Calls(t, "body")

Faults(t) ==
  /\ Goes(t, "dead")
  /\ UNCHANGED <<m_CorProfilerInfo, holds, status, told, stranded, denied,
                 granted>>

AskThroughWildPointer(t) ==
  /\ Running
  /\ at[t] \in {"allocator", "body"}
  /\ m_CorProfilerInfo = "wild"
  /\ Faults(t)

\* Mutant: an allocator that comes with S_FALSE is left alone.
AllocatorDropped(t, answer, given) ==
  /\ Asks(t, "allocator")
  /\ m_CorProfilerInfo = "clr"
  /\ IF answer = "S_OK"
       THEN /\ Goes(t, "alloc")
            /\ holds' = [holds EXCEPT ![t] = @ \cup {"malloc"}]
            /\ UNCHANGED <<status, told, stranded, denied>>
       ELSE /\ Returns(t, "null", "nothing")
            /\ Drops(t, given)
            /\ Denies(t)
  /\ UNCHANGED <<m_CorProfilerInfo, granted>>

\* GetILFunctionBodyAllocator: what is not S_OK ends the call, and an
\* allocator that came with it is released.
AskAllocator(t, answer, given) ==
  /\ Asks(t, "allocator")
  /\ m_CorProfilerInfo = "clr"
  /\ IF answer = "S_OK"
       THEN /\ Goes(t, "alloc")
            /\ holds' = [holds EXCEPT ![t] = @ \cup {"malloc"}]
            /\ UNCHANGED <<status, told, stranded, denied>>
       ELSE /\ Returns(t, "null", "nothing")
            /\ Drops(t, {})
            /\ Denies(t)
  /\ UNCHANGED <<m_CorProfilerInfo, granted>>

\* ZeroMemory clears what Alloc returned, before anything tests it.
Alloc(t, succeeds) ==
  /\ Asks(t, "alloc")
  /\ IF succeeds
       THEN /\ Returns(t, "memory", "answer")
            /\ Drops(t, {})
            /\ UNCHANGED <<m_CorProfilerInfo, denied, granted>>
       ELSE Faults(t)

\* GetILFunctionBody: the header is read and dropped.
AskFunctionBody(t, succeeds) ==
  /\ Asks(t, "body")
  /\ m_CorProfilerInfo = "clr"
  /\ Returns(t, "S_OK", "nothing")
  /\ IF succeeds THEN UNCHANGED denied ELSE Denies(t)
  /\ UNCHANGED <<m_CorProfilerInfo, holds, stranded, granted>>

-----------------------------------------------------------------------------
Called(t) ==
  \/ GetModuleInfo(t) \/ GetMethodData(t) \/ GetFunctionDataByFunctionID(t)
  \/ GetFullMethodName(t) \/ AllocateMethodBody(t) \/ RewriteMethod(t)

Working(t) ==
  \/ \E succeeds \in BOOLEAN :
       \/ AskModuleInfo(t, succeeds)
       \/ AskToken(t, succeeds) \/ AskFunctionInfo(t, succeeds)
       \/ AskTokenAndImport(t, succeeds)
       \/ AskMethodProps(t, succeeds) \/ AskTypeDefProps(t, succeeds)
       \/ Alloc(t, succeeds) \/ AskFunctionBody(t, succeeds)
  \/ AskThroughWildPointer(t)
  \/ \E answer \in {"S_OK", "S_FALSE", "failure"} :
       \E given \in {{}, {"malloc"}} :
         (answer = "S_OK" => given # {}) /\ AskAllocator(t, answer, given)

\* The process is gone: nothing happens any more.
Crashed == ~Running /\ UNCHANGED helpersVars

HelpersNext == (\E t \in Threads : Called(t) \/ Working(t)) \/ Crashed

HelpersSpec == HelpersInit /\ [][HelpersNext]_helpersVars

-----------------------------------------------------------------------------
(***************************************************************************)
(* Properties.                                                             *)
(***************************************************************************)
(***************************************************************************)
(* The only COM references that outlive a call are the imports that        *)
(* GetFunctionDataByFunctionID was given: GetFullMethodName releases its   *)
(* import and AllocateMethodBody its allocator on every path, the failing  *)
(* ones and the S_FALSE with an allocator included.                        *)
(***************************************************************************)
ReferencesAccounted ==
  /\ \A t \in Threads :
       holds[t] \subseteq
         CASE at[t] \in {"info", "methodProps", "classProps"} -> {"import"}
           [] at[t] \in {"alloc", "dead"} -> {"malloc"}
           [] OTHER -> {}
  /\ stranded["malloc"] = 0
  /\ granted = stranded["import"]
       + Cardinality({t \in Threads : at[t] = "info" /\ holds[t] # {}})

(***************************************************************************)
(* What a finished call returned, against what it wrote: a failure code    *)
(* or a null pointer comes with nothing written, an answer only when the   *)
(* CLR denied nothing, and garbage only under S_OK, from GetModuleInfo    *)
(* and from the inverted result of GetFunctionDataByFunctionID, which      *)
(* returns S_FALSE exactly when its outputs can be used.                   *)
(***************************************************************************)
OutcomeTold ==
  \A t \in Threads : at[t] = "idle" =>
    /\ status[t] \in {"failure", "null"} => denied[t] /\ told[t] = "nothing"
    /\ status[t] \in {"S_FALSE", "memory"} => told[t] = "answer"
    /\ told[t] = "answer" => ~denied[t]
    /\ told[t] = "garbage" => denied[t] /\ status[t] = "S_OK"

(***************************************************************************)
(* The helpers as their callers need them: with every reference given back *)
(* and every result to be told from garbage.                               *)
(***************************************************************************)
HelpersSound == HelpersTypeOK /\ ReferencesAccounted /\ OutcomeTold
=============================================================================
