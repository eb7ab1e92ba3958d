----------------------------- MODULE MCLog4cpp -----------------------------
(* The parts of log4cpp that are compiled into the profiler: Category,     *)
(* with two threads on a root and a child, a level the root does not let   *)
(* through at first, and as many statements and changes as it takes to     *)
(* change that between two looks; FactoryParams with two parameters, one   *)
(* of them a number; and Threading with two threads and two objects, on    *)
(* every platform.  They share no state, so that one of them is checked at *)
(* a time while the others stay as they were.                              *)
EXTENDS Category, FactoryParams, Threading

CONSTANTS root, child
ParentOf == [c \in {child} |-> root]

VARIABLE subject   \* the part that moves

allVars == <<vars, paramsVars, threadingVars, subject>>

\* Where Threading starts when it does not move.
Windows == library = MSThreads /\ key = "good"

MCInit ==
  /\ subject \in {"statements", "parameters", "threads"}
  /\ Init
  /\ ParamsInit
  /\ ThreadingInit
  /\ subject # "threads" => Windows

MCNext ==
  \/ /\ subject = "statements" /\ Next
     /\ UNCHANGED <<paramsVars, threadingVars, subject>>
  \/ /\ subject = "parameters" /\ ParamsNext
     /\ UNCHANGED <<vars, threadingVars, subject>>
  \/ /\ subject = "threads" /\ ThreadingNext
     /\ UNCHANGED <<vars, paramsVars, subject>>

MCSpec ==
  /\ MCInit /\ [][MCNext]_allVars
  /\ \A t \in Thread : WF_vars(Step(t))
=============================================================================
