------------------------------ MODULE MCLogger ------------------------------
(* The two parts of the logger: Logger with a few threads, and LogFile with *)
(* buffers of a few characters.  They share no state, so that one of them   *)
(* is checked at a time while the other stays as it was.                    *)
EXTENDS Logger, LogFile, TLC

VARIABLE subject   \* the part that moves

allVars == <<vars, logFileVars, subject>>

MCInit ==
  /\ subject \in {"set_up", "path"}
  /\ Init
  /\ LogFileInit
  /\ subject = "set_up" => library = <<Slash>>

MCNext ==
  \/ subject = "set_up" /\ Next /\ UNCHANGED <<logFileVars, subject>>
  \/ subject = "path" /\ LogFileNext /\ UNCHANGED <<vars, subject>>

MCSpec == MCInit /\ [][MCNext]_allVars

Symmetry == Permutations(Threads)
=============================================================================
