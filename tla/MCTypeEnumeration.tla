------------------------- MODULE MCTypeEnumeration -------------------------
(* The two parts of MetadataHelper: TypeEnumeration with a buffer of two   *)
(* tokens, and MethodHelpers with a few threads.  They share no state, so  *)
(* that one of them is checked at a time while the other stays as it was.  *)
EXTENDS TypeEnumeration, MethodHelpers

VARIABLE subject   \* the part that moves

allVars == <<vars, helpersVars, subject>>

NoTypes == [kind \in Kinds |-> 0]

MCInit ==
  /\ subject \in {"enumeration", "helpers"}
  /\ Init
  /\ subject = "helpers" => types = NoTypes
  /\ HelpersInit
  /\ subject = "enumeration" => m_CorProfilerInfo = "clr"

MCNext ==
  \/ subject = "enumeration" /\ Next /\ UNCHANGED <<helpersVars, subject>>
  \/ subject = "helpers" /\ HelpersNext /\ UNCHANGED <<vars, subject>>

MCSpec == MCInit /\ [][MCNext]_allVars
=============================================================================
