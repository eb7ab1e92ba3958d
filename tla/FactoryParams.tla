--------------------------- MODULE FactoryParams ---------------------------
(***************************************************************************)
(* The parameters a log4cpp factory is configured with, and the chain of   *)
(* validators that checks and reads them (FactoryParams.hh):               *)
(*                                                                         *)
(*   params.get_for("tag").required("a", a)("b", b).optional("c", c);      *)
(*                                                                         *)
(* required(...) and optional(...) return a validator of that kind, whose  *)
(* operator() reads one more parameter of the same kind.  The factory's    *)
(* variables hold defaults when the chain begins.                          *)
(*                                                                         *)
(* External: std::stringstream, which leaves a number alone when the text  *)
(* is empty, and makes it zero (since C++11) or leaves it alone when the   *)
(* text is malformed.  Data: a text is a number, a word or empty.          *)
(***************************************************************************)
EXTENDS Naturals, FiniteSets, Sequences

CONSTANTS
  Names,       \* of parameters
  Numeric,     \* those the factory reads into a number; others into a string
  ZeroOnError, \* whether a failed extraction stores zero
  MaxChain     \* bound: parameters one chain reads

ASSUME FactoryParamsAssumption ==
  /\ IsFiniteSet(Names) /\ Numeric \subseteq Names
  /\ ZeroOnError \in BOOLEAN
  /\ MaxChain \in Nat \ {0}

VARIABLES
  storage_,   \* the map; "absent" where it has no entry
  validator,  \* the kind of validator the chain is at
  value,      \* the factory's variables
  chain,      \* history: what this chain asked for
  given       \* history: the parameters that were set, not only looked at

paramsVars == <<storage_, validator, value, chain, given>>

Texts == {"number", "word", ""}
Question == [name : Names, required : BOOLEAN]

ParamsTypeOK ==
  /\ storage_ \in [Names -> Texts \cup {"absent"}]
  /\ validator \in {"none", "parameter", "required", "optional", "thrown"}
  /\ value \in [Names -> Texts \cup {"default", "zero"}]
  /\ \A n \in Numeric : value[n] \in {"number", "default", "zero"}
  /\ chain \in Seq(Question) /\ Len(chain) <= MaxChain
  /\ given \subseteq Names

ParamsInit ==
  /\ storage_ = [n \in Names |-> "absent"]
  /\ validator = "none"
  /\ value = [n \in Names |-> "default"]
  /\ chain = <<>>
  /\ given = {}

Configuring == validator \in {"parameter", "required", "optional"}

-----------------------------------------------------------------------------
\* The two uses of the non-const operator[], on the left of an assignment and
\* as a look-up: both make an entry where there is none.
SetParam(n, text) ==
  /\ ~Configuring
  /\ storage_' = [storage_ EXCEPT ![n] = text]
  /\ given' = given \cup {n}
  /\ validator' = "none"
  /\ UNCHANGED <<value, chain>>

LookAt(n) ==
  /\ ~Configuring
  /\ storage_' = [storage_ EXCEPT ![n] = IF @ = "absent" THEN "" ELSE @]
  /\ validator' = "none"
  /\ UNCHANGED <<value, chain, given>>

get_for ==
  /\ ~Configuring
  /\ validator' = "parameter"
  /\ value' = [n \in Names |-> "default"]
  /\ chain' = <<>>
  /\ UNCHANGED <<storage_, given>>

\* What `assign` makes of a variable that is `old`.
Assign(n, text, old) ==
  IF n \notin Numeric \/ text = "number" THEN text
  ELSE IF text = "word" /\ ZeroOnError THEN "zero" ELSE old

Questions(n, required) ==
  /\ Configuring
  /\ Len(chain) < MaxChain
  /\ chain' = Append(chain, [name |-> n, required |-> required])
  /\ UNCHANGED <<storage_, given>>

Reads(n) == value' = [value EXCEPT ![n] = Assign(n, storage_[n], @)]

\* required(...) of the first validator or of an optional one, operator() of
\* a required one.
Required(n) ==
  /\ Questions(n, TRUE)
  /\ IF storage_[n] # "absent"
       THEN Reads(n) /\ validator' = "required"
       ELSE validator' = "thrown" /\ UNCHANGED value

\* Mutant: a missing optional parameter empties the variable.
OptionalEmpties(n) ==
  /\ Questions(n, FALSE)
  /\ validator' = "optional"
  /\ IF storage_[n] # "absent" THEN Reads(n)
     ELSE value' = [value EXCEPT ![n] = ""]

Optional(n) ==
  /\ Questions(n, FALSE)
  /\ validator' = "optional"
  /\ IF storage_[n] # "absent" THEN Reads(n) ELSE UNCHANGED value

\* The factory goes on with what it read.
Configured ==
  /\ validator \in {"required", "optional"}
  /\ validator' = "none"
  /\ UNCHANGED <<storage_, value, chain, given>>

ParamsNext ==
  \/ \E n \in Names : \/ \E text \in Texts : SetParam(n, text)
                      \/ LookAt(n) \/ Required(n) \/ Optional(n)
  \/ get_for
  \/ Configured

ParamsSpec == ParamsInit /\ [][ParamsNext]_paramsVars

-----------------------------------------------------------------------------
(***************************************************************************)
(* Properties.                                                             *)
(***************************************************************************)
(***************************************************************************)
(* The chain does what the list of its questions says, whatever the kinds  *)
(* of validators that read them: it throws exactly when a required one is  *)
(* missing, at the first of them, having assigned what came before and     *)
(* nothing else.  Stated from the list alone, for a chain that runs or has *)
(* just thrown: the parameters have not changed since it began.            *)
(***************************************************************************)
Missing == {k \in DOMAIN chain :
              chain[k].required /\ storage_[chain[k].name] = "absent"}

ChainMeansItsList ==
  Configuring \/ validator = "thrown" =>
    /\ Missing = IF Configuring THEN {} ELSE {Len(chain)}
    /\ \A n \in Names :
         value[n] = IF storage_[n] # "absent"
                         /\ \E k \in DOMAIN chain : chain[k].name = n
                      THEN Assign(n, storage_[n], "default")
                      ELSE "default"

(***************************************************************************)
(* A factory that is configured without an exception has, for each         *)
(* parameter it required, a text that somebody set: unless the parameter   *)
(* was looked at before with the non-const operator[], which makes an      *)
(* empty entry that passes for a given one.                                *)
(***************************************************************************)
RequiredMeansGiven ==
  Configuring =>
    \A k \in DOMAIN chain : chain[k].required =>
      \/ chain[k].name \in given
      \/ storage_[chain[k].name] = ""

(***************************************************************************)
(* What a factory gets to see of its parameters.                           *)
(***************************************************************************)
ConfiguredAsGiven == ParamsTypeOK /\ ChainMeansItsList /\ RequiredMeansGiven
=============================================================================
