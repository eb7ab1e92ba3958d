-------------------------- MODULE TypeEnumeration --------------------------
(***************************************************************************)
(* MetadataHelper::GetTypeDefinitions and GetTypeReferences, one after the *)
(* other as ModuleLoadFinished calls them for one metadata import: list    *)
(* the module's tokens with a buffer of fixed size, and once more into a   *)
(* larger one when the buffer was too small.                               *)
(*                                                                         *)
(* External: the metadata import.  Its tables only grow, at any moment     *)
(* (a dynamic module is emitted into by other threads); an enumerator is a *)
(* snapshot of a table.  Each call on it may fail, with no effect.         *)
(* Data: the kth entry of a table has the token k, 0 is the nil token.     *)
(***************************************************************************)
EXTENDS Naturals, Sequences

CONSTANTS
  BufferSize,  \* DEFINITIONS_BUFFER_SIZE
  MaxTypes,    \* bound: the entries of a table
  Junk,        \* what a local variable holds before it is written
  NoEnum       \* the NULL enumerator

ASSUME BufferAssumption ==
  /\ BufferSize \in Nat \ {0}
  /\ MaxTypes \in Nat
  /\ Junk \notin Nat
  /\ NoEnum \notin Nat

Kinds == {"TypeDef", "TypeRef"}
Nil == 0

VARIABLES
  types,       \* how many entries each table has
  running,     \* the kind that is being listed, "none" when both were
  pc,          \* the next call of the function on the import
  buffer,      \* tempTypeDefinitionsCollection
  tokenCount,
  hEnum,       \* enumTypeDefs or enumTypeRefs: the entries it enumerates
  size,        \* typeDefSize or typeRefSize
  collection,  \* the caller's vector
  hr,
  open,        \* enumerators that were opened and not closed
  asked,       \* history: the table's size when it was first asked for
  refused,     \* history: the first call failed
  answer       \* history: what each function did

vars == <<types, running, pc, buffer, tokenCount, hEnum, size, collection, hr,
          open, asked, refused, answer>>

locals == <<buffer, tokenCount, hEnum, size, collection, hr>>
history == <<asked, refused, answer>>

\* What a function returned, and what the table was when it began.
Answers == [hr : {"ok", "fail"}, tokens : Seq(Nat \cup {Junk}),
            asked : Nat, refused : BOOLEAN]
Pending == [hr |-> "fail", tokens |-> <<>>, asked |-> 0, refused |-> TRUE]

Smaller(m, n) == IF m <= n THEN m ELSE n

TypeOK ==
  /\ types \in [Kinds -> 0 .. MaxTypes]
  /\ running \in Kinds \cup {"none"}
  /\ pc \in {"enum", "count", "again", "return"}
  /\ buffer \in [1 .. BufferSize -> Nat \cup {Junk}]
  /\ tokenCount \in Nat /\ size \in Nat /\ open \in Nat
  /\ hEnum \in Nat \cup {NoEnum}
  /\ collection \in Seq(Nat \cup {Junk})
  /\ hr \in {"ok", "fail"}
  /\ asked \in Nat
  /\ refused \in BOOLEAN
  /\ answer \in [Kinds -> Answers]

Unwritten == [k \in 1 .. BufferSize |-> Junk]

Init ==
  /\ types \in [Kinds -> 0 .. MaxTypes]
  /\ running = "TypeDef"
  /\ pc = "enum"
  /\ buffer = Unwritten
  /\ tokenCount = 0 /\ size = 0
  /\ hEnum = NoEnum
  /\ collection = <<>>
  /\ hr = "ok"
  /\ open = 0
  /\ asked = 0
  /\ refused = FALSE
  /\ answer = [k \in Kinds |-> Pending]

-----------------------------------------------------------------------------
(***************************************************************************)
(* EnumTypeDefs and EnumTypeRefs open an enumerator, because the one they  *)
(* are given is NULL, and deliver tokens into an array with `room`         *)
(* elements.                                                               *)
(***************************************************************************)
Delivered(room) == Smaller(types[running], room)
Filled(array, n) == [k \in DOMAIN array |-> IF k <= n THEN k ELSE array[k]]

FirstEnum(kind) ==
  LET n == Delivered(BufferSize) IN
  /\ running = kind
  /\ pc = "enum"
  /\ asked' = types[kind]
  /\ \/ /\ buffer' = Filled(buffer, n)
        /\ tokenCount' = n
        /\ hEnum' = types[kind]
        /\ open' = open + 1
        /\ refused' = FALSE
     \/ /\ refused' = TRUE
        /\ UNCHANGED <<buffer, tokenCount, open, hEnum>>
  /\ pc' = "count"
  /\ UNCHANGED <<types, running, size, collection, hr, answer>>

(***************************************************************************)
(* CountEnum, CloseEnum, and the choice between the buffer and a second    *)
(* listing.  The result of the first listing is not looked at.             *)
(***************************************************************************)
Entries == IF hEnum = NoEnum THEN 0 ELSE hEnum

\* Mutants: a listing that failed is closed like one that worked; none is.
ClosesAlways == 1
ClosesNever == 0

\* CloseEnum does nothing with the NULL enumerator.
Closed == IF hEnum = NoEnum THEN 0 ELSE 1

\* Mutant: one token too many is taken for none.
TooSmallByTwo == size' > tokenCount + 1

TooSmall == size' > tokenCount

ListAgain ==
  /\ collection' = [k \in 1 .. size' |-> Nil]
  /\ hEnum' = NoEnum
  /\ pc' = "again"

\* Mutant: all of the buffer is copied.
CopyWholeBuffer ==
  /\ collection' = buffer
  /\ pc' = "return"
  /\ UNCHANGED hEnum

CopyBuffer ==
  /\ collection' = [k \in 1 .. tokenCount |-> buffer[k]]
  /\ pc' = "return"
  /\ UNCHANGED hEnum

CountEnum(kind) ==
  /\ running = kind
  /\ pc = "count"
  /\ \/ size' = Entries /\ hr' = "ok"
     \/ UNCHANGED size /\ hr' = "fail"
  /\ open' = open - Closed
  /\ IF TooSmall THEN ListAgain ELSE CopyBuffer
  /\ UNCHANGED <<types, running, buffer, tokenCount, history>>

\* The second listing goes into the vector; CloseEnum closes what it opened.
SecondEnum(kind) ==
  LET n == Delivered(size) IN
  /\ running = kind
  /\ pc = "again"
  /\ \/ /\ collection' = Filled(collection, n)
        /\ tokenCount' = n
        /\ hEnum' = types[kind]
        /\ hr' = "ok"
     \/ /\ hr' = "fail"
        /\ UNCHANGED <<collection, tokenCount, hEnum>>
  /\ pc' = "return"
  /\ UNCHANGED <<types, running, buffer, size, open, history>>

Return(kind, next) ==
  /\ running = kind
  /\ pc = "return"
  /\ answer' = [answer EXCEPT ![kind] = [hr |-> hr, tokens |-> collection,
                                         asked |-> asked, refused |-> refused]]
  /\ running' = next
  /\ pc' = "enum"
  /\ buffer' = Unwritten
  /\ tokenCount' = 0 /\ size' = 0
  /\ hEnum' = NoEnum
  /\ collection' = <<>>
  /\ hr' = "ok"
  /\ asked' = 0
  /\ refused' = FALSE
  /\ UNCHANGED <<types, open>>

List(kind) == FirstEnum(kind) \/ CountEnum(kind) \/ SecondEnum(kind)

GetTypeDefinitions == List("TypeDef") \/ Return("TypeDef", "TypeRef")
GetTypeReferences == List("TypeRef") \/ Return("TypeRef", "none")

\* External: another thread emits a type into the module.
Emit(kind) ==
  /\ running # "none"
  /\ types[kind] < MaxTypes
  /\ types' = [types EXCEPT ![kind] = @ + 1]
  /\ UNCHANGED <<running, pc, locals, open, history>>

Finished == running = "none" /\ UNCHANGED vars

Next ==
  \/ GetTypeDefinitions
  \/ GetTypeReferences
  \/ \E kind \in Kinds : Emit(kind)
  \/ Finished

Spec == Init /\ [][Next]_vars

-----------------------------------------------------------------------------
(***************************************************************************)
(* Properties of what the two functions give their caller.                 *)
(***************************************************************************)
Listed(kind) == answer[kind].tokens

(***************************************************************************)
(* Success with a first listing that worked means that the vector holds    *)
(* exactly the entries the table had when it was asked for, whether they   *)
(* fitted the buffer or not and whatever was emitted in the meantime.      *)
(***************************************************************************)
SuccessIsComplete ==
  \A kind \in Kinds :
    answer[kind].hr = "ok" /\ ~answer[kind].refused =>
      Listed(kind) = [k \in 1 .. answer[kind].asked |-> k]

(***************************************************************************)
(* Whatever fails, the vector never holds what was left in the buffer, and *)
(* a token in it is the table's entry at that place, or every token in it  *)
(* is nil and the function said that it failed.                            *)
(***************************************************************************)
NothingInvented ==
  \A kind \in Kinds :
    \/ \A k \in 1 .. Len(Listed(kind)) :
         Listed(kind)[k] = k /\ k <= types[kind]
    \/ /\ answer[kind].hr = "fail"
       /\ \A k \in 1 .. Len(Listed(kind)) : Listed(kind)[k] = Nil

(***************************************************************************)
(* No enumerator outlives the function that opened it, on any path.        *)
(***************************************************************************)
EnumeratorsClosed == pc \in {"enum", "again", "return"} => open = 0
=============================================================================
