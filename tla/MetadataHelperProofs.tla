------------------------ MODULE MetadataHelperProofs ------------------------
(***************************************************************************)
(* The two parts of MetadataHelper, which share no state.  First the two   *)
(* listings: what they promise for every size of the buffer and of the     *)
(* module's tables.  Then the other helpers: their references and results, *)
(* for any number of threads.                                              *)
(***************************************************************************)
EXTENDS TypeEnumeration, MethodHelpers, SequenceTheorems, FiniteSetTheorems,
        TLAPS

-----------------------------------------------------------------------------
(***************************************************************************)
(* The inductive invariant: what the locals hold at each call, and what    *)
(* the answers that were given hold.                                       *)
(***************************************************************************)
\* The tokens are a table's first entries, and the table has at least n.
FirstOf(tokens, n) == \A k \in 1 .. Len(tokens) : tokens[k] = k /\ k <= n
AllNil(tokens) == \A k \in 1 .. Len(tokens) : tokens[k] = Nil

EnumOK ==
  pc = "enum" => /\ hEnum = NoEnum /\ tokenCount = 0 /\ size = 0 /\ open = 0
                 /\ collection = <<>> /\ hr = "ok"

CountOK ==
  pc = "count" =>
    /\ running \in Kinds
    /\ size = 0
    /\ refused => hEnum = NoEnum /\ tokenCount = 0 /\ open = 0
    /\ ~refused => /\ hEnum = asked /\ asked <= types[running] /\ open = 1
                   /\ tokenCount = Smaller(asked, BufferSize)
                   /\ \A k \in 1 .. tokenCount : buffer[k] = k

AgainOK ==
  pc = "again" =>
    /\ running \in Kinds
    /\ open = 0
    /\ ~refused
    /\ size = asked /\ asked <= types[running]
    /\ collection = [k \in 1 .. size |-> Nil]

ReturnOK ==
  pc = "return" =>
    /\ running \in Kinds
    /\ open = 0
    /\ hr = "ok" /\ ~refused => collection = [k \in 1 .. asked |-> k]
    /\ \/ FirstOf(collection, types[running])
       \/ hr = "fail" /\ AllNil(collection)

IInv ==
  /\ TypeOK
  /\ EnumOK /\ CountOK /\ AgainOK /\ ReturnOK
  /\ SuccessIsComplete
  /\ NothingInvented

-----------------------------------------------------------------------------
\* A function on 1 .. n is a sequence of length n.
LEMMA ArrayIsSeq ==
  ASSUME NEW S, NEW n \in Nat, NEW a \in [1 .. n -> S]
  PROVE  /\ a \in Seq(S)
         /\ Len(a) = n
         /\ DOMAIN a = 1 .. n
<1>1. a \in Seq(S)
  BY SeqDef
<1>2. 1 .. Len(a) = 1 .. n /\ Len(a) \in Nat
  BY <1>1, LenProperties
<1>3. Len(a) = n
  BY <1>2
<1> QED BY <1>1, <1>3

\* An answer is a record of what the function returned.
LEMMA AnswerType ==
  ASSUME TypeOK, NEW kind \in Kinds
  PROVE  /\ answer[kind].hr \in {"ok", "fail"}
         /\ Listed(kind) \in Seq(Nat \cup {Junk})
         /\ Len(Listed(kind)) \in Nat
<1>1. /\ Listed(kind) \in Seq(Nat \cup {Junk})
      /\ answer[kind].hr \in {"ok", "fail"}
  BY DEF TypeOK, Answers, Listed
<1> QED BY <1>1, LenProperties

\* Initially nothing is listed.
LEMMA InitIInv == Init => IInv
<1> SUFFICES ASSUME Init PROVE IInv
  OBVIOUS
<1> USE BufferAssumption
<1>1. <<>> \in Seq(Nat \cup {Junk}) /\ Len(<<>>) = 0
  BY EmptySeq
<1>2. Pending \in Answers
  BY <1>1 DEF Pending, Answers
<1>3. TypeOK
  BY <1>1, <1>2 DEF Init, TypeOK, Unwritten, Kinds
<1>4. EnumOK /\ CountOK /\ AgainOK /\ ReturnOK
  BY DEF Init, EnumOK, CountOK, AgainOK, ReturnOK
<1>5. SuccessIsComplete
  BY DEF Init, SuccessIsComplete, Pending
<1>6. NothingInvented
  BY <1>1 DEF Init, NothingInvented, Pending, Listed
<1> QED BY <1>3, <1>4, <1>5, <1>6 DEF IInv

\* The first listing delivers the table's first entries, or nothing.
LEMMA FirstEnumStep ==
  ASSUME IInv, NEW kind \in Kinds, FirstEnum(kind)
  PROVE  IInv'
<1> USE BufferAssumption
<1> DEFINE n == Delivered(BufferSize)
<1>1. /\ running = kind /\ types[kind] \in Nat
      /\ n \in Nat /\ n <= BufferSize /\ n <= types[kind]
      /\ n = Smaller(types[kind], BufferSize)
  BY DEF FirstEnum, IInv, TypeOK, Delivered, Smaller
<1>2. TypeOK'
  <2>1. Filled(buffer, n) \in [1 .. BufferSize -> Nat \cup {Junk}]
    BY <1>1 DEF Filled, IInv, TypeOK
  <2>2. /\ buffer' \in [1 .. BufferSize -> Nat \cup {Junk}]
        /\ tokenCount' \in Nat /\ open' \in Nat
        /\ hEnum' \in Nat \cup {NoEnum} /\ refused' \in BOOLEAN
    <3>1. \/ /\ buffer' = Filled(buffer, n) /\ tokenCount' = n
             /\ hEnum' = types[kind] /\ open' = open + 1
             /\ refused' = FALSE
          \/ /\ UNCHANGED <<buffer, tokenCount, open, hEnum>>
             /\ refused' = TRUE
      BY DEF FirstEnum
    <3>2. /\ buffer \in [1 .. BufferSize -> Nat \cup {Junk}]
          /\ tokenCount \in Nat /\ open \in Nat
          /\ hEnum \in Nat \cup {NoEnum}
      BY DEF IInv, TypeOK
    <3> HIDE DEF n
    <3>3. refused' \in BOOLEAN
      BY <3>1
    <3>4. buffer' \in [1 .. BufferSize -> Nat \cup {Junk}]
      BY <2>1, <3>1, <3>2
    <3>5. tokenCount' \in Nat /\ open' \in Nat /\ hEnum' \in Nat \cup {NoEnum}
      BY <1>1, <3>1, <3>2
    <3> QED BY <3>3, <3>4, <3>5
  <2>3. /\ UNCHANGED <<types, running, size, collection, hr, answer>>
        /\ pc' = "count" /\ asked' \in Nat
    BY <1>1 DEF FirstEnum
  <2> QED BY <2>2, <2>3 DEF IInv, TypeOK
<1>3. CountOK'
  <2>1. CASE refused'
    BY <1>1, <2>1 DEF FirstEnum, IInv, EnumOK, CountOK
  <2>2. CASE ~refused'
    <3>1. \A k \in 1 .. n : buffer'[k] = k
      BY <1>1, <2>2 DEF FirstEnum, Filled, IInv, TypeOK
    <3> QED BY <1>1, <2>2, <3>1 DEF FirstEnum, IInv, EnumOK, CountOK
  <2> QED BY <2>1, <2>2
<1>4. EnumOK' /\ AgainOK' /\ ReturnOK'
  BY DEF FirstEnum, EnumOK, AgainOK, ReturnOK
<1>5. SuccessIsComplete' /\ NothingInvented'
  BY DEF FirstEnum, IInv, SuccessIsComplete, NothingInvented, Listed
<1> QED BY <1>2, <1>3, <1>4, <1>5 DEF IInv

\* After CountEnum the vector is the buffer's tokens or has room for all.
LEMMA CountEnumStep ==
  ASSUME IInv, NEW kind \in Kinds, CountEnum(kind)
  PROVE  IInv'
<1> USE BufferAssumption DEF TooSmall
<1>1. /\ running = kind /\ pc = "count" /\ size = 0
      /\ types[kind] \in Nat /\ asked \in Nat /\ tokenCount \in Nat
      /\ types' = types /\ running' = running
      /\ asked' = asked /\ refused' = refused /\ tokenCount' = tokenCount
  BY DEF CountEnum, IInv, TypeOK, CountOK, history
<1>2. size' \in Nat /\ hr' \in {"ok", "fail"} /\ open' = 0
  BY <1>1 DEF CountEnum, Entries, Closed, IInv, TypeOK, CountOK
<1>3. tokenCount <= BufferSize
  BY <1>1 DEF IInv, CountOK, Smaller
<1>4. SuccessIsComplete' /\ NothingInvented'
  BY DEF CountEnum, history, IInv, SuccessIsComplete, NothingInvented, Listed
<1>5. CASE TooSmall
  <2>1. /\ hr' = "ok" /\ size' = asked /\ ~refused /\ asked <= types[running]
    BY <1>1, <1>5 DEF CountEnum, Entries, IInv, CountOK
  <2>2. /\ collection' = [k \in 1 .. size' |-> Nil]
        /\ hEnum' = NoEnum /\ pc' = "again"
    BY <1>5 DEF CountEnum, ListAgain
  <2>3. collection' \in Seq(Nat \cup {Junk})
    <3>1. collection' \in [1 .. size' -> Nat \cup {Junk}]
      BY <2>2 DEF Nil
    <3> QED BY <1>2, <3>1, ArrayIsSeq
  <2>4. TypeOK'
    BY <1>1, <1>2, <2>2, <2>3 DEF CountEnum, history, IInv, TypeOK
  <2>5. AgainOK'
    BY <1>1, <1>2, <2>1, <2>2 DEF AgainOK
  <2> QED BY <1>4, <2>2, <2>4, <2>5 DEF IInv, EnumOK, CountOK, ReturnOK
<1>6. CASE ~TooSmall
  <2>1. /\ collection' = [k \in 1 .. tokenCount |-> buffer[k]]
        /\ hEnum' = hEnum /\ pc' = "return"
    BY <1>6 DEF CountEnum, CopyBuffer
  <2>2. \A k \in 1 .. tokenCount : buffer[k] = k /\ k <= types[running]
    BY <1>1 DEF IInv, CountOK, Smaller
  <2>3. collection' = [k \in 1 .. tokenCount |-> k]
    BY <2>1, <2>2
  <2>4. /\ collection' \in Seq(Nat \cup {Junk})
        /\ Len(collection') = tokenCount
    <3>1. collection' \in [1 .. tokenCount -> Nat \cup {Junk}]
      BY <1>1, <2>3
    <3> QED BY <1>1, <3>1, ArrayIsSeq
  <2>5. TypeOK'
    BY <1>1, <1>2, <2>1, <2>4 DEF CountEnum, history, IInv, TypeOK
  <2>6. ReturnOK'
    <3>1. ASSUME hr' = "ok", ~refused PROVE tokenCount = asked
      BY <1>1, <1>6, <3>1
         DEF CountEnum, Entries, IInv, CountOK, Smaller
    <3>2. FirstOf(collection', types'[running'])
      BY <1>1, <2>2, <2>3, <2>4 DEF FirstOf
    <3> QED BY <1>1, <1>2, <2>3, <3>1, <3>2 DEF ReturnOK
  <2> QED BY <1>4, <2>1, <2>5, <2>6 DEF IInv, EnumOK, CountOK, AgainOK
<1> QED BY <1>5, <1>6

\* The second listing fills all the room there is: the table did not shrink.
LEMMA SecondEnumStep ==
  ASSUME IInv, NEW kind \in Kinds, SecondEnum(kind)
  PROVE  IInv'
<1> USE BufferAssumption
<1>1. /\ running = kind /\ pc = "again" /\ open = 0 /\ ~refused
      /\ types[kind] \in Nat /\ size \in Nat
      /\ size = asked /\ size <= types[kind]
      /\ collection = [k \in 1 .. size |-> Nil]
      /\ types' = types /\ running' = running /\ open' = open
      /\ asked' = asked /\ refused' = refused /\ pc' = "return"
  BY DEF SecondEnum, IInv, TypeOK, AgainOK, history
<1>2. Delivered(size) = size
  BY <1>1 DEF Delivered, Smaller
<1>3. /\ \/ collection' = [k \in 1 .. size |-> k]
         \/ hr' = "fail" /\ collection' = collection
      /\ hr' \in {"ok", "fail"} /\ tokenCount' \in Nat
      /\ hEnum' \in Nat \cup {NoEnum}
  BY <1>1, <1>2 DEF SecondEnum, Filled, IInv, TypeOK
<1>4. collection' \in Seq(Nat \cup {Junk}) /\ Len(collection') = size
  <2>1. collection' \in [1 .. size -> Nat \cup {Junk}]
    BY <1>1, <1>3 DEF Nil
  <2> QED BY <1>1, <2>1, ArrayIsSeq
<1>5. TypeOK'
  BY <1>1, <1>3, <1>4 DEF SecondEnum, history, IInv, TypeOK
<1>6. ReturnOK'
  <2>1. CASE collection' = [k \in 1 .. size |-> k]
    <3>1. FirstOf(collection', types'[running'])
      BY <1>1, <1>4, <2>1 DEF FirstOf
    <3> QED BY <1>1, <2>1, <3>1 DEF ReturnOK
  <2>2. CASE hr' = "fail" /\ collection' = collection
    <3>1. AllNil(collection')
      BY <1>1, <1>4, <2>2 DEF AllNil
    <3> QED BY <1>1, <2>2, <3>1 DEF ReturnOK
  <2> QED BY <1>3, <2>1, <2>2
<1>7. EnumOK' /\ CountOK' /\ AgainOK'
  BY <1>1 DEF EnumOK, CountOK, AgainOK
<1>8. SuccessIsComplete' /\ NothingInvented'
  BY DEF SecondEnum, history, IInv, SuccessIsComplete, NothingInvented, Listed
<1> QED BY <1>5, <1>6, <1>7, <1>8 DEF IInv

\* What is returned is what the vector held.
LEMMA ReturnStep ==
  ASSUME IInv, NEW kind \in Kinds, NEW next \in Kinds \cup {"none"},
         Return(kind, next)
  PROVE  IInv'
<1> USE BufferAssumption
<1> DEFINE new == [hr |-> hr, tokens |-> collection, asked |-> asked,
                   refused |-> refused]
<1>1. new \in Answers
  BY DEF IInv, TypeOK, Answers
<1>2. <<>> \in Seq(Nat \cup {Junk})
  BY EmptySeq
<1>3. /\ pc = "return" /\ pc' = "enum" /\ types' = types /\ open' = 0
      /\ running = kind
      /\ answer'[kind] = new
      /\ \A other \in Kinds \ {kind} : answer'[other] = answer[other]
  BY DEF Return, IInv, TypeOK, ReturnOK
<1>4. TypeOK'
  BY <1>1, <1>2 DEF Return, IInv, TypeOK, Unwritten
<1>5. EnumOK' /\ CountOK' /\ AgainOK' /\ ReturnOK'
  BY <1>3 DEF Return, EnumOK, CountOK, AgainOK, ReturnOK
<1>6. SuccessIsComplete'
  <2>1. new.hr = "ok" /\ ~new.refused =>
          new.tokens = [k \in 1 .. new.asked |-> k]
    BY <1>3 DEF IInv, ReturnOK
  <2> QED BY <1>3, <2>1 DEF IInv, SuccessIsComplete, Listed
<1>7. NothingInvented'
  BY <1>3 DEF IInv, ReturnOK, NothingInvented, Listed, FirstOf, AllNil
<1> QED BY <1>4, <1>5, <1>6, <1>7 DEF IInv

\* A table that grows keeps its entries.
LEMMA EmitStep ==
  ASSUME IInv, NEW kind \in Kinds, Emit(kind)
  PROVE  IInv'
<1> USE BufferAssumption
<1>1. /\ types' \in [Kinds -> 0 .. MaxTypes]
      /\ \A k \in Kinds : types[k] \in Nat /\ types[k] <= types'[k]
  BY DEF Emit, IInv, TypeOK
<1>2. /\ UNCHANGED <<running, pc, buffer, tokenCount, hEnum, size,
                     collection, hr, open, asked, refused, answer>>
  BY DEF Emit, locals, history
<1>3. TypeOK'
  BY <1>1, <1>2 DEF IInv, TypeOK
<1>4. \A k \in Kinds : types'[k] \in Nat
  BY <1>1
<1>5. EnumOK' /\ CountOK' /\ AgainOK'
  BY <1>1, <1>2, <1>4 DEF IInv, TypeOK, EnumOK, CountOK, AgainOK
<1>6. ReturnOK'
  <2>1. ASSUME pc = "return", FirstOf(collection, types[running])
        PROVE  FirstOf(collection, types'[running])
    <3>1. running \in Kinds /\ Len(collection) \in Nat
      BY <2>1, LenProperties DEF IInv, TypeOK, ReturnOK
    <3> QED BY <1>1, <1>4, <2>1, <3>1 DEF FirstOf
  <2> QED BY <1>2, <2>1 DEF IInv, ReturnOK
<1>7. SuccessIsComplete'
  BY <1>2 DEF IInv, SuccessIsComplete, Listed
<1>8. NothingInvented'
  <2> SUFFICES ASSUME NEW k \in Kinds
               PROVE  \/ \A i \in 1 .. Len(Listed(k)) :
                           Listed(k)[i] = i /\ i <= types'[k]
                      \/ /\ answer[k].hr = "fail"
                         /\ \A i \in 1 .. Len(Listed(k)) : Listed(k)[i] = Nil
    BY <1>2 DEF NothingInvented, Listed
  <2>1. Len(Listed(k)) \in Nat
    BY AnswerType DEF IInv
  <2> QED BY <1>1, <1>4, <2>1 DEF IInv, NothingInvented
<1> QED BY <1>3, <1>5, <1>6, <1>7, <1>8 DEF IInv

-----------------------------------------------------------------------------
\* Every reachable state satisfies the inductive invariant.
THEOREM Inductive == Spec => []IInv
<1>1. Init => IInv
  BY InitIInv
<1>2. IInv /\ [Next]_vars => IInv'
  <2> SUFFICES ASSUME IInv, [Next]_vars PROVE IInv'
    OBVIOUS
  <2>1. ASSUME NEW kind \in Kinds, List(kind) PROVE IInv'
    BY <2>1, FirstEnumStep, CountEnumStep, SecondEnumStep DEF List
  <2>2. CASE GetTypeDefinitions
    BY <2>1, <2>2, ReturnStep DEF GetTypeDefinitions, Kinds
  <2>3. CASE GetTypeReferences
    BY <2>1, <2>3, ReturnStep DEF GetTypeReferences, Kinds
  <2>4. CASE \E kind \in Kinds : Emit(kind)
    BY <2>4, EmitStep
  <2>5. CASE UNCHANGED vars
    BY <2>5 DEF vars, IInv, TypeOK, EnumOK, CountOK, AgainOK, ReturnOK,
                SuccessIsComplete, NothingInvented, Listed
  <2> QED BY <2>2, <2>3, <2>4, <2>5 DEF Next, Finished
<1> QED BY <1>1, <1>2, PTL DEF Spec

\* The locals, the tables and the answers keep their types, whatever the CLR
\* delivers into them.
THEOREM TypesKept == Spec => []TypeOK
<1>1. IInv => TypeOK
  BY DEF IInv
<1> QED BY <1>1, Inductive, PTL

\* A listing that reports success, and whose first call worked, is complete.
THEOREM CompleteOnSuccess == Spec => []SuccessIsComplete
<1>1. IInv => SuccessIsComplete
  BY DEF IInv
<1> QED BY <1>1, Inductive, PTL

\* What the buffer held before it was written never reaches the caller.
THEOREM NeverInvented == Spec => []NothingInvented
<1>1. IInv => NothingInvented
  BY DEF IInv
<1> QED BY <1>1, Inductive, PTL

\* On every path each enumerator is closed once.
THEOREM AllClosed == Spec => []EnumeratorsClosed
<1>1. IInv => EnumeratorsClosed
  BY DEF IInv, EnumOK, AgainOK, ReturnOK, EnumeratorsClosed
<1> QED BY <1>1, Inductive, PTL

-----------------------------------------------------------------------------
(***************************************************************************)
(* MethodHelpers.  Each thread's call is on its own (Sound); what the      *)
(* calls have in common is the account of the imports that                 *)
(* GetFunctionDataByFunctionID was given (Granted).                        *)
(***************************************************************************)
\* The references a call can have at a step, and the steps before which the
\* CLR has denied it nothing.
Held(step) ==
  CASE step \in {"info", "methodProps", "classProps"} -> {"import"}
    [] step \in {"alloc", "dead"} -> {"malloc"}
    [] OTHER -> {}

Undenied == {"module", "token", "fullName", "methodProps", "classProps",
             "allocator", "alloc", "body"}

Outcome(t) ==
  /\ status[t] \in {"failure", "null"} => denied[t] /\ told[t] = "nothing"
  /\ status[t] \in {"S_FALSE", "memory"} => told[t] = "answer"
  /\ told[t] = "answer" => ~denied[t]
  /\ told[t] = "garbage" => denied[t] /\ status[t] = "S_OK"

Sound(t) ==
  /\ holds[t] \subseteq Held(at[t])
  /\ at[t] \in Undenied => ~denied[t]
  /\ at[t] = "idle" => Outcome(t)

Asked == {t \in Threads : at[t] = "token"}
Carrying == {t \in Threads : at[t] = "info" /\ holds[t] # {}}

Granted ==
  /\ granted \in Nat
  /\ stranded \in [Interfaces -> Nat]
  /\ stranded["malloc"] = 0
  /\ granted = stranded["import"] + Cardinality(Carrying)
  /\ granted + Cardinality(Asked) <= MaxStranded

Shape ==
  /\ m_CorProfilerInfo \in {"clr", "wild"}
  /\ at \in [Threads -> Steps]
  /\ holds \in [Threads -> SUBSET Interfaces]
  /\ status \in [Threads -> {"S_OK", "S_FALSE", "failure", "null", "memory"}]
  /\ told \in [Threads -> {"nothing", "answer", "garbage"}]
  /\ denied \in [Threads -> BOOLEAN]

HelpersInv ==
  /\ Shape
  /\ \A t \in Threads : Sound(t)
  /\ Granted

-----------------------------------------------------------------------------
LEMMA HeldFacts ==
  /\ Held("info") = {"import"} /\ Held("methodProps") = {"import"}
  /\ Held("classProps") = {"import"}
  /\ Held("alloc") = {"malloc"} /\ Held("dead") = {"malloc"}
  /\ Held("idle") = {} /\ Held("module") = {} /\ Held("token") = {}
  /\ Held("fullName") = {} /\ Held("allocator") = {} /\ Held("body") = {}
  BY DEF Held

LEMMA HelpersInitially == ASSUME HelpersInit PROVE HelpersInv
  <1> USE DEF HelpersInit
  <1>1. Shape
    BY DEF Shape, Steps, Interfaces
  <1>2. \A t \in Threads : Sound(t)
    BY HeldFacts DEF Sound, Outcome, Undenied
  <1>3. Granted
    <2>1. Asked = {} /\ Carrying = {}
      BY DEF Asked, Carrying
    <2>2. Cardinality(Asked) = 0 /\ Cardinality(Carrying) = 0
      BY <2>1, FS_EmptySet
    <2> QED BY <2>2, MethodHelpersAssumption DEF Granted, Interfaces
  <1> QED BY <1>1, <1>2, <1>3 DEF HelpersInv

\* One thread moves.
Moves(t) ==
  \A u \in Threads : u # t =>
    /\ at'[u] = at[u] /\ holds'[u] = holds[u] /\ status'[u] = status[u]
    /\ told'[u] = told[u] /\ denied'[u] = denied[u]

LEMMA OthersSound ==
  ASSUME HelpersInv, NEW t \in Threads, Moves(t), Sound(t)'
  PROVE  (\A u \in Threads : Sound(u))'
  BY DEF HelpersInv, Moves, Sound, Outcome

\* Counting the threads in a set when at most one thread came or went.
LEMMA CountOne ==
  ASSUME NEW A \in SUBSET Threads, NEW B \in SUBSET Threads, NEW t \in Threads,
         \A u \in Threads : u # t => (u \in A <=> u \in B)
  PROVE  /\ Cardinality(A) \in Nat /\ Cardinality(B) \in Nat
         /\ t \in A /\ t \notin B => Cardinality(B) = Cardinality(A) - 1
         /\ t \notin A /\ t \in B => Cardinality(B) = Cardinality(A) + 1
         /\ (t \in A <=> t \in B) => Cardinality(B) = Cardinality(A)
  <1>1. IsFiniteSet(A) /\ IsFiniteSet(B)
    BY MethodHelpersAssumption, FS_Subset
  <1>2. Cardinality(A) \in Nat /\ Cardinality(B) \in Nat
    BY <1>1, FS_CardinalityType
  <1>3. ASSUME t \in A, t \notin B PROVE Cardinality(B) = Cardinality(A) - 1
    <2>1. B = A \ {t}
      BY <1>3
    <2> QED BY <1>1, <1>2, <1>3, <2>1, FS_RemoveElement
  <1>4. ASSUME t \notin A, t \in B PROVE Cardinality(B) = Cardinality(A) + 1
    <2>1. B = A \cup {t}
      BY <1>4
    <2> QED BY <1>1, <1>2, <1>4, <2>1, FS_AddElement
  <1>5. ASSUME t \in A <=> t \in B PROVE Cardinality(B) = Cardinality(A)
    <2>1. A = B
      BY <1>5
    <2> QED BY <2>1
  <1> QED BY <1>2, <1>3, <1>4, <1>5

LEMMA Counted ==
  ASSUME NEW t \in Threads, Moves(t)
  PROVE  /\ Asked \in SUBSET Threads /\ Asked' \in SUBSET Threads
         /\ \A u \in Threads : u # t => (u \in Asked <=> u \in Asked')
         /\ Carrying \in SUBSET Threads /\ Carrying' \in SUBSET Threads
         /\ \A u \in Threads : u # t => (u \in Carrying <=> u \in Carrying')
  BY DEF Asked, Carrying, Moves

-----------------------------------------------------------------------------
(***************************************************************************)
(* Steps that are not about an import of GetFunctionDataByFunctionID.      *)
(***************************************************************************)
LEMMA QuietStep ==
  ASSUME HelpersInv, NEW t \in Threads, Moves(t), Shape', Sound(t)',
         UNCHANGED <<granted, stranded>>,
         at[t] # "info", at'[t] # "info", at'[t] # "token"
  PROVE  HelpersInv'
  <1>1. (\A u \in Threads : Sound(u))'
    BY OthersSound
  <1>2. t \notin Carrying /\ t \notin Carrying' /\ t \notin Asked'
    BY DEF Carrying, Asked
  <1>3. /\ Cardinality(Carrying') = Cardinality(Carrying)
        /\ Cardinality(Asked') <= Cardinality(Asked)
        /\ Cardinality(Asked) \in Nat /\ Cardinality(Asked') \in Nat
    <2>1. Cardinality(Carrying') = Cardinality(Carrying)
      BY <1>2, Counted, CountOne
    <2>2. CASE t \in Asked
      <3>1. Cardinality(Asked') = Cardinality(Asked) - 1 /\ Cardinality(Asked) \in Nat
            /\ Cardinality(Asked') \in Nat
        BY <1>2, <2>2, Counted, CountOne
      <3> QED BY <2>1, <3>1
    <2>3. CASE t \notin Asked
      <3>1. Cardinality(Asked') = Cardinality(Asked) /\ Cardinality(Asked) \in Nat
        BY <1>2, <2>3, Counted, CountOne
      <3> QED BY <2>1, <3>1
    <2> QED BY <2>2, <2>3
  <1>4. Granted'
    BY <1>3, MethodHelpersAssumption DEF HelpersInv, Granted
  <1> QED BY <1>1, <1>4 DEF HelpersInv

-----------------------------------------------------------------------------
\* A call begins, with nothing borrowed, denied or told.
LEMMA CallStep ==
  ASSUME HelpersInv, NEW t \in Threads,
         NEW step \in {"module", "fullName", "allocator", "body"}, Calls(t, step)
  PROVE  HelpersInv'
  <1> USE DEF HelpersInv, Calls
  <1>1. holds[t] = {}
    BY HeldFacts DEF Sound
  <1>2. /\ Moves(t) /\ at'[t] = step /\ holds'[t] = {} /\ ~denied'[t]
        /\ Shape'
    BY <1>1 DEF Moves, Shape, Steps
  <1>3. Sound(t)'
    BY <1>2 DEF Sound
  <1> QED BY <1>2, <1>3, QuietStep

LEMMA StubStep ==
  ASSUME HelpersInv, NEW t \in Threads, GetMethodData(t)
  PROVE  HelpersInv'
  <1> USE DEF HelpersInv, GetMethodData
  <1>1. /\ Moves(t) /\ at'[t] = "idle" /\ holds'[t] = holds[t] /\ ~denied'[t]
        /\ status'[t] = "S_OK" /\ told'[t] = "nothing"
        /\ Shape'
    BY DEF Moves, Shape, Steps
  <1>2. Sound(t)'
    BY <1>1 DEF Sound, Outcome, Undenied
  <1> QED BY <1>1, <1>2, QuietStep

\* The questions of the calls that only read.
LEMMA ModuleInfoStep ==
  ASSUME HelpersInv, NEW t \in Threads, NEW succeeds \in BOOLEAN,
         AskModuleInfo(t, succeeds)
  PROVE  HelpersInv'
  <1> USE DEF HelpersInv, AskModuleInfo, Asks, Returns, Goes, Denies
  <1>1. at[t] = "module" /\ ~denied[t] /\ holds[t] = {}
    BY HeldFacts DEF Sound, Undenied
  <1>2. /\ Moves(t) /\ at'[t] = "idle" /\ holds'[t] = {} /\ status'[t] = "S_OK"
        /\ Shape'
    BY <1>1 DEF Moves, Shape, Steps
  <1>3. CASE succeeds
    <2>1. told'[t] = "answer" /\ ~denied'[t]
      BY <1>1, <1>3 DEF Shape
    <2>2. Sound(t)'
      BY <1>2, <2>1 DEF Sound, Outcome, Undenied
    <2> QED BY <1>1, <1>2, <2>2, QuietStep
  <1>4. CASE ~succeeds
    <2>1. told'[t] = "garbage" /\ denied'[t]
      BY <1>1, <1>4 DEF Shape
    <2>2. Sound(t)'
      BY <1>2, <2>1 DEF Sound, Outcome, Undenied
    <2> QED BY <1>1, <1>2, <2>2, QuietStep
  <1> QED BY <1>3, <1>4

LEMMA FunctionBodyStep ==
  ASSUME HelpersInv, NEW t \in Threads, NEW succeeds \in BOOLEAN,
         AskFunctionBody(t, succeeds)
  PROVE  HelpersInv'
  <1> USE DEF HelpersInv, AskFunctionBody, Asks, Returns, Goes, Denies
  <1>1. at[t] = "body" /\ holds[t] = {}
    BY HeldFacts DEF Sound
  <1>2. /\ Moves(t) /\ at'[t] = "idle" /\ holds'[t] = {} /\ status'[t] = "S_OK"
        /\ told'[t] = "nothing"
        /\ Shape'
    BY <1>1 DEF Moves, Shape, Steps
  <1>3. Sound(t)'
    BY <1>2 DEF Sound, Outcome, Undenied
  <1> QED BY <1>1, <1>2, <1>3, QuietStep

-----------------------------------------------------------------------------
\* GetFullMethodName borrows an import, and returns it on every path.
LEMMA ImportStep ==
  ASSUME HelpersInv, NEW t \in Threads, NEW succeeds \in BOOLEAN,
         AskTokenAndImport(t, succeeds)
  PROVE  HelpersInv'
  <1> USE DEF HelpersInv, AskTokenAndImport, Asks
  <1>1. at[t] = "fullName" /\ ~denied[t] /\ holds[t] = {}
    BY HeldFacts DEF Sound, Undenied
  <1>2. CASE succeeds
    <2>1. /\ Moves(t) /\ at'[t] = "methodProps" /\ holds'[t] = {"import"}
          /\ denied' = denied /\ Shape'
      BY <1>1, <1>2 DEF Moves, Shape, Steps, Goes, Interfaces
    <2>2. Sound(t)'
      BY <1>1, <2>1, HeldFacts DEF Sound
    <2> QED BY <1>1, <2>1, <2>2, QuietStep
  <1>3. CASE ~succeeds
    <2>1. /\ Moves(t) /\ at'[t] = "idle" /\ holds'[t] = {} /\ status'[t] = "failure"
          /\ told'[t] = "nothing" /\ denied'[t] /\ Shape'
      BY <1>1, <1>3 DEF Moves, Shape, Steps, Goes, Returns, Denies
    <2>2. Sound(t)'
      BY <2>1 DEF Sound, Outcome, Undenied
    <2> QED BY <1>1, <2>1, <2>2, QuietStep
  <1> QED BY <1>2, <1>3

LEMMA DropsNothing ==
  ASSUME HelpersInv, NEW t \in Threads, Drops(t, {})
  PROVE  UNCHANGED stranded /\ holds' = [holds EXCEPT ![t] = {}]
  BY DEF HelpersInv, Granted, Drops

LEMMA PropsStep ==
  ASSUME HelpersInv, NEW t \in Threads, NEW succeeds \in BOOLEAN,
         AskMethodProps(t, succeeds) \/ AskTypeDefProps(t, succeeds)
  PROVE  HelpersInv'
  <1> USE DEF HelpersInv
  <1>1. PICK step \in {"methodProps", "classProps"}, next \in {"classProps", "idle"} :
          AskProps(t, step, next, succeeds)
    BY DEF AskMethodProps, AskTypeDefProps
  <1>2. at[t] = step /\ ~denied[t] /\ holds[t] \subseteq {"import"}
    BY <1>1, HeldFacts DEF AskProps, Asks, Sound, Undenied
  <1>3. CASE succeeds /\ next # "idle"
    <2>1. /\ Moves(t) /\ at'[t] = "classProps" /\ holds' = holds /\ denied' = denied
          /\ UNCHANGED <<granted, stranded>> /\ Shape'
      BY <1>1, <1>3 DEF AskProps, Moves, Shape, Steps, Goes
    <2>2. Sound(t)'
      BY <1>2, <2>1, HeldFacts DEF Sound
    <2> QED BY <1>2, <2>1, <2>2, QuietStep
  <1>4. CASE ~(succeeds /\ next # "idle")
    <2>1. /\ Returns(t, IF succeeds THEN "S_OK" ELSE "failure",
                        IF succeeds THEN "answer" ELSE "nothing")
          /\ Drops(t, {})
          /\ IF succeeds THEN UNCHANGED denied ELSE Denies(t)
          /\ UNCHANGED <<m_CorProfilerInfo, granted>>
      BY <1>1, <1>4 DEF AskProps
    <2>2. UNCHANGED stranded /\ holds' = [holds EXCEPT ![t] = {}]
      BY <2>1, DropsNothing
    <2>3. CASE succeeds
      <3>1. /\ Moves(t) /\ at'[t] = "idle" /\ holds'[t] = {} /\ status'[t] = "S_OK"
            /\ told'[t] = "answer" /\ denied' = denied /\ Shape'
        BY <2>1, <2>2, <2>3 DEF Moves, Shape, Steps, Goes, Returns
      <3>2. Sound(t)'
        BY <1>2, <3>1 DEF Sound, Outcome, Undenied
      <3> QED BY <1>2, <2>1, <2>2, <3>1, <3>2, QuietStep
    <2>4. CASE ~succeeds
      <3>1. /\ Moves(t) /\ at'[t] = "idle" /\ holds'[t] = {} /\ status'[t] = "failure"
            /\ told'[t] = "nothing" /\ denied'[t] /\ Shape'
        BY <2>1, <2>2, <2>4 DEF Moves, Shape, Steps, Goes, Returns, Denies
      <3>2. Sound(t)'
        BY <3>1 DEF Sound, Outcome, Undenied
      <3> QED BY <1>2, <2>1, <2>2, <3>1, <3>2, QuietStep
    <2> QED BY <2>3, <2>4
  <1> QED BY <1>3, <1>4

-----------------------------------------------------------------------------
\* The rewriter: a call through its pointer may end the process.
LEMMA FaultStep ==
  ASSUME HelpersInv, NEW t \in Threads, Faults(t),
         at[t] # "info", holds[t] \subseteq {"malloc"}
  PROVE  HelpersInv'
  <1> USE DEF HelpersInv, Faults, Goes
  <1>1. /\ Moves(t) /\ at'[t] = "dead" /\ holds' = holds /\ Shape'
        /\ UNCHANGED <<granted, stranded>>
    BY DEF Moves, Shape, Steps
  <1>2. Sound(t)'
    BY <1>1, HeldFacts DEF Sound, Undenied
  <1> QED BY <1>1, <1>2, QuietStep

LEMMA WildStep ==
  ASSUME HelpersInv, NEW t \in Threads, AskThroughWildPointer(t)
  PROVE  HelpersInv'
  <1>1. at[t] \in {"allocator", "body"} /\ Faults(t)
    BY DEF AskThroughWildPointer
  <1>2. holds[t] \subseteq {"malloc"}
    BY <1>1, HeldFacts DEF HelpersInv, Sound
  <1> QED BY <1>1, <1>2, FaultStep

LEMMA AllocatorStep ==
  ASSUME HelpersInv, NEW t \in Threads, NEW reply, NEW given,
         AskAllocator(t, reply, given)
  PROVE  HelpersInv'
  <1> USE DEF HelpersInv, AskAllocator, Asks
  <1>1. at[t] = "allocator" /\ ~denied[t] /\ holds[t] = {}
    BY HeldFacts DEF Sound, Undenied
  <1>2. CASE reply = "S_OK"
    <2>1. /\ Moves(t) /\ at'[t] = "alloc" /\ holds'[t] = {"malloc"}
          /\ denied' = denied /\ Shape' /\ UNCHANGED <<granted, stranded>>
      BY <1>1, <1>2 DEF Moves, Shape, Steps, Goes, Interfaces
    <2>2. Sound(t)'
      BY <1>1, <2>1, HeldFacts DEF Sound
    <2> QED BY <1>1, <2>1, <2>2, QuietStep
  <1>3. CASE reply # "S_OK"
    <2>1. UNCHANGED stranded /\ holds' = [holds EXCEPT ![t] = {}]
      BY <1>3, DropsNothing
    <2>2. /\ Moves(t) /\ at'[t] = "idle" /\ holds'[t] = {} /\ status'[t] = "null"
          /\ told'[t] = "nothing" /\ denied'[t] /\ Shape'
      BY <1>1, <1>3, <2>1 DEF Moves, Shape, Steps, Goes, Returns, Denies
    <2>3. Sound(t)'
      BY <2>2 DEF Sound, Outcome, Undenied
    <2> QED BY <1>1, <2>1, <2>2, <2>3, QuietStep
  <1> QED BY <1>2, <1>3

LEMMA AllocStep ==
  ASSUME HelpersInv, NEW t \in Threads, NEW succeeds \in BOOLEAN, Alloc(t, succeeds)
  PROVE  HelpersInv'
  <1> USE DEF HelpersInv, Alloc, Asks
  <1>1. at[t] = "alloc" /\ ~denied[t] /\ holds[t] \subseteq {"malloc"}
    BY HeldFacts DEF Sound, Undenied
  <1>2. CASE succeeds
    <2>1. UNCHANGED stranded /\ holds' = [holds EXCEPT ![t] = {}]
      BY <1>2, DropsNothing
    <2>2. /\ Moves(t) /\ at'[t] = "idle" /\ holds'[t] = {} /\ status'[t] = "memory"
          /\ told'[t] = "answer" /\ denied' = denied /\ Shape'
      BY <1>1, <1>2, <2>1 DEF Moves, Shape, Steps, Goes, Returns
    <2>3. Sound(t)'
      BY <1>1, <2>2 DEF Sound, Outcome, Undenied
    <2> QED BY <1>1, <1>2, <2>1, <2>2, <2>3, QuietStep
  <1>3. CASE ~succeeds
    BY <1>1, <1>3, FaultStep
  <1> QED BY <1>2, <1>3

-----------------------------------------------------------------------------
(***************************************************************************)
(* GetFunctionDataByFunctionID: the account of its imports.  A call that   *)
(* may be given one has its place in the bound, which the import takes     *)
(* over; when the call returns, the import it carries is stranded.         *)
(***************************************************************************)
LEMMA FunctionStep ==
  ASSUME HelpersInv, NEW t \in Threads, GetFunctionDataByFunctionID(t)
  PROVE  HelpersInv'
  <1> USE DEF HelpersInv
  <1>1. Calls(t, "token") /\ granted + Cardinality(Asked) < MaxStranded
    BY DEF GetFunctionDataByFunctionID, Asked
  <1>2. at[t] = "idle" /\ holds[t] = {}
    BY <1>1, HeldFacts DEF Calls, Sound
  <1>3. /\ Moves(t) /\ at'[t] = "token" /\ holds'[t] = {} /\ ~denied'[t]
        /\ Shape' /\ UNCHANGED <<granted, stranded>>
    BY <1>1, <1>2 DEF Calls, Moves, Shape, Steps
  <1>4. Sound(t)'
    BY <1>3 DEF Sound
  <1>5. t \notin Asked /\ t \in Asked' /\ t \notin Carrying /\ t \notin Carrying'
    BY <1>2, <1>3 DEF Asked, Carrying
  <1>6. /\ Cardinality(Asked') = Cardinality(Asked) + 1
        /\ Cardinality(Asked) \in Nat
    BY <1>3, <1>5, Counted, CountOne
  <1>7. Cardinality(Carrying') = Cardinality(Carrying)
    BY <1>3, <1>5, Counted, CountOne
  <1>8. Granted'
    BY <1>1, <1>3, <1>6, <1>7, MethodHelpersAssumption DEF Granted
  <1> QED BY <1>3, <1>4, <1>8, OthersSound

LEMMA TokenStep ==
  ASSUME HelpersInv, NEW t \in Threads, NEW succeeds \in BOOLEAN,
         AskToken(t, succeeds)
  PROVE  HelpersInv'
  <1> USE DEF HelpersInv, AskToken, Asks
  <1>1. at[t] = "token" /\ holds[t] = {}
    BY HeldFacts DEF Sound
  <1>2. /\ Moves(t) /\ at'[t] = "info" /\ UNCHANGED stranded
        /\ holds'[t] = (IF succeeds THEN {"import"} ELSE {}) /\ Shape'
        /\ granted' = IF succeeds THEN granted + 1 ELSE granted
    <2>1. CASE succeeds
      BY <1>1, <2>1 DEF Moves, Shape, Steps, Goes, Interfaces
    <2>2. CASE ~succeeds
      BY <1>1, <2>2 DEF Moves, Shape, Steps, Goes, Denies
    <2> QED BY <2>1, <2>2
  <1>3. Sound(t)'
    BY <1>2, HeldFacts DEF Sound, Undenied
  <1>4. /\ t \in Asked /\ t \notin Asked' /\ t \notin Carrying
        /\ (t \in Carrying' <=> succeeds)
    BY <1>1, <1>2 DEF Asked, Carrying
  <1>5. /\ Cardinality(Asked') = Cardinality(Asked) - 1
        /\ Cardinality(Asked) \in Nat /\ Cardinality(Asked') \in Nat
    BY <1>2, <1>4, Counted, CountOne
  <1>6. /\ Cardinality(Carrying) \in Nat
        /\ Cardinality(Carrying') = IF succeeds THEN Cardinality(Carrying) + 1
                                                ELSE Cardinality(Carrying)
    <2>1. CASE succeeds
      BY <1>2, <1>4, <2>1, Counted, CountOne
    <2>2. CASE ~succeeds
      BY <1>2, <1>4, <2>2, Counted, CountOne
    <2> QED BY <2>1, <2>2
  <1>7. Granted'
    BY <1>2, <1>5, <1>6, MethodHelpersAssumption DEF Granted, Interfaces
  <1> QED BY <1>2, <1>3, <1>7, OthersSound

LEMMA FunctionInfoStep ==
  ASSUME HelpersInv, NEW t \in Threads, NEW succeeds \in BOOLEAN,
         AskFunctionInfo(t, succeeds)
  PROVE  HelpersInv'
  <1> USE DEF HelpersInv
  <1>1. PICK both \in BOOLEAN : both <=> succeeds /\ ~denied[t]
    OBVIOUS
  <1>2. /\ at[t] = "info" /\ Drops(t, holds[t])
        /\ Returns(t, IF both THEN "S_FALSE" ELSE "S_OK",
                      IF both THEN "answer" ELSE "garbage")
        /\ IF succeeds THEN UNCHANGED denied ELSE Denies(t)
        /\ UNCHANGED <<m_CorProfilerInfo, granted>>
    BY <1>1 DEF AskFunctionInfo, Asks
  <1>3. holds[t] \subseteq {"import"}
    BY <1>2, HeldFacts DEF Sound
  <1>4. /\ Moves(t) /\ at'[t] = "idle" /\ holds'[t] = {}
        /\ status'[t] = (IF both THEN "S_FALSE" ELSE "S_OK")
        /\ told'[t] = (IF both THEN "answer" ELSE "garbage")
        /\ Shape' /\ (denied'[t] <=> ~both)
    <2>1. CASE succeeds
      BY <1>1, <1>2, <2>1 DEF Moves, Shape, Steps, Goes, Returns, Drops
    <2>2. CASE ~succeeds
      BY <1>1, <1>2, <2>2 DEF Moves, Shape, Steps, Goes, Returns, Drops, Denies
    <2> QED BY <2>1, <2>2
  <1>5. Sound(t)'
    BY <1>4 DEF Sound, Outcome, Undenied
  <1>6. /\ t \notin Asked /\ t \notin Asked' /\ t \notin Carrying'
        /\ (t \in Carrying <=> "import" \in holds[t])
    BY <1>2, <1>3, <1>4 DEF Asked, Carrying
  <1>7. /\ Cardinality(Asked') = Cardinality(Asked)
        /\ Cardinality(Asked) \in Nat /\ Cardinality(Carrying') \in Nat
        /\ Cardinality(Carrying) \in Nat
    BY <1>4, <1>6, Counted, CountOne
  <1>8. Cardinality(Carrying) =
          Cardinality(Carrying') + (IF "import" \in holds[t] THEN 1 ELSE 0)
    <2>1. CASE t \in Carrying
      <3>1. Cardinality(Carrying') = Cardinality(Carrying) - 1
        BY <1>4, <1>6, <2>1, Counted, CountOne
      <3> QED BY <1>6, <1>7, <2>1, <3>1
    <2>2. CASE t \notin Carrying
      <3>1. Cardinality(Carrying') = Cardinality(Carrying)
        BY <1>4, <1>6, <2>2, Counted, CountOne
      <3> QED BY <1>6, <1>7, <2>2, <3>1
    <2> QED BY <2>1, <2>2
  <1>9. /\ stranded' \in [Interfaces -> Nat]
        /\ stranded'["malloc"] = 0
        /\ stranded'["import"] =
             stranded["import"] + (IF "import" \in holds[t] THEN 1 ELSE 0)
    BY <1>2, <1>3 DEF Drops, Granted, Interfaces
  <1>10. stranded["import"] \in Nat
    BY DEF Granted, Interfaces
  <1>11. Granted'
    BY <1>2, <1>7, <1>8, <1>9, <1>10 DEF Granted
  <1> QED BY <1>4, <1>5, <1>11, OthersSound

-----------------------------------------------------------------------------
LEMMA HelpersStep == ASSUME HelpersInv, [HelpersNext]_helpersVars PROVE HelpersInv'
  <1>1. ASSUME NEW t \in Threads, Called(t) PROVE HelpersInv'
    BY <1>1, CallStep, StubStep, FunctionStep
       DEF Called, GetModuleInfo, GetFullMethodName, AllocateMethodBody, RewriteMethod
  <1>2. ASSUME NEW t \in Threads, Working(t) PROVE HelpersInv'
    BY <1>2, ModuleInfoStep, TokenStep, FunctionInfoStep, ImportStep, PropsStep,
       AllocStep, FunctionBodyStep, WildStep, AllocatorStep DEF Working
  <1>3. CASE UNCHANGED helpersVars
    BY <1>3 DEF helpersVars, HelpersInv, Shape, Sound, Outcome, Granted,
                Asked, Carrying
  <1> QED BY <1>1, <1>2, <1>3 DEF HelpersNext, Crashed

LEMMA HelpersImply ==
  ASSUME HelpersInv
  PROVE  HelpersTypeOK /\ ReferencesAccounted /\ OutcomeTold
  <1> USE DEF HelpersInv
  <1>1. /\ Cardinality(Carrying) \in Nat /\ Cardinality(Asked) \in Nat
    BY MethodHelpersAssumption, FS_Subset, FS_CardinalityType DEF Carrying, Asked
  <1>2. granted \in 0 .. MaxStranded /\ stranded["import"] \in 0 .. MaxStranded
        /\ stranded["malloc"] \in 0 .. MaxStranded
    BY <1>1, MethodHelpersAssumption DEF Granted, Interfaces
  <1>3. HelpersTypeOK
    BY <1>2 DEF HelpersTypeOK, Shape, Granted, Interfaces
  <1>4. ReferencesAccounted
    BY DEF ReferencesAccounted, Sound, Held, Granted, Carrying
  <1>5. OutcomeTold
    BY DEF OutcomeTold, Sound, Outcome
  <1> QED BY <1>3, <1>4, <1>5

LEMMA HelpersAreInvariant == HelpersSpec => []HelpersInv
  BY HelpersInitially, HelpersStep, PTL DEF HelpersSpec

(***************************************************************************)
(* On every path of the helpers, whatever the CLR denies, the references   *)
(* they borrow are given back, but for the imports that                    *)
(* GetFunctionDataByFunctionID is given; and what they return tells an     *)
(* answer from nothing, though not, from two of them, from garbage.        *)
(***************************************************************************)
THEOREM HelpersAreSound == HelpersSpec => []HelpersSound
  <1>1. HelpersInv => HelpersSound
    BY HelpersImply DEF HelpersSound
  <1> QED BY <1>1, HelpersAreInvariant, PTL
=============================================================================
