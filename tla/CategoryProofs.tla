--------------------------- MODULE CategoryProofs ---------------------------
(***************************************************************************)
(* Log statements against changes of priorities and appenders, for any     *)
(* hierarchy, levels, appenders and threads.  The invariant follows a      *)
(* statement (Streamed, Walked), says what is known of one that was let    *)
(* through (Allowing) and of one that calls appenders (Calling), and who   *)
(* owns an appender (Apart).                                               *)
(*                                                                         *)
(* The last part is about a factory's parameters (FactoryParams) and the   *)
(* chains of validators that read them.                                    *)
(***************************************************************************)
EXTENDS Category, FactoryParams, TLAPS

Statement ==
  [form : Forms \cup {"none"}, level : Level \cup {None}, on : Category,
   at : Asking \cup {"idle", "insert", "call", "append"}, cur : Category,
   stream : {NOTSET} \cup {Priority(level) : level \in Level \cup {None}},
   given : 0 .. Piece, buffer : 0 .. Piece, todo : SUBSET Appender]

\* What the buffer of a stream holds at each step.
Streamed(s) ==
  /\ s.at \in {"test", "open"} => s.given = 0 /\ s.buffer = 0
  /\ s.at = "insert" => s.buffer = IF s.stream # NOTSET THEN s.given ELSE 0
  /\ s.at \in {"log", "call", "append"} /\ Streams(s.form) => s.buffer = Piece

\* The walk up has not left the categories above the statement's.
Walked(s) ==
  /\ s.at \in Asking => s.cur \in Above(s.on)
  /\ s.at = "insert" => s.cur = s.on

Statements ==
  /\ stmt \in [Thread -> Statement]
  /\ \A t \in Thread : Streamed(stmt[t]) /\ Walked(stmt[t])

\* A level that is set now was set during the statement, and one that was let
\* through was set.
Allowing ==
  /\ \A t \in Thread :
       /\ stmt[t].at # "idle" /\ SetFor(stmt[t].on, stmt[t].level, priority) =>
            t \in allowed
       /\ stmt[t].at \in {"call", "append"} => t \in allowed
  /\ allowed \subseteq Thread

\* What is to be called is attached, and cannot be removed meanwhile.
Calling ==
  \A t \in Thread :
    stmt[t].at = "append" => /\ lock[stmt[t].cur] = t
                             /\ stmt[t].todo \subseteq appenders[stmt[t].cur]

\* An owned appender is attached nowhere else.
Apart == \A c, d \in Category : c # d => owns[c] \cap appenders[d] = {}

Written == AllOrNothing /\ WrittenAsAllowed /\ NoCallAfterDelete

CategoryInv ==
  /\ TypeOK
  /\ Statements
  /\ Allowing
  /\ Calling
  /\ OwnershipSound
  /\ Apart
  /\ Written

-----------------------------------------------------------------------------
LEMMA IdleFacts ==
  /\ Idle \in Statement
  /\ Idle.at = "idle" /\ Idle.given = 0 /\ Idle.buffer = 0
  /\ Streamed(Idle) /\ Walked(Idle)
  BY CategoryAssumption
     DEF Idle, Statement, Streamed, Walked, Asking

\* A category is above itself, and what is above it has its parent there too.
LEMMA AboveFacts ==
  ASSUME NEW c \in Category
  PROVE  /\ c \in Above(c)
         /\ \A d \in Above(c) : d # Root => Parent[d] \in Above(c)
  <1>1. c \in Above(c)
    BY DEF Above
  <1>2. ASSUME NEW d \in Above(c), d # Root PROVE Parent[d] \in Above(c)
    <2>1. d \in Category /\ Parent[d] \in Category
      BY <1>2, CategoryAssumption DEF Above
    <2>2. ASSUME NEW S \in SUBSET Category, c \in S,
                 \A e \in S \ {Root} : Parent[e] \in S
          PROVE  Parent[d] \in S
      <3>1. d \in S
        BY <2>2 DEF Above
      <3> QED BY <1>2, <2>2, <3>1
    <2> QED BY <2>1, <2>2 DEF Above
  <1> QED BY <1>1, <1>2

\* What a statement becomes is a statement.
LEMMA EntryFacts ==
  ASSUME NEW form \in Forms
  PROVE  /\ Entry(form) \in {"test", "open", "log"}
         /\ Entry(form) = "log" => ~Streams(form)
         /\ Body(form) \in {"open", "log"}
         /\ Body(form) = "log" => ~Streams(form)
  BY DEF Entry, Body, Streams

LEMMA CategoryInit == ASSUME Init PROVE CategoryInv
  <1> USE DEF Init
  <1>1. \A t \in Thread : stmt[t] = Idle
    OBVIOUS
  <1>2. TypeOK
    <2>1. \A t \in Thread : /\ stmt[t].cur \in Category /\ stmt[t].given \in 0 .. Piece
                            /\ stmt[t].buffer \in 0 .. Piece
                            /\ stmt[t].todo \subseteq Appender
      BY <1>1, IdleFacts DEF Statement
    <2>2. priority \in [Category -> {Priority(l) : l \in Level} \cup
                                    {Priority("INFO"), NOTSET}]
      OBVIOUS
    <2> QED BY <2>1, <2>2 DEF TypeOK
  <1>3. Statements
    BY <1>1, IdleFacts DEF Statements
  <1>4. Allowing /\ Calling
    BY <1>1, IdleFacts DEF Allowing, Calling
  <1>5. OwnershipSound /\ Apart
    BY DEF OwnershipSound, Apart, Attached
  <1>6. Written
    BY DEF Written, AllOrNothing, WrittenAsAllowed, NoCallAfterDelete
  <1> QED BY <1>2, <1>3, <1>4, <1>5, <1>6 DEF CategoryInv

-----------------------------------------------------------------------------
(***************************************************************************)
(* Steps that move one statement and nothing else.                         *)
(***************************************************************************)
LEMMA MoveStep ==
  ASSUME CategoryInv, NEW t \in Thread, NEW new \in Statement, Goes(t, new),
         stmt[t].at \in Asking \cup {"insert"},
         new.at # "append", Streamed(new), Walked(new),
         new.at # "idle" => new.on = stmt[t].on /\ new.level = stmt[t].level,
         new.at = "call" => t \in allowed
  PROVE  CategoryInv'
  <1> USE DEF CategoryInv
  <1>1. /\ stmt' \in [Thread -> Statement] /\ stmt'[t] = new
        /\ \A u \in Thread : u # t => stmt'[u] = stmt[u]
        /\ UNCHANGED <<priority, appenders, owns, deleted, lock, allowed, written>>
    BY DEF Goes, Statements, category
  <1>2. stmt[t].at # "idle"
    BY DEF Asking
  <1>3. TypeOK'
    <2>1. \A u \in Thread : /\ stmt'[u].cur \in Category /\ stmt'[u].given \in 0 .. Piece
                            /\ stmt'[u].buffer \in 0 .. Piece
                            /\ stmt'[u].todo \subseteq Appender
      BY <1>1 DEF Statement
    <2> QED BY <1>1, <2>1 DEF TypeOK
  <1>4. Statements'
    <2>1. \A u \in Thread : Streamed(stmt'[u]) /\ Walked(stmt'[u])
      BY <1>1 DEF Statements
    <2> QED BY <1>1, <2>1 DEF Statements, Streamed, Walked
  <1>5. Allowing'
    <2>1. \A u \in Thread : stmt'[u].at # "idle" =>
            /\ stmt[u].at # "idle"
            /\ stmt'[u].on = stmt[u].on /\ stmt'[u].level = stmt[u].level
      BY <1>1, <1>2
    <2>2. \A u \in Thread : stmt'[u].at \in {"call", "append"} => u \in allowed
      BY <1>1 DEF Allowing
    <2> QED BY <1>1, <2>1, <2>2 DEF Allowing, SetFor
  <1>6. Calling'
    BY <1>1 DEF Calling
  <1>7. OwnershipSound' /\ Apart'
    BY <1>1 DEF OwnershipSound, Apart, Attached
  <1>8. Written'
    BY <1>1 DEF Written, AllOrNothing, WrittenAsAllowed, NoCallAfterDelete
  <1> QED BY <1>3, <1>4, <1>5, <1>6, <1>7, <1>8

LEMMA ClimbStep ==
  ASSUME CategoryInv, NEW t \in Thread, Climb(t)
  PROVE  CategoryInv'
  <1> USE DEF CategoryInv
  <1>1. stmt[t] \in Statement /\ Streamed(stmt[t]) /\ Walked(stmt[t])
    BY DEF Statements
  <1>2. PICK new : new = [stmt[t] EXCEPT !.cur = Parent[stmt[t].cur]]
    OBVIOUS
  <1>3. stmt[t].at \in Asking /\ stmt[t].cur # Root
    BY DEF Climb
  <1>4. stmt[t].cur \in Above(stmt[t].on) /\ stmt[t].on \in Category
    BY <1>1, <1>3 DEF Walked, Statement
  <1>5. Parent[stmt[t].cur] \in Above(stmt[t].on)
    BY <1>3, <1>4, AboveFacts
  <1>6. Parent[stmt[t].cur] \in Category
    BY <1>5 DEF Above
  <1>7. /\ new \in Statement /\ new.cur = Parent[stmt[t].cur]
        /\ new.at = stmt[t].at /\ new.on = stmt[t].on /\ new.level = stmt[t].level
        /\ new.form = stmt[t].form /\ new.stream = stmt[t].stream
        /\ new.given = stmt[t].given /\ new.buffer = stmt[t].buffer
    BY <1>1, <1>2, <1>6 DEF Statement
  <1>8. Streamed(new) /\ Walked(new)
    BY <1>1, <1>3, <1>5, <1>7 DEF Streamed, Walked, Asking
  <1>9. Goes(t, new)
    <2>1. stmt' = [stmt EXCEPT ![t] = new]
      BY <1>1, <1>2 DEF Climb, Statements
    <2> QED BY <2>1 DEF Goes, Climb
  <1> QED BY <1>3, <1>7, <1>8, <1>9, MoveStep DEF Asking

LEMMA AnswerFacts ==
  ASSUME CategoryInv, NEW t \in Thread, NEW yes \in BOOLEAN, Answers(t, yes), yes,
         stmt[t].at \in Asking
  PROVE  t \in allowed
  <1>1. stmt[t].cur \in Above(stmt[t].on)
    BY DEF CategoryInv, Statements, Walked
  <1>2. priority[stmt[t].cur] # NOTSET
        /\ priority[stmt[t].cur] >= Priority(stmt[t].level)
    BY DEF Answers
  <1>3. SetFor(stmt[t].on, stmt[t].level, priority)
    BY <1>1, <1>2 DEF SetFor
  <1> QED BY <1>3 DEF CategoryInv, Allowing, Asking

LEMMA TestStep ==
  ASSUME CategoryInv, NEW t \in Thread, Test(t)
  PROVE  CategoryInv'
  <1> USE DEF CategoryInv
  <1>1. stmt[t] \in Statement /\ Streamed(stmt[t]) /\ stmt[t].at = "test"
    BY DEF Statements, Test
  <1>2. PICK yes \in BOOLEAN :
          Goes(t, IF yes THEN [stmt[t] EXCEPT !.at = Body(stmt[t].form),
                                              !.cur = stmt[t].on]
                         ELSE Idle)
    BY DEF Test
  <1>3. CASE yes
    <2>1. PICK new : new = [stmt[t] EXCEPT !.at = Body(stmt[t].form), !.cur = stmt[t].on]
      OBVIOUS
    <2>2. Body(stmt[t].form) \in {"open", "log"}
          /\ (Body(stmt[t].form) = "log" => ~Streams(stmt[t].form))
      BY DEF Body
    <2>3. /\ new \in Statement /\ new.cur = stmt[t].on /\ new.at = Body(stmt[t].form)
          /\ new.on = stmt[t].on /\ new.level = stmt[t].level
          /\ new.form = stmt[t].form /\ new.given = stmt[t].given
          /\ new.buffer = stmt[t].buffer /\ stmt[t].on \in Category
      BY <1>1, <2>1, <2>2 DEF Statement, Asking
    <2>4. Streamed(new) /\ Walked(new)
      BY <1>1, <2>2, <2>3, AboveFacts DEF Streamed, Walked, Asking
    <2>5. Goes(t, new)
      BY <1>2, <1>3, <2>1
    <2> QED BY <1>1, <2>2, <2>3, <2>4, <2>5, MoveStep DEF Asking
  <1>4. CASE ~yes
    <2>1. Goes(t, Idle)
      BY <1>2, <1>4
    <2> QED BY <1>1, <2>1, IdleFacts, MoveStep DEF Asking
  <1> QED BY <1>3, <1>4

LEMMA OpenStep ==
  ASSUME CategoryInv, NEW t \in Thread, Open(t)
  PROVE  CategoryInv'
  <1> USE DEF CategoryInv
  <1>1. stmt[t] \in Statement /\ Streamed(stmt[t]) /\ stmt[t].at = "open"
    BY DEF Statements, Open
  <1>2. PICK yes \in BOOLEAN :
          Goes(t, [stmt[t] EXCEPT
                     !.at = "insert", !.cur = stmt[t].on,
                     !.stream = IF yes THEN Priority(stmt[t].level) ELSE NOTSET])
    BY DEF Open
  <1>3. PICK new : new = [stmt[t] EXCEPT
                            !.at = "insert", !.cur = stmt[t].on,
                            !.stream = IF yes THEN Priority(stmt[t].level) ELSE NOTSET]
    OBVIOUS
  <1>4. /\ new \in Statement /\ new.cur = stmt[t].on /\ new.at = "insert"
        /\ new.on = stmt[t].on /\ new.level = stmt[t].level
        /\ new.form = stmt[t].form
        /\ new.given = stmt[t].given /\ new.buffer = stmt[t].buffer
    <2>1. (IF yes THEN Priority(stmt[t].level) ELSE NOTSET)
            \in {NOTSET} \cup {Priority(level) : level \in Level \cup {None}}
      BY <1>1 DEF Statement
    <2>2. stmt[t].on \in Category
      BY <1>1 DEF Statement
    <2> QED BY <1>1, <1>3, <2>1, <2>2 DEF Statement
  <1>5. Streamed(new) /\ Walked(new)
    BY <1>1, <1>4 DEF Streamed, Walked, Asking
  <1> QED BY <1>1, <1>2, <1>3, <1>4, <1>5, MoveStep DEF Asking

LEMMA InsertStep ==
  ASSUME CategoryInv, NEW t \in Thread, Insert(t)
  PROVE  CategoryInv'
  <1> USE DEF CategoryInv
  <1>1. /\ stmt[t] \in Statement /\ Streamed(stmt[t]) /\ Walked(stmt[t])
        /\ stmt[t].at = "insert" /\ stmt[t].given < Piece
    BY DEF Statements, Insert
  <1>2. PICK buffer : buffer = IF stmt[t].stream # NOTSET THEN stmt[t].buffer + 1
                                                          ELSE stmt[t].buffer
    OBVIOUS
  <1>3. PICK new : new = [stmt[t] EXCEPT !.given = stmt[t].given + 1, !.buffer = buffer]
    OBVIOUS
  <1>4. Goes(t, new)
    BY <1>2, <1>3 DEF Insert
  <1>5. /\ stmt[t].given \in 0 .. Piece /\ Piece \in Nat
        /\ stmt[t].buffer = IF stmt[t].stream # NOTSET THEN stmt[t].given ELSE 0
    BY <1>1, CategoryAssumption DEF Statement, Streamed
  <1>6. stmt[t].given + 1 \in 0 .. Piece /\ buffer \in 0 .. Piece
        /\ buffer = IF stmt[t].stream # NOTSET THEN stmt[t].given + 1 ELSE 0
    BY <1>1, <1>2, <1>5
  <1>7. /\ new \in Statement /\ new.cur = stmt[t].cur /\ new.at = "insert"
        /\ new.on = stmt[t].on /\ new.level = stmt[t].level
        /\ new.stream = stmt[t].stream
        /\ new.given = stmt[t].given + 1 /\ new.buffer = buffer
    BY <1>1, <1>3, <1>6 DEF Statement
  <1>8. Streamed(new) /\ Walked(new)
    BY <1>1, <1>6, <1>7 DEF Streamed, Walked, Asking
  <1> QED BY <1>1, <1>4, <1>7, <1>8, MoveStep

LEMMA FlushStep ==
  ASSUME CategoryInv, NEW t \in Thread, Flush(t)
  PROVE  CategoryInv'
  <1> USE DEF CategoryInv
  <1>1. /\ stmt[t] \in Statement /\ Streamed(stmt[t]) /\ Walked(stmt[t])
        /\ stmt[t].at = "insert" /\ stmt[t].given = Piece
        /\ Goes(t, IF stmt[t].buffer > 0 THEN [stmt[t] EXCEPT !.at = "log"]
                                          ELSE Idle)
    BY DEF Statements, Flush
  <1>2. CASE stmt[t].buffer > 0
    <2>1. PICK new : new = [stmt[t] EXCEPT !.at = "log"]
      OBVIOUS
    <2>2. /\ new \in Statement /\ new.cur = stmt[t].cur /\ new.at = "log"
          /\ new.on = stmt[t].on /\ new.level = stmt[t].level
          /\ new.buffer = stmt[t].buffer /\ stmt[t].on \in Category
      BY <1>1, <2>1 DEF Statement, Asking
    <2>3. stmt[t].buffer = Piece
      BY <1>1, <1>2 DEF Streamed
    <2>4. Streamed(new) /\ Walked(new)
      BY <1>1, <2>2, <2>3, AboveFacts DEF Streamed, Walked, Asking
    <2> QED BY <1>1, <1>2, <2>1, <2>2, <2>4, MoveStep
  <1>3. CASE ~(stmt[t].buffer > 0)
    <2>1. Goes(t, Idle)
      BY <1>1, <1>3
    <2> QED BY <1>1, <2>1, IdleFacts, MoveStep
  <1> QED BY <1>2, <1>3

LEMMA LogStep ==
  ASSUME CategoryInv, NEW t \in Thread, Log(t)
  PROVE  CategoryInv'
  <1> USE DEF CategoryInv
  <1>1. stmt[t] \in Statement /\ Streamed(stmt[t]) /\ stmt[t].at = "log"
    BY DEF Statements, Log
  <1>2. PICK yes \in BOOLEAN :
          /\ Answers(t, yes)
          /\ Goes(t, IF yes THEN [stmt[t] EXCEPT !.at = "call", !.cur = stmt[t].on]
                            ELSE Idle)
    BY DEF Log
  <1>3. CASE yes
    <2>1. PICK new : new = [stmt[t] EXCEPT !.at = "call", !.cur = stmt[t].on]
      OBVIOUS
    <2>2. /\ new \in Statement /\ new.cur = stmt[t].on /\ new.at = "call"
          /\ new.on = stmt[t].on /\ new.level = stmt[t].level
          /\ new.form = stmt[t].form /\ new.buffer = stmt[t].buffer
      BY <1>1, <2>1 DEF Statement
    <2>3. Streamed(new) /\ Walked(new)
      BY <1>1, <2>2 DEF Streamed, Walked, Asking
    <2>4. t \in allowed
      BY <1>1, <1>2, <1>3, AnswerFacts DEF Asking
    <2>5. Goes(t, new)
      BY <1>2, <1>3, <2>1
    <2> QED BY <1>1, <2>2, <2>3, <2>4, <2>5, MoveStep DEF Asking
  <1>4. CASE ~yes
    <2>1. Goes(t, Idle)
      BY <1>2, <1>4
    <2> QED BY <1>1, <2>1, IdleFacts, MoveStep DEF Asking
  <1> QED BY <1>3, <1>4

(***************************************************************************)
(* A statement begins: whether its level is set is looked at afresh.       *)
(***************************************************************************)
LEMMA BeginStep ==
  ASSUME CategoryInv, NEW t \in Thread, NEW form \in Forms, NEW level \in Level,
         NEW c \in Category, Begin(t, form, level, c)
  PROVE  CategoryInv'
  <1> USE DEF CategoryInv
  <1>1. PICK new : new = [Idle EXCEPT !.form = form, !.level = level, !.on = c,
                                      !.cur = c, !.at = Entry(form)]
    OBVIOUS
  <1>2. Entry(form) \in {"test", "open", "log"}
        /\ (Entry(form) = "log" => ~Streams(form))
    BY EntryFacts
  <1>3. /\ new \in Statement /\ new.at = Entry(form) /\ new.form = form
        /\ new.level = level /\ new.on = c /\ new.cur = c
        /\ new.given = 0 /\ new.buffer = 0
    BY <1>1, <1>2, IdleFacts DEF Statement, Asking
  <1>4. Streamed(new) /\ Walked(new)
    BY <1>2, <1>3, AboveFacts DEF Streamed, Walked, Asking
  <1>5. /\ stmt' = [stmt EXCEPT ![t] = new]
        /\ allowed' = IF SetFor(c, level, priority) THEN allowed \cup {t}
                                                    ELSE allowed \ {t}
        /\ UNCHANGED <<priority, appenders, owns, deleted, lock, written>>
    BY <1>1 DEF Begin, category
  <1>6. /\ stmt' \in [Thread -> Statement] /\ stmt'[t] = new
        /\ \A u \in Thread : u # t => stmt'[u] = stmt[u]
    BY <1>3, <1>5 DEF Statements
  <1>7. TypeOK'
    <2>1. \A u \in Thread : /\ stmt'[u].cur \in Category /\ stmt'[u].given \in 0 .. Piece
                            /\ stmt'[u].buffer \in 0 .. Piece
                            /\ stmt'[u].todo \subseteq Appender
      BY <1>6 DEF Statement
    <2> QED BY <1>5, <2>1 DEF TypeOK
  <1>8. Statements'
    <2>1. \A u \in Thread : Streamed(stmt'[u]) /\ Walked(stmt'[u])
      BY <1>4, <1>6 DEF Statements
    <2> QED BY <1>6, <2>1 DEF Statements, Streamed, Walked
  <1>9. Allowing'
    <2>1. allowed' \subseteq Thread
      BY <1>5 DEF Allowing
    <2>2. ASSUME NEW u \in Thread
          PROVE  /\ stmt'[u].at # "idle" /\ SetFor(stmt'[u].on, stmt'[u].level, priority) =>
                      u \in allowed'
                 /\ stmt'[u].at \in {"call", "append"} => u \in allowed'
      <3>1. CASE u = t
        BY <1>2, <1>3, <1>5, <1>6, <3>1
      <3>2. CASE u # t
        BY <1>5, <1>6, <3>2 DEF Allowing
      <3> QED BY <3>1, <3>2
    <2>3. \A d \in Category : Above(d)' = Above(d)
      BY DEF Above
    <2> QED BY <1>5, <2>1, <2>2 DEF Allowing, SetFor
  <1>10. Calling'
    BY <1>2, <1>3, <1>5, <1>6 DEF Calling
  <1>11. OwnershipSound' /\ Apart'
    BY <1>5 DEF OwnershipSound, Apart, Attached
  <1>12. Written'
    BY <1>5 DEF Written, AllOrNothing, WrittenAsAllowed, NoCallAfterDelete
  <1> QED BY <1>7, <1>8, <1>9, <1>10, <1>11, <1>12

-----------------------------------------------------------------------------
(***************************************************************************)
(* Appenders are called under the mutex of their category.                 *)
(***************************************************************************)
LEMMA CallStep ==
  ASSUME CategoryInv, NEW t \in Thread, CallAppenders(t)
  PROVE  CategoryInv'
  <1> USE DEF CategoryInv
  <1>1. /\ stmt[t] \in Statement /\ Streamed(stmt[t]) /\ stmt[t].at = "call"
        /\ lock[stmt[t].cur] = None
        /\ lock' = [lock EXCEPT ![stmt[t].cur] = t]
        /\ UNCHANGED <<priority, appenders, owns, deleted, allowed, written>>
    BY DEF Statements, CallAppenders, category
  <1>2. PICK new : new = [stmt[t] EXCEPT !.at = "append",
                                         !.todo = appenders[stmt[t].cur]]
    OBVIOUS
  <1>3. stmt' = [stmt EXCEPT ![t] = new]
    BY <1>2 DEF CallAppenders, Statements
  <1>4. stmt[t].cur \in Category /\ appenders[stmt[t].cur] \subseteq Appender
    BY <1>1 DEF Statement, TypeOK
  <1>5. /\ new \in Statement /\ new.at = "append" /\ new.cur = stmt[t].cur
        /\ new.todo = appenders[stmt[t].cur] /\ new.form = stmt[t].form
        /\ new.on = stmt[t].on /\ new.level = stmt[t].level
        /\ new.buffer = stmt[t].buffer
    BY <1>1, <1>2, <1>4 DEF Statement
  <1>6. /\ stmt' \in [Thread -> Statement] /\ stmt'[t] = new
        /\ \A u \in Thread : u # t => stmt'[u] = stmt[u]
    BY <1>3, <1>5 DEF Statements
  <1>7. TypeOK'
    <2>1. \A u \in Thread : /\ stmt'[u].cur \in Category /\ stmt'[u].given \in 0 .. Piece
                            /\ stmt'[u].buffer \in 0 .. Piece
                            /\ stmt'[u].todo \subseteq Appender
      BY <1>6 DEF Statement
    <2>2. lock' \in [Category -> Thread \cup {None}]
      BY <1>1, <1>4 DEF TypeOK
    <2> QED BY <1>1, <2>1, <2>2 DEF TypeOK
  <1>8. Statements'
    <2>1. Streamed(new) /\ Walked(new)
      BY <1>1, <1>5 DEF Streamed, Walked, Asking
    <2>2. \A u \in Thread : Streamed(stmt'[u]) /\ Walked(stmt'[u])
      BY <1>6, <2>1 DEF Statements
    <2> QED BY <1>6, <2>2 DEF Statements, Streamed, Walked
  <1>9. Allowing'
    <2>1. \A u \in Thread :
            /\ stmt'[u].at # "idle" <=> stmt[u].at # "idle"
            /\ stmt'[u].at \in {"call", "append"} <=> stmt[u].at \in {"call", "append"}
            /\ stmt'[u].on = stmt[u].on /\ stmt'[u].level = stmt[u].level
      BY <1>1, <1>5, <1>6
    <2> QED BY <1>1, <2>1 DEF Allowing, SetFor
  <1>10. Calling'
    <2> SUFFICES ASSUME NEW u \in Thread, stmt'[u].at = "append"
                 PROVE  /\ lock'[stmt'[u].cur] = u
                        /\ stmt'[u].todo \subseteq appenders[stmt'[u].cur]
      BY <1>1 DEF Calling
    <2>1. CASE u = t
      BY <1>1, <1>4, <1>5, <1>6, <2>1 DEF TypeOK
    <2>2. CASE u # t
      <3>1. lock[stmt[u].cur] = u /\ stmt[u].todo \subseteq appenders[stmt[u].cur]
        BY <1>6, <2>2 DEF Calling
      <3>2. stmt[u].cur # stmt[t].cur
        BY <1>1, <3>1, CategoryAssumption
      <3>3. stmt[u].cur \in Category
        BY DEF Statements, Statement
      <3> QED BY <1>1, <1>6, <2>2, <3>1, <3>2, <3>3 DEF TypeOK
    <2> QED BY <2>1, <2>2
  <1>11. OwnershipSound' /\ Apart'
    BY <1>1 DEF OwnershipSound, Apart, Attached
  <1>12. Written'
    BY <1>1 DEF Written, AllOrNothing, WrittenAsAllowed, NoCallAfterDelete
  <1> QED BY <1>7, <1>8, <1>9, <1>10, <1>11, <1>12

\* What is written is whole and allowed, by an appender that exists.
LEMMA AppendStep ==
  ASSUME CategoryInv, NEW t \in Thread, NEW a \in Appender, doAppend(t, a)
  PROVE  CategoryInv'
  <1> USE DEF CategoryInv
  <1>1. /\ stmt[t] \in Statement /\ Streamed(stmt[t]) /\ stmt[t].at = "append"
        /\ a \in stmt[t].todo
        /\ UNCHANGED <<priority, appenders, owns, deleted, lock, allowed>>
    BY DEF Statements, doAppend, category
  <1>2. PICK new : new = [stmt[t] EXCEPT !.todo = stmt[t].todo \ {a}]
    OBVIOUS
  <1>3. stmt' = [stmt EXCEPT ![t] = new]
    BY <1>2 DEF doAppend, Statements
  <1>4. stmt[t].cur \in Category /\ stmt[t].todo \subseteq Appender
    BY <1>1 DEF Statement
  <1>5. /\ new \in Statement /\ new.at = "append" /\ new.cur = stmt[t].cur
        /\ new.todo = stmt[t].todo \ {a} /\ new.form = stmt[t].form
        /\ new.on = stmt[t].on /\ new.level = stmt[t].level
        /\ new.buffer = stmt[t].buffer
    BY <1>1, <1>2, <1>4 DEF Statement
  <1>6. /\ stmt' \in [Thread -> Statement] /\ stmt'[t] = new
        /\ \A u \in Thread : u # t => stmt'[u] = stmt[u]
    BY <1>3, <1>5 DEF Statements
  <1>7. TypeOK'
    <2>1. \A u \in Thread : /\ stmt'[u].cur \in Category /\ stmt'[u].given \in 0 .. Piece
                            /\ stmt'[u].buffer \in 0 .. Piece
                            /\ stmt'[u].todo \subseteq Appender
      BY <1>6 DEF Statement
    <2> QED BY <1>1, <2>1 DEF TypeOK
  <1>8. Statements'
    <2>1. Streamed(new) /\ Walked(new)
      BY <1>1, <1>5 DEF Streamed, Walked, Asking
    <2>2. \A u \in Thread : Streamed(stmt'[u]) /\ Walked(stmt'[u])
      BY <1>6, <2>1 DEF Statements
    <2> QED BY <1>6, <2>2 DEF Statements, Streamed, Walked
  <1>9. Allowing'
    <2>1. \A u \in Thread :
            /\ stmt'[u].at = stmt[u].at
            /\ stmt'[u].on = stmt[u].on /\ stmt'[u].level = stmt[u].level
      BY <1>1, <1>5, <1>6
    <2> QED BY <1>1, <2>1 DEF Allowing, SetFor
  <1>10. Calling'
    BY <1>1, <1>5, <1>6 DEF Calling
  <1>11. OwnershipSound' /\ Apart'
    BY <1>1 DEF OwnershipSound, Apart, Attached
  <1>12. Written'
    <2>1. (Streams(stmt[t].form) => stmt[t].buffer = Piece) /\ t \in allowed
      BY <1>1 DEF Streamed, Allowing
    <2>2. a \in Attached
      BY <1>1, <1>4 DEF Calling, Attached
    <2>3. a \notin deleted
      BY <2>2 DEF OwnershipSound
    <2>4. ASSUME NEW w \in written', w \notin written
          PROVE  w.whole /\ w.allowed /\ w.live
      <3>1. w = [whole |-> Streams(stmt[t].form) => stmt[t].buffer = Piece,
                 allowed |-> t \in allowed,
                 live |-> a \notin deleted]
        BY <2>4 DEF doAppend
      <3> QED BY <2>1, <2>3, <3>1
    <2> QED BY <2>4 DEF Written, AllOrNothing, WrittenAsAllowed, NoCallAfterDelete
  <1> QED BY <1>7, <1>8, <1>9, <1>10, <1>11, <1>12

LEMMA AppendedStep ==
  ASSUME CategoryInv, NEW t \in Thread, Appended(t)
  PROVE  CategoryInv'
  <1> USE DEF CategoryInv
  <1>1. /\ stmt[t] \in Statement /\ Streamed(stmt[t]) /\ stmt[t].at = "append"
        /\ lock' = [lock EXCEPT ![stmt[t].cur] = None]
        /\ lock[stmt[t].cur] = t
        /\ UNCHANGED <<priority, appenders, owns, deleted, allowed, written>>
    BY DEF Statements, Appended, category, Calling
  <1>2. PICK new : new = IF stmt[t].cur = Root THEN Idle
                         ELSE [stmt[t] EXCEPT !.at = "call", !.cur = Parent[stmt[t].cur]]
    OBVIOUS
  <1>3. stmt' = [stmt EXCEPT ![t] = new]
    BY <1>2 DEF Appended, Statements
  <1>4. stmt[t].cur \in Category /\ (stmt[t].cur # Root => Parent[stmt[t].cur] \in Category)
    BY <1>1, CategoryAssumption DEF Statement
  <1>5. /\ new \in Statement /\ Streamed(new) /\ Walked(new) /\ new.at \in {"idle", "call"}
        /\ new.at # "idle" => new.on = stmt[t].on /\ new.level = stmt[t].level
    <2>1. CASE stmt[t].cur = Root
      BY <1>2, <2>1, IdleFacts
    <2>2. CASE stmt[t].cur # Root
      <3>1. /\ new \in Statement /\ new.at = "call" /\ new.form = stmt[t].form
            /\ new.on = stmt[t].on /\ new.level = stmt[t].level
            /\ new.buffer = stmt[t].buffer
        BY <1>1, <1>2, <1>4, <2>2 DEF Statement
      <3> QED BY <1>1, <3>1 DEF Streamed, Walked, Asking
    <2> QED BY <2>1, <2>2
  <1>6. /\ stmt' \in [Thread -> Statement] /\ stmt'[t] = new
        /\ \A u \in Thread : u # t => stmt'[u] = stmt[u]
    BY <1>3, <1>5 DEF Statements
  <1>7. TypeOK'
    <2>1. \A u \in Thread : /\ stmt'[u].cur \in Category /\ stmt'[u].given \in 0 .. Piece
                            /\ stmt'[u].buffer \in 0 .. Piece
                            /\ stmt'[u].todo \subseteq Appender
      BY <1>6 DEF Statement
    <2>2. lock' \in [Category -> Thread \cup {None}]
      BY <1>1, <1>4 DEF TypeOK
    <2> QED BY <1>1, <2>1, <2>2 DEF TypeOK
  <1>8. Statements'
    <2>1. \A u \in Thread : Streamed(stmt'[u]) /\ Walked(stmt'[u])
      BY <1>5, <1>6 DEF Statements
    <2> QED BY <1>6, <2>1 DEF Statements, Streamed, Walked
  <1>9. Allowing'
    <2>1. \A u \in Thread :
            /\ stmt'[u].at # "idle" => /\ stmt[u].at # "idle" /\ stmt'[u].on = stmt[u].on
                                       /\ stmt'[u].level = stmt[u].level
            /\ stmt'[u].at \in {"call", "append"} => stmt[u].at \in {"call", "append"}
      BY <1>1, <1>5, <1>6
    <2> QED BY <1>1, <2>1 DEF Allowing, SetFor
  <1>10. Calling'
    <2> SUFFICES ASSUME NEW u \in Thread, stmt'[u].at = "append"
                 PROVE  /\ lock'[stmt'[u].cur] = u
                        /\ stmt'[u].todo \subseteq appenders[stmt'[u].cur]
      BY <1>1 DEF Calling
    <2>1. u # t /\ stmt'[u] = stmt[u]
      BY <1>5, <1>6
    <2>2. lock[stmt[u].cur] = u /\ stmt[u].todo \subseteq appenders[stmt[u].cur]
      BY <2>1 DEF Calling
    <2>3. stmt[u].cur # stmt[t].cur /\ stmt[u].cur \in Category
      BY <1>1, <2>1, <2>2 DEF Statements, Statement
    <2> QED BY <1>1, <2>1, <2>2, <2>3 DEF TypeOK
  <1>11. OwnershipSound' /\ Apart'
    BY <1>1 DEF OwnershipSound, Apart, Attached
  <1>12. Written'
    BY <1>1 DEF Written, AllOrNothing, WrittenAsAllowed, NoCallAfterDelete
  <1> QED BY <1>7, <1>8, <1>9, <1>10, <1>11, <1>12


-----------------------------------------------------------------------------
(***************************************************************************)
(* Changes between the steps of statements.                                *)
(***************************************************************************)
LEMMA SetPriorityStep ==
  ASSUME CategoryInv, NEW c \in Category,
         NEW p \in {Priority(l) : l \in Level} \cup {NOTSET}, SetPriority(c, p)
  PROVE  CategoryInv'
  <1> USE DEF CategoryInv
  <1>1. /\ priority' = [priority EXCEPT ![c] = p]
        /\ allowed' = allowed \cup
             {t \in Busy : SetFor(stmt[t].on, stmt[t].level, priority')}
        /\ UNCHANGED <<stmt, appenders, owns, deleted, lock, written>>
    BY DEF SetPriority, Changes
  <1>2. TypeOK'
    <2>1. priority' \in [Category -> {Priority(l) : l \in Level} \cup
                                     {Priority("INFO"), NOTSET}]
      BY <1>1 DEF TypeOK
    <2> QED BY <1>1, <2>1 DEF TypeOK
  <1>3. Statements'
    BY <1>1 DEF Statements, Streamed, Walked
  <1>4. Allowing'
    <2>1. allowed' \subseteq Thread
      BY <1>1 DEF Allowing, Busy
    <2>2. ASSUME NEW t \in Thread, stmt[t].at # "idle",
                 SetFor(stmt[t].on, stmt[t].level, priority')
          PROVE  t \in allowed'
      <3>1. t \in Busy
        BY <2>2, IdleFacts DEF Busy
      <3> QED BY <1>1, <2>2, <3>1
    <2>3. \A t \in Thread : stmt[t].at \in {"call", "append"} => t \in allowed'
      BY <1>1 DEF Allowing
    <2>4. stmt' = stmt
      BY <1>1
    <2> QED BY <2>1, <2>2, <2>3, <2>4 DEF Allowing, SetFor
  <1>5. Calling'
    BY <1>1 DEF Calling
  <1>6. OwnershipSound' /\ Apart'
    BY <1>1 DEF OwnershipSound, Apart, Attached
  <1>7. Written'
    BY <1>1 DEF Written, AllOrNothing, WrittenAsAllowed, NoCallAfterDelete
  <1> QED BY <1>2, <1>3, <1>4, <1>5, <1>6, <1>7

\* What a change of appenders leaves alone.
LEMMA AppendersChange ==
  ASSUME CategoryInv, UNCHANGED <<stmt, priority, lock, allowed, written>>
  PROVE  Statements' /\ Allowing' /\ Written'
  <1> USE DEF CategoryInv
  <1>1. Statements'
    BY DEF Statements, Streamed, Walked
  <1>2. Allowing'
    BY DEF Allowing, SetFor
  <1>3. Written'
    BY DEF Written, AllOrNothing, WrittenAsAllowed, NoCallAfterDelete
  <1> QED BY <1>1, <1>2, <1>3

\* An appender is attached to a category that nobody logs to.
LEMMA AddStep ==
  ASSUME CategoryInv, NEW c \in Category, NEW a \in Appender,
         AddReference(c, a) \/ AddPointer(c, a)
  PROVE  CategoryInv'
  <1> USE DEF CategoryInv
  <1>1. /\ lock[c] = None /\ a \notin deleted \cup Owned
        /\ appenders' = [appenders EXCEPT ![c] = appenders[c] \cup {a}]
        /\ \/ owns' = owns
           \/ /\ owns' = [owns EXCEPT ![c] = owns[c] \cup {a}]
              /\ \A d \in Category \ {c} : a \notin appenders[d]
        /\ UNCHANGED <<stmt, priority, deleted, lock, allowed, written>>
    BY DEF AddReference, AddPointer, Changes
  <1>2. /\ appenders'[c] = appenders[c] \cup {a}
        /\ \A d \in Category : d # c => appenders'[d] = appenders[d] /\ owns'[d] = owns[d]
        /\ \A d \in Category : a \notin owns[d]
        /\ \/ owns'[c] = owns[c]
           \/ /\ owns'[c] = owns[c] \cup {a}
              /\ \A d \in Category \ {c} : a \notin appenders[d]
    BY <1>1 DEF TypeOK, Owned
  <1>3. TypeOK'
    <2>1. appenders' \in [Category -> SUBSET Appender] /\ owns' \in [Category -> SUBSET Appender]
      BY <1>1 DEF TypeOK
    <2> QED BY <1>1, <2>1 DEF TypeOK
  <1>4. Calling'
    <2>1. \A d \in Category : appenders[d] \subseteq appenders'[d]
      BY <1>2
    <2>2. \A t \in Thread : stmt[t].cur \in Category
      BY DEF Statements, Statement
    <2> QED BY <1>1, <2>1, <2>2 DEF Calling
  <1>5. OwnershipSound'
    <2>1. \A d \in Category : owns'[d] \subseteq appenders'[d]
      BY <1>2 DEF OwnershipSound
    <2>2. \A d, e \in Category : owns'[d] \cap owns'[e] # {} => d = e
      <3> SUFFICES ASSUME NEW d \in Category, NEW e \in Category,
                          NEW b \in owns'[d], b \in owns'[e], d # e
                   PROVE  FALSE
        OBVIOUS
      <3>1. CASE b = a
        BY <1>2, <3>1
      <3>2. CASE b # a
        BY <1>2, <3>2 DEF OwnershipSound
      <3> QED BY <3>1, <3>2
    <2>3. (Attached \cap deleted)' = {}
      <3> SUFFICES ASSUME NEW d \in Category, NEW b \in appenders'[d], b \in deleted
                   PROVE  FALSE
        BY <1>1 DEF Attached
      <3>1. b \in appenders[d]
        BY <1>1, <1>2
      <3> QED BY <3>1 DEF OwnershipSound, Attached
    <2> QED BY <2>1, <2>2, <2>3 DEF OwnershipSound
  <1>6. Apart'
    <2> SUFFICES ASSUME NEW d \in Category, NEW e \in Category, d # e,
                        NEW b \in owns'[d], b \in appenders'[e]
                 PROVE  FALSE
      BY DEF Apart
    <2>1. CASE b = a
      BY <1>2, <2>1
    <2>2. CASE b # a
      BY <1>2, <2>2 DEF Apart
    <2> QED BY <2>1, <2>2
  <1> QED BY <1>1, <1>3, <1>4, <1>5, <1>6, AppendersChange

\* What is deleted was attached only to a category that nobody logs to.
LEMMA RemoveStep ==
  ASSUME CategoryInv, NEW c \in Category, RemoveAllAppenders(c)
  PROVE  CategoryInv'
  <1> USE DEF CategoryInv
  <1>1. /\ lock[c] = None
        /\ deleted' = deleted \cup owns[c]
        /\ appenders' = [appenders EXCEPT ![c] = {}]
        /\ owns' = [owns EXCEPT ![c] = {}]
        /\ UNCHANGED <<stmt, priority, lock, allowed, written>>
    BY DEF RemoveAllAppenders, Changes
  <1>2. /\ appenders'[c] = {} /\ owns'[c] = {}
        /\ \A d \in Category : d # c => appenders'[d] = appenders[d] /\ owns'[d] = owns[d]
    BY <1>1 DEF TypeOK
  <1>3. TypeOK'
    <2>1. /\ appenders' \in [Category -> SUBSET Appender]
          /\ owns' \in [Category -> SUBSET Appender] /\ deleted' \subseteq Appender
      BY <1>1 DEF TypeOK
    <2> QED BY <1>1, <2>1 DEF TypeOK
  <1>4. Calling'
    <2> SUFFICES ASSUME NEW t \in Thread, stmt[t].at = "append"
                 PROVE  /\ lock[stmt[t].cur] = t
                        /\ stmt[t].todo \subseteq appenders'[stmt[t].cur]
      BY <1>1 DEF Calling
    <2>1. lock[stmt[t].cur] = t /\ stmt[t].todo \subseteq appenders[stmt[t].cur]
      BY DEF Calling
    <2>2. stmt[t].cur # c /\ stmt[t].cur \in Category
      BY <1>1, <2>1, CategoryAssumption DEF Statements, Statement
    <2> QED BY <1>2, <2>1, <2>2
  <1>5. OwnershipSound'
    <2>1. \A d \in Category : owns'[d] \subseteq appenders'[d]
      BY <1>2 DEF OwnershipSound
    <2>2. \A d, e \in Category : owns'[d] \cap owns'[e] # {} => d = e
      BY <1>2 DEF OwnershipSound
    <2>3. (Attached \cap deleted)' = {}
      <3> SUFFICES ASSUME NEW d \in Category, NEW b \in appenders'[d], b \in deleted'
                   PROVE  FALSE
        BY DEF Attached
      <3>1. d # c /\ b \in appenders[d]
        BY <1>2
      <3>2. b \notin deleted
        BY <3>1 DEF OwnershipSound, Attached
      <3>3. b \notin owns[c]
        BY <3>1 DEF Apart
      <3> QED BY <1>1, <3>2, <3>3
    <2> QED BY <2>1, <2>2, <2>3 DEF OwnershipSound
  <1>6. Apart'
    BY <1>2 DEF Apart
  <1> QED BY <1>1, <1>3, <1>4, <1>5, <1>6, AppendersChange

-----------------------------------------------------------------------------
LEMMA CategoryNext == ASSUME CategoryInv, [Next]_vars PROVE CategoryInv'
  <1>1. ASSUME NEW t \in Thread, NEW form \in Forms, NEW level \in Level,
               NEW c \in Category, Begin(t, form, level, c)
        PROVE  CategoryInv'
    BY <1>1, BeginStep
  <1>2. ASSUME NEW t \in Thread, Step(t) PROVE CategoryInv'
    BY <1>2, ClimbStep, TestStep, OpenStep, InsertStep, FlushStep, LogStep,
       CallStep, AppendStep, AppendedStep DEF Step
  <1>3. ASSUME NEW c \in Category, NEW p \in {Priority(l) : l \in Level} \cup {NOTSET},
               SetPriority(c, p)
        PROVE  CategoryInv'
    BY <1>3, SetPriorityStep
  <1>4. ASSUME NEW c \in Category, NEW a \in Appender,
               AddReference(c, a) \/ AddPointer(c, a)
        PROVE  CategoryInv'
    BY <1>4, AddStep
  <1>5. ASSUME NEW c \in Category, RemoveAllAppenders(c) PROVE CategoryInv'
    BY <1>5, RemoveStep
  <1>6. CASE UNCHANGED vars
    <2> USE DEF CategoryInv
    <2>1. UNCHANGED <<stmt, priority, appenders, owns, deleted, lock, allowed, written>>
      BY <1>6 DEF vars, category
    <2>2. TypeOK' /\ Calling'
      BY <2>1 DEF TypeOK, Calling
    <2>3. OwnershipSound' /\ Apart'
      BY <2>1 DEF OwnershipSound, Apart, Attached
    <2> QED BY <2>1, <2>2, <2>3, AppendersChange
  <1> QED BY <1>1, <1>2, <1>3, <1>4, <1>5, <1>6 DEF Next

LEMMA CategoryIsSound == Spec => []CategoryInv
  BY CategoryInit, CategoryNext, PTL DEF Spec

(***************************************************************************)
(* A CategoryStream decides once whether it collects: what its destructor  *)
(* logs is everything that was streamed in, whatever setPriority did in    *)
(* the meantime.                                                           *)
(***************************************************************************)
THEOREM StreamsAreWhole == Spec => []AllOrNothing
  <1>1. CategoryInv => AllOrNothing
    BY DEF CategoryInv, Written
  <1> QED BY <1>1, CategoryIsSound, PTL

(***************************************************************************)
(* In any hierarchy, and with reads of the priorities that nothing makes   *)
(* consistent, a message is written only if a category on its way had a    *)
(* priority that lets it through at some time during the statement.        *)
(***************************************************************************)
THEOREM WritesAreAllowed == Spec => []WrittenAsAllowed
  <1>1. CategoryInv => WrittenAsAllowed
    BY DEF CategoryInv, Written
  <1> QED BY <1>1, CategoryIsSound, PTL

(***************************************************************************)
(* No appender is called, or attached, after a category deleted it, and    *)
(* none is owned by two.                                                   *)
(***************************************************************************)
THEOREM AppendersAreSound == Spec => []AppendersSound
  <1>1. CategoryInv => AppendersSound
    BY DEF CategoryInv, Written, AppendersSound
  <1> QED BY <1>1, CategoryIsSound, PTL

-----------------------------------------------------------------------------
(***************************************************************************)
(* The chains of validators.  A text that nobody set is none or empty.     *)
(***************************************************************************)
SetOrEmpty ==
  \A n \in Names : storage_[n] \in {"absent", ""} \/ n \in given

ParamsInv == ParamsTypeOK /\ ChainMeansItsList /\ SetOrEmpty

\* What a chain does with a list of questions.
Reading(list) ==
  [n \in Names |->
     IF storage_[n] # "absent" /\ \E k \in DOMAIN list : list[k].name = n
       THEN Assign(n, storage_[n], "default")
       ELSE "default"]

LEMMA ParamsInitially == ParamsInit => ParamsInv
  BY FactoryParamsAssumption
  DEF ParamsInit, ParamsInv, ParamsTypeOK, ChainMeansItsList, Configuring,
      SetOrEmpty, Texts, Question

LEMMA ParamsRequired == ParamsInv => RequiredMeansGiven
  <1>1. SUFFICES ASSUME ParamsInv, Configuring, NEW k \in DOMAIN chain,
                        chain[k].required
                 PROVE  \/ chain[k].name \in given
                        \/ storage_[chain[k].name] = ""
    BY DEF RequiredMeansGiven
  <1>4. chain[k] \in Question
    BY <1>1 DEF ParamsInv, ParamsTypeOK
  <1>2. chain[k].name \in Names
    BY <1>4 DEF Question
  <1>3. storage_[chain[k].name] # "absent"
    BY <1>1 DEF ParamsInv, ChainMeansItsList, Missing
  <1> QED BY <1>1, <1>2, <1>3 DEF ParamsInv, SetOrEmpty

\* Reading the same text once more changes nothing.
LEMMA AssignTwice ==
  ASSUME NEW n, NEW text, NEW old
  PROVE  Assign(n, text, Assign(n, text, old)) = Assign(n, text, old)
  BY DEF Assign

\* One more question.
LEMMA ChainGrows ==
  ASSUME ParamsInv, NEW n \in Names, NEW required \in BOOLEAN,
         Questions(n, required)
  PROVE  /\ Configuring
         /\ chain' \in Seq(Question) /\ Len(chain') = Len(chain) + 1
         /\ Len(chain') <= MaxChain
         /\ DOMAIN chain' = DOMAIN chain \cup {Len(chain')}
         /\ \A k \in DOMAIN chain : chain'[k] = chain[k]
         /\ chain'[Len(chain')].name = n
         /\ chain'[Len(chain')].required = required
         /\ storage_' = storage_ /\ given' = given
  <1> DEFINE q == [name |-> n, required |-> required]
  <1>1. q \in Question
    BY DEF Question
  <1>2. chain \in Seq(Question) /\ Len(chain) \in Nat
    BY DEF ParamsInv, ParamsTypeOK
  <1>3. chain' = Append(chain, q) /\ Len(chain) < MaxChain
    BY DEF Questions
  <1> HIDE DEF q
  <1>4. chain' \in Seq(Question) /\ Len(chain') = Len(chain) + 1
    BY <1>1, <1>2, <1>3
  <1>5. DOMAIN chain' = 1 .. Len(chain) + 1 /\ DOMAIN chain = 1 .. Len(chain)
    BY <1>2, <1>4
  <1>6. \A k \in DOMAIN chain : chain'[k] = chain[k]
    BY <1>1, <1>2, <1>3, <1>5
  <1>7. chain'[Len(chain')].name = n /\ chain'[Len(chain')].required = required
    <2>1. chain'[Len(chain')] = q
      BY <1>1, <1>2, <1>3, <1>4
    <2> QED BY <2>1 DEF q
  <1>8. Len(chain') <= MaxChain
    BY <1>2, <1>3, <1>4, FactoryParamsAssumption
  <1>9. DOMAIN chain' = DOMAIN chain \cup {Len(chain')}
    BY <1>2, <1>4, <1>5
  <1> QED BY <1>4, <1>6, <1>7, <1>8, <1>9 DEF Questions

\* What the variables hold after one more question.
LEMMA ReadingGrows ==
  ASSUME ParamsInv, NEW n \in Names, NEW required \in BOOLEAN,
         Questions(n, required)
  PROVE  \A m \in Names :
           Reading(chain')[m] =
             IF m = n /\ storage_[n] # "absent"
               THEN Assign(n, storage_[n], value[n]) ELSE value[m]
  <1>1. /\ Configuring
        /\ DOMAIN chain' = DOMAIN chain \cup {Len(chain')}
        /\ \A k \in DOMAIN chain : chain'[k] = chain[k]
        /\ chain'[Len(chain')].name = n
        /\ chain'[Len(chain')].required = required
    BY ChainGrows
  <1>2. \A m \in Names : value[m] = Reading(chain)[m]
    BY <1>1 DEF ParamsInv, ChainMeansItsList, Reading
  <1>3. \A m \in Names :
          (\E k \in DOMAIN chain' : chain'[k].name = m) <=>
             m = n \/ \E k \in DOMAIN chain : chain[k].name = m
    BY <1>1
  <1>4. ASSUME NEW m \in Names, m # n
        PROVE  Reading(chain')[m] = value[m]
    BY <1>2, <1>3, <1>4 DEF Reading
  <1>5. Reading(chain')[n] =
          IF storage_[n] # "absent"
            THEN Assign(n, storage_[n], value[n]) ELSE value[n]
    <2>1. Reading(chain')[n] = IF storage_[n] # "absent"
                                 THEN Assign(n, storage_[n], "default")
                                 ELSE "default"
      BY <1>3 DEF Reading
    <2> HIDE DEF Assign
    <2>2. \/ value[n] = "default"
          \/ value[n] = Assign(n, storage_[n], "default")
      BY <1>2 DEF Reading
    <2>3. storage_[n] = "absent" => value[n] = "default"
      BY <1>2 DEF Reading
    <2> QED BY <2>1, <2>2, <2>3, AssignTwice
  <1> QED BY <1>4, <1>5

\* The types of the variables the factory reads into.
LEMMA ReadsType ==
  ASSUME ParamsInv, NEW n \in Names, storage_[n] # "absent", Reads(n)
  PROVE  /\ value' \in [Names -> Texts \cup {"default", "zero"}]
         /\ \A m \in Numeric : value'[m] \in {"number", "default", "zero"}
         /\ \A m \in Names :
              value'[m] = IF m = n THEN Assign(n, storage_[n], value[n])
                          ELSE value[m]
  <1>1. /\ value \in [Names -> Texts \cup {"default", "zero"}]
        /\ \A m \in Numeric : value[m] \in {"number", "default", "zero"}
        /\ storage_[n] \in Texts
    BY DEF ParamsInv, ParamsTypeOK
  <1>2. /\ Assign(n, storage_[n], value[n]) \in Texts \cup {"default", "zero"}
        /\ n \in Numeric =>
             Assign(n, storage_[n], value[n]) \in {"number", "default", "zero"}
    BY <1>1 DEF Assign, Texts
  <1> HIDE DEF Assign
  <1> QED BY <1>1, <1>2, FactoryParamsAssumption DEF Reads

\* The list that was missing nothing misses the new question if its parameter
\* is not there.
LEMMA MissingGrows ==
  ASSUME ParamsInv, NEW n \in Names, NEW required \in BOOLEAN,
         Questions(n, required)
  PROVE  Missing' = IF required /\ storage_[n] = "absent"
                      THEN {Len(chain')} ELSE {}
  <1>1. /\ Configuring
        /\ DOMAIN chain' = DOMAIN chain \cup {Len(chain')}
        /\ \A k \in DOMAIN chain : chain'[k] = chain[k]
        /\ chain'[Len(chain')].name = n
        /\ chain'[Len(chain')].required = required
        /\ storage_' = storage_
    BY ChainGrows
  <1>2. \A k \in DOMAIN chain :
          ~(chain[k].required /\ storage_[chain[k].name] = "absent")
    BY <1>1 DEF ParamsInv, ChainMeansItsList, Missing
  <1>3. \A k : k \in Missing' <=>
          k = Len(chain') /\ required /\ storage_[n] = "absent"
    BY <1>1, <1>2 DEF Missing
  <1> QED BY <1>3

\* A question that is answered, or that may go unanswered.
LEMMA Answered ==
  ASSUME ParamsInv, NEW n \in Names, NEW required \in BOOLEAN,
         Questions(n, required), validator' \in {"required", "optional"},
         required => storage_[n] # "absent",
         IF storage_[n] # "absent" THEN Reads(n) ELSE UNCHANGED value
  PROVE  ParamsInv'
  <1>1. /\ chain' \in Seq(Question) /\ Len(chain') <= MaxChain
        /\ storage_' = storage_ /\ given' = given
    BY ChainGrows
  <1>2. /\ value' \in [Names -> Texts \cup {"default", "zero"}]
        /\ \A m \in Numeric : value'[m] \in {"number", "default", "zero"}
        /\ \A m \in Names : value'[m] =
             IF m = n /\ storage_[n] # "absent"
               THEN Assign(n, storage_[n], value[n]) ELSE value[m]
    BY ReadsType DEF ParamsInv, ParamsTypeOK
  <1>3. ParamsTypeOK' /\ SetOrEmpty'
    BY <1>1, <1>2 DEF ParamsInv, ParamsTypeOK, SetOrEmpty
  <1>4. \A m \in Names : value'[m] = Reading(chain')[m]
    BY <1>2, ReadingGrows
  <1>5. Missing' = {} /\ Configuring'
    BY MissingGrows DEF Configuring
  <1>6. ChainMeansItsList'
    BY <1>1, <1>4, <1>5 DEF ChainMeansItsList, Reading, Assign
  <1> QED BY <1>3, <1>6 DEF ParamsInv

\* A required parameter that is missing.
LEMMA Throws ==
  ASSUME ParamsInv, NEW n \in Names, Questions(n, TRUE),
         storage_[n] = "absent", validator' = "thrown", UNCHANGED value
  PROVE  ParamsInv'
  <1>1. /\ chain' \in Seq(Question) /\ Len(chain') <= MaxChain
        /\ storage_' = storage_ /\ given' = given
    BY ChainGrows
  <1>2. ParamsTypeOK' /\ SetOrEmpty'
    BY <1>1 DEF ParamsInv, ParamsTypeOK, SetOrEmpty
  <1>3. \A m \in Names : value'[m] = Reading(chain')[m]
    BY ReadingGrows
  <1>4. Missing' = {Len(chain')} /\ ~Configuring'
    BY MissingGrows DEF Configuring
  <1>5. ChainMeansItsList'
    BY <1>1, <1>3, <1>4 DEF ChainMeansItsList, Reading, Assign
  <1> QED BY <1>2, <1>5 DEF ParamsInv

LEMMA ParamsStep == ParamsInv /\ [ParamsNext]_paramsVars => ParamsInv'
  <1> SUFFICES ASSUME ParamsInv, [ParamsNext]_paramsVars PROVE ParamsInv'
    OBVIOUS
  <1>1. ASSUME NEW n \in Names, NEW text \in Texts, SetParam(n, text)
        PROVE  ParamsInv'
    BY <1>1 DEF SetParam, ParamsInv, ParamsTypeOK, ChainMeansItsList,
                Configuring, SetOrEmpty
  <1>2. ASSUME NEW n \in Names, LookAt(n)
        PROVE  ParamsInv'
    BY <1>2 DEF LookAt, ParamsInv, ParamsTypeOK, ChainMeansItsList,
                Configuring, SetOrEmpty, Texts
  <1>3. ASSUME NEW n \in Names, Required(n)
        PROVE  ParamsInv'
    <2>1. CASE storage_[n] # "absent"
      BY <1>3, <2>1, Answered DEF Required
    <2>2. CASE storage_[n] = "absent"
      BY <1>3, <2>2, Throws DEF Required
    <2> QED BY <2>1, <2>2
  <1>4. ASSUME NEW n \in Names, Optional(n)
        PROVE  ParamsInv'
    BY <1>4, Answered DEF Optional
  <1>5. CASE get_for
    <2>2. chain' = <<>> /\ value' = [n \in Names |-> "default"] /\ Configuring'
      BY <1>5 DEF get_for, Configuring
    <2>6. chain' \in Seq(Question) /\ Len(chain') <= MaxChain
      BY <2>2, FactoryParamsAssumption
    <2>1. ParamsTypeOK' /\ SetOrEmpty'
      BY <1>5, <2>6, FactoryParamsAssumption
      DEF get_for, ParamsInv, ParamsTypeOK, SetOrEmpty
    <2>3. DOMAIN chain' = {}
      BY <2>2
    <2>4. Missing' = {}
      BY <2>3 DEF Missing
    <2>5. ChainMeansItsList'
      BY <2>2, <2>3, <2>4 DEF ChainMeansItsList
    <2> QED BY <2>1, <2>5 DEF ParamsInv
  <1>6. CASE Configured
    BY <1>6 DEF Configured, ParamsInv, ParamsTypeOK, ChainMeansItsList,
                Configuring, SetOrEmpty
  <1>7. CASE UNCHANGED paramsVars
    BY <1>7 DEF paramsVars, ParamsInv, ParamsTypeOK, ChainMeansItsList,
                Configuring, SetOrEmpty, Missing
  <1> QED BY <1>1, <1>2, <1>3, <1>4, <1>5, <1>6, <1>7 DEF ParamsNext

(***************************************************************************)
(* Whatever kinds of validators a chain is made of, and whatever text each *)
(* parameter has, it throws at the first required parameter that is        *)
(* missing and nowhere else, has assigned exactly what it was asked for    *)
(* before, and lets no required parameter pass that nobody set or looked   *)
(* at.                                                                     *)
(***************************************************************************)
THEOREM ParametersAreSound == ParamsSpec => []ConfiguredAsGiven
  <1>1. ParamsInv => ConfiguredAsGiven
    BY ParamsRequired DEF ParamsInv, ConfiguredAsGiven
  <1> QED BY <1>1, ParamsInitially, ParamsStep, PTL DEF ParamsSpec
=============================================================================
