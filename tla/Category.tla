------------------------------ MODULE Category ------------------------------
(***************************************************************************)
(* A log statement's way through log4cpp: the inline tests and streams of  *)
(* Category.hh and CategoryStream.hh, reached by a call (as CLogger's), by *)
(* a stream, or by either behind the test a macro of convenience.h puts in *)
(* front.  Any thread makes statements while others change priorities and  *)
(* appenders: priorities are volatile and unlocked, the set of appenders   *)
(* has a mutex.                                                            *)
(*                                                                         *)
(* External, the bodies that are in the library: the walk up the hierarchy *)
(* that isPriorityEnabled makes, callAppenders, adding and removing.  Data:*)
(* a message is the number of pieces streamed into it; every category is   *)
(* additive.                                                               *)
(***************************************************************************)
EXTENDS Naturals, FiniteSets

CONSTANTS
    Thread,
    Category, Root, Parent,  \* the hierarchy: the parent of all but Root
    Appender,
    Level,                   \* the levels the statements use
    Piece,                   \* how many pieces a stream statement inserts
    None,                    \* no thread
    MaxStatements, MaxChanges   \* bounds

(* The priorities that is...Enabled() and ...Stream() of a level pass on.  *)
Common == [DEBUG |-> 700, INFO |-> 600, NOTICE |-> 500, WARN |-> 400,
           ERROR |-> 300]

Grave == [CRIT |-> 200, ALERT |-> 100, EMERG |-> 0, FATAL |-> 0]

Priority(level) ==
    IF level \in DOMAIN Common THEN Common[level] ELSE Grave[level]

NOTSET == 800

ASSUME CategoryAssumption ==
    /\ Root \in Category
    /\ Parent \in [Category \ {Root} -> Category]
    /\ Level \subseteq DOMAIN Common \cup DOMAIN Grave
    /\ None \notin Thread
    /\ Piece \in Nat \ {0}
    /\ MaxStatements \in Nat /\ MaxChanges \in Nat

VARIABLES
    priority,    \* _priority of each category
    appenders,   \* _appender of each category
    owns,        \* _ownsAppender of each category
    lock,        \* _appenderSetMutex of each category: the owner
    deleted,     \* the appenders deleted
    stmt,        \* the statement each thread is in
    statements, changes,   \* how many were begun
    allowed,     \* history: threads whose level was set during the statement
    written      \* history: what reached an appender

category == <<priority, appenders, owns, deleted>>
vars == <<category, lock, stmt, statements, changes, allowed, written>>

-----------------------------------------------------------------------------
(***************************************************************************)
(* A statement: how it is written, its level and category, the step it is  *)
(* at and the category that step looks at; the stream's own priority and   *)
(* buffer, the pieces it has been given; the appenders left to call.       *)
(***************************************************************************)
Idle == [form |-> "none", level |-> None, on |-> Root, at |-> "idle",
         cur |-> Root, stream |-> NOTSET, given |-> 0, buffer |-> 0,
         todo |-> {}]

(* LOG4CPP_X(logger, msg), logger.x(msg), LOG4CPP_X_S(logger) << ..., and   *)
(* logger.xStream() << ...                                                 *)
Forms == {"call", "stream", "macro", "macro_stream"}
Streams(form) == form \in {"stream", "macro_stream"}

(* What follows the test of the macro, and a statement without one.        *)
Body(form) == IF Streams(form) THEN "open" ELSE "log"
Entry(form) ==
    IF form \in {"macro", "macro_stream"} THEN "test" ELSE Body(form)

Busy == {t \in Thread : stmt[t] # Idle}

(* The category and those above it: with each one, its parent.             *)
Above(c) ==
    {d \in Category :
        \A S \in SUBSET Category :
            c \in S /\ (\A e \in S \ {Root} : Parent[e] \in S) => d \in S}

SetFor(c, level, prio) ==
    \E d \in Above(c) : prio[d] # NOTSET /\ prio[d] >= Priority(level)

Init ==
    /\ priority = [c \in Category |-> IF c = Root THEN Priority("INFO")
                                                  ELSE NOTSET]
    /\ appenders = [c \in Category |-> {}]
    /\ owns = [c \in Category |-> {}]
    /\ lock = [c \in Category |-> None]
    /\ deleted = {}
    /\ stmt = [t \in Thread |-> Idle]
    /\ statements = 0 /\ changes = 0
    /\ allowed = {}
    /\ written = {}

Begin(t, form, level, c) ==
    /\ t \notin Busy
    /\ statements < MaxStatements
    /\ statements' = statements + 1
    /\ stmt' = [stmt EXCEPT ![t] =
                  [Idle EXCEPT !.form = form, !.level = level, !.on = c,
                               !.cur = c, !.at = Entry(form)]]
    /\ allowed' = IF SetFor(c, level, priority) THEN allowed \cup {t}
                                                ELSE allowed \ {t}
    /\ UNCHANGED <<category, lock, changes, written>>

-----------------------------------------------------------------------------
(***************************************************************************)
(* isPriorityEnabled, at each of the three places that ask: it looks for   *)
(* the first category above that has a priority, reading one at a time.    *)
(* Above the root there is none, and no answer.                            *)
(***************************************************************************)
Asking == {"test", "open", "log"}

Climb(t) ==
    /\ stmt[t].at \in Asking
    /\ priority[stmt[t].cur] = NOTSET
    /\ stmt[t].cur # Root
    /\ stmt' = [stmt EXCEPT ![t].cur = Parent[@]]
    /\ UNCHANGED <<category, lock, statements, changes, allowed, written>>

(* The answer of the category at which the walk has stopped.               *)
Answers(t, yes) ==
    /\ priority[stmt[t].cur] # NOTSET
    /\ yes = (priority[stmt[t].cur] >= Priority(stmt[t].level))

Goes(t, new) ==
    /\ stmt' = [stmt EXCEPT ![t] = new]
    /\ UNCHANGED <<category, lock, statements, changes, allowed, written>>

(* if (logger.isXEnabled()) ...                                            *)
Test(t) ==
    /\ stmt[t].at = "test"
    /\ \E yes \in BOOLEAN :
          /\ Answers(t, yes)
          /\ Goes(t, IF yes THEN [stmt[t] EXCEPT !.at = Body(stmt[t].form),
                                                 !.cur = stmt[t].on]
                            ELSE Idle)

(* xStream(), that is getStream(X): a stream of that priority, or of       *)
(* NOTSET, which discards what is streamed in.                             *)
Open(t) ==
    /\ stmt[t].at = "open"
    /\ \E yes \in BOOLEAN :
          /\ Answers(t, yes)
          /\ Goes(t, [stmt[t] EXCEPT
                        !.at = "insert", !.cur = stmt[t].on,
                        !.stream = IF yes THEN Priority(stmt[t].level)
                                          ELSE NOTSET])

\* Mutant: the category is asked again for every piece.
InsertIfEnabled(t) ==
    /\ stmt[t].at = "insert"
    /\ stmt[t].given < Piece
    /\ Goes(t, [stmt[t] EXCEPT
                  !.given = @ + 1,
                  !.buffer = IF SetFor(stmt[t].on, stmt[t].level, priority)
                             THEN @ + 1 ELSE @])

(* operator<<: one piece goes into the buffer unless the stream discards.  *)
Insert(t) ==
    /\ stmt[t].at = "insert"
    /\ stmt[t].given < Piece
    /\ Goes(t, [stmt[t] EXCEPT
                  !.given = @ + 1,
                  !.buffer = IF stmt[t].stream # NOTSET THEN @ + 1 ELSE @])

(* ~CategoryStream, at the end of the statement: what is in the buffer is  *)
(* logged with the stream's priority.                                      *)
Flush(t) ==
    /\ stmt[t].at = "insert"
    /\ stmt[t].given = Piece
    /\ Goes(t, IF stmt[t].buffer > 0 THEN [stmt[t] EXCEPT !.at = "log"]
                                     ELSE Idle)

\* Mutant: a stream's text is logged whether or not the level is enabled.
LogUnasked(t) ==
    /\ stmt[t].at = "log"
    /\ Goes(t, [stmt[t] EXCEPT !.at = "call", !.cur = stmt[t].on])

(* debug(msg), log(priority, msg): the level is looked at again.           *)
Log(t) ==
    /\ stmt[t].at = "log"
    /\ \E yes \in BOOLEAN :
          /\ Answers(t, yes)
          /\ Goes(t, IF yes THEN [stmt[t] EXCEPT !.at = "call",
                                                 !.cur = stmt[t].on]
                            ELSE Idle)

-----------------------------------------------------------------------------
(***************************************************************************)
(* callAppenders: under the category's mutex its appenders are called one  *)
(* by one, then those of its parent.                                       *)
(***************************************************************************)
\* Mutant: the appenders are called without the mutex.
CallUnlocked(t) ==
    /\ stmt[t].at = "call"
    /\ stmt' = [stmt EXCEPT ![t].at = "append",
                            ![t].todo = appenders[stmt[t].cur]]
    /\ UNCHANGED <<category, lock, statements, changes, allowed, written>>

CallAppenders(t) ==
    /\ stmt[t].at = "call"
    /\ lock[stmt[t].cur] = None
    /\ lock' = [lock EXCEPT ![stmt[t].cur] = t]
    /\ stmt' = [stmt EXCEPT ![t].at = "append",
                            ![t].todo = appenders[stmt[t].cur]]
    /\ UNCHANGED <<category, statements, changes, allowed, written>>

doAppend(t, a) ==
    /\ stmt[t].at = "append"
    /\ a \in stmt[t].todo
    /\ stmt' = [stmt EXCEPT ![t].todo = @ \ {a}]
    /\ written' = written \cup
          {[whole |-> Streams(stmt[t].form) => stmt[t].buffer = Piece,
            allowed |-> t \in allowed,
            live |-> a \notin deleted]}
    /\ UNCHANGED <<category, lock, statements, changes, allowed>>

Appended(t) ==
    /\ stmt[t].at = "append"
    /\ stmt[t].todo = {}
    /\ lock' = [lock EXCEPT ![stmt[t].cur] = None]
    /\ stmt' = [stmt EXCEPT ![t] =
                  IF @.cur = Root THEN Idle
                  ELSE [@ EXCEPT !.at = "call", !.cur = Parent[stmt[t].cur]]]
    /\ UNCHANGED <<category, statements, changes, allowed, written>>

-----------------------------------------------------------------------------
(***************************************************************************)
(* What a program does to the categories meanwhile.                        *)
(***************************************************************************)
Changes ==
    /\ changes < MaxChanges
    /\ changes' = changes + 1
    /\ UNCHANGED <<stmt, statements, written>>

\* Mutant: the root may lose its priority.
SetAnyPriority(c, p) ==
    /\ Changes
    /\ priority' = [priority EXCEPT ![c] = p]
    /\ UNCHANGED <<appenders, owns, deleted, lock, allowed>>

(* setPriority: throws for NOTSET on the root.                             *)
SetPriority(c, p) ==
    /\ Changes
    /\ c = Root => p # NOTSET
    /\ priority' = [priority EXCEPT ![c] = p]
    /\ allowed' = allowed \cup
          {t \in Busy : SetFor(stmt[t].on, stmt[t].level, priority')}
    /\ UNCHANGED <<appenders, owns, deleted, lock>>

Attached == UNION {appenders[c] : c \in Category}
Owned == UNION {owns[c] : c \in Category}

(* addAppender(Appender&), and setAppender(Appender&), which calls it: an  *)
(* appender the caller owns and keeps.                                     *)
AddReference(c, a) ==
    /\ Changes
    /\ lock[c] = None
    /\ a \notin deleted \cup Owned
    /\ appenders' = [appenders EXCEPT ![c] = @ \cup {a}]
    /\ UNCHANGED <<priority, owns, deleted, lock, allowed>>

(* addAppender(Appender* ), and setAppender of a pointer that is not NULL: *)
(* the category owns the appender from now on.  The caller passes what it  *)
(* owns and has attached nowhere else.                                     *)
AddPointer(c, a) ==
    /\ Changes
    /\ lock[c] = None
    /\ a \notin deleted \cup Owned
    /\ \A d \in Category \ {c} : a \notin appenders[d]
    /\ appenders' = [appenders EXCEPT ![c] = @ \cup {a}]
    /\ owns' = [owns EXCEPT ![c] = @ \cup {a}]
    /\ UNCHANGED <<priority, deleted, lock, allowed>>

(* removeAllAppenders, and setAppender(NULL): those it owns are deleted.   *)
RemoveAllAppenders(c) ==
    /\ Changes
    /\ lock[c] = None
    /\ deleted' = deleted \cup owns[c]
    /\ appenders' = [appenders EXCEPT ![c] = {}]
    /\ owns' = [owns EXCEPT ![c] = {}]
    /\ UNCHANGED <<priority, lock, allowed>>

Step(t) ==
    \/ Climb(t) \/ Test(t) \/ Open(t) \/ Insert(t) \/ Flush(t) \/ Log(t)
    \/ CallAppenders(t) \/ Appended(t)
    \/ \E a \in Appender : doAppend(t, a)

Next ==
    \/ \E t \in Thread :
          \/ \E form \in Forms, level \in Level, c \in Category :
                Begin(t, form, level, c)
          \/ Step(t)
    \/ \E c \in Category :
          \/ \E p \in {Priority(l) : l \in Level} \cup {NOTSET} :
                SetPriority(c, p)
          \/ \E a \in Appender : AddReference(c, a) \/ AddPointer(c, a)
          \/ RemoveAllAppenders(c)

Spec == Init /\ [][Next]_vars

(* Every thread goes on with the statement it is in.                       *)
FairSpec == Spec /\ \A t \in Thread : WF_vars(Step(t))

-----------------------------------------------------------------------------

TypeOK ==
    /\ priority \in [Category -> {Priority(l) : l \in Level} \cup
                                 {Priority("INFO"), NOTSET}]
    /\ appenders \in [Category -> SUBSET Appender]
    /\ owns \in [Category -> SUBSET Appender]
    /\ lock \in [Category -> Thread \cup {None}]
    /\ deleted \subseteq Appender
    /\ \A t \in Thread : /\ stmt[t].cur \in Category
                         /\ stmt[t].given \in 0..Piece
                         /\ stmt[t].buffer \in 0..Piece
                         /\ stmt[t].todo \subseteq Appender

(* What a stream statement writes is all it was given or nothing, however  *)
(* often the priorities change between its pieces: the stream decides once,*)
(* when it is made.                                                        *)
AllOrNothing == \A w \in written : w.whole

(* A message is written only if its category, or one above, had a priority *)
(* that lets it through at some time while the statement ran - although    *)
(* the level is looked at up to three times, by reads of one category at a *)
(* time that nothing makes consistent.                                     *)
WrittenAsAllowed == \A w \in written : w.allowed

(* No appender is called after its category deleted it, on whatever thread *)
(* the appenders are removed: the mutex outlasts the calls.                *)
NoCallAfterDelete == \A w \in written : w.live

(* A category owns only what is attached to it, no two own the same, and   *)
(* nothing that was deleted is still attached anywhere.                    *)
OwnershipSound ==
    /\ \A c \in Category : owns[c] \subseteq appenders[c]
    /\ \A c, d \in Category : owns[c] \cap owns[d] # {} => c = d
    /\ Attached \cap deleted = {}

(* An appender that is called, or attached, is one that exists.            *)
AppendersSound == TypeOK /\ NoCallAfterDelete /\ OwnershipSound

(* Every statement ends: the walk up finds a priority at the root at the   *)
(* latest, and the mutexes are given back.                                 *)
StatementEnds == \A t \in Thread : t \in Busy ~> t \notin Busy
=============================================================================
