------------------------------- MODULE Logger -------------------------------
(***************************************************************************)
(* CLogger (Logger.hpp): every factory and every profiler has one as a     *)
(* member; its constructor sets log4cpp up unless a static flag says that  *)
(* this was done, and Shutdown, called when a profiler is destroyed, takes *)
(* it down.  Any thread may run either, and nothing guards the statics.    *)
(*                                                                         *)
(* External: log4cpp's root category, which writes to the appenders        *)
(* attached to it, and whose calls may throw.  An appender is attached by  *)
(* reference: the category never deletes it, and its file stays open.      *)
(* Data: an appender is the number of its creation, and a message is its   *)
(* level.                                                                  *)
(***************************************************************************)
EXTENDS Naturals, FiniteSets

CONSTANTS
  Threads,
  DebugBuild,    \* whether _DEBUG is defined
  MaxFailures,   \* bound: set-ups that throw
  MaxProfilers   \* bound: profilers that exist at once

ASSUME LoggerAssumption ==
  /\ IsFiniteSet(Threads)
  /\ DebugBuild \in BOOLEAN
  /\ MaxFailures \in Nat /\ MaxProfilers \in Nat

VARIABLES
  isLoggerInitialized,
  m_FileAppender,  \* the appender last created; 0: NULL
  appenders,       \* what is attached to the root category
  formatted,       \* the appenders that were given the pattern layout
  priority,        \* the root category's priority
  profilers,       \* profilers whose logger was constructed
  pc,              \* each thread's step, and whether it makes a profiler
  created,         \* history: appenders created
  failed,          \* history: set-ups that threw
  shut,            \* history: Shutdown ran since the last set-up succeeded
  raced,           \* history: set-ups that began while another was running
  overlapped,      \* history: a set-up ran beside another or beside Shutdown
  written          \* history: the lines written, as <<asked for, in pattern>>

vars == <<isLoggerInitialized, m_FileAppender, appenders, formatted, priority,
          profilers, pc, created, failed, shut, raced, overlapped, written>>

category == <<m_FileAppender, appenders, formatted, priority>>
history == <<created, failed, shut, raced, overlapped, written>>

DEBUG == 700
INFO == 600
WARN == 400
ERROR == 300

LOGGING_PRIORITY == IF DebugBuild THEN DEBUG ELSE WARN

Steps == {"category", "layout", "set_layout", "priority", "attach",
          "succeeded", "threw"}
At(step, profiler) == [at |-> step, profiler |-> profiler]
Idle == At("idle", FALSE)
MakingProfilers == {t \in Threads : pc[t].profiler}
SettingUp == {t \in Threads : pc[t].at \in Steps}

TypeOK ==
  /\ isLoggerInitialized \in BOOLEAN
  /\ m_FileAppender \in 0 .. created
  /\ appenders \subseteq 1 .. created
  /\ formatted \subseteq 1 .. created
  /\ priority \in {INFO, LOGGING_PRIORITY}
  /\ profilers \in 0 .. MaxProfilers
  /\ pc \in [Threads -> [at : Steps \cup {"idle", "test", "done"},
                         profiler : BOOLEAN]]
  /\ created \in Nat /\ failed \in 0 .. MaxFailures
  /\ shut \in BOOLEAN /\ overlapped \in BOOLEAN
  /\ raced \in Nat
  /\ written \subseteq BOOLEAN \X BOOLEAN

Init ==
  /\ isLoggerInitialized = FALSE
  /\ m_FileAppender = 0
  /\ appenders = {} /\ formatted = {}
  /\ priority = INFO
  /\ profilers = 0
  /\ pc = [t \in Threads |-> Idle]
  /\ created = 0 /\ failed = 0
  /\ shut = FALSE /\ overlapped = FALSE
  /\ raced = 0 /\ written = {}

Goes(t, step) == pc' = [pc EXCEPT ![t].at = step]

\* External, Category::info and its like: a message of at most the category's
\* priority goes to every appender, in the pattern of those that have one.
Logs(level) ==
  IF level <= priority
  THEN {<<level <= LOGGING_PRIORITY, a \in formatted>> : a \in appenders}
  ELSE {}

-----------------------------------------------------------------------------
(***************************************************************************)
(* CLogger::CLogger.                                                       *)
(***************************************************************************)
CLogger(t, profiler) ==
  /\ pc[t] = Idle
  /\ profiler => profilers + Cardinality(MakingProfilers) < MaxProfilers
  /\ pc' = [pc EXCEPT ![t] = At("test", profiler)]
  /\ UNCHANGED <<history, category, isLoggerInitialized, profilers>>

Begins(t) ==
  /\ Goes(t, "category")
  /\ overlapped' = (overlapped \/ SettingUp # {})
  /\ raced' = IF SettingUp # {} THEN raced + 1 ELSE raced

\* Mutant: the flag is not tested.
NoTest(t) ==
  /\ pc[t].at = "test"
  /\ Begins(t)
  /\ UNCHANGED <<category, isLoggerInitialized, profilers, created, failed,
                 shut, written>>

TestFlag(t) ==
  /\ pc[t].at = "test"
  /\ IF isLoggerInitialized
       THEN Goes(t, "done") /\ UNCHANGED <<overlapped, raced>>
       ELSE Begins(t)
  /\ UNCHANGED <<category, isLoggerInitialized, profilers, created, failed,
                 shut, written>>

\* Mutant: the appender is kept in a local variable.
NewAppenderNotKept(t) ==
  /\ pc[t].at = "category"
  /\ created' = created + 1
  /\ Goes(t, "layout")
  /\ UNCHANGED <<category, isLoggerInitialized, profilers, failed, shut, raced,
                 overlapped, written>>

NewAppender(t) ==
  /\ pc[t].at = "category"
  /\ created' = created + 1
  /\ m_FileAppender' = created'
  /\ Goes(t, "layout")
  /\ UNCHANGED <<isLoggerInitialized, appenders, formatted, priority,
                 profilers, failed, shut, raced, overlapped, written>>

NewLayout(t) ==
  /\ pc[t].at = "layout"
  /\ Goes(t, "set_layout")
  /\ UNCHANGED <<history, category, isLoggerInitialized, profilers>>

\* This step and the next go through the static, which by now may hold the
\* appender of another thread.
SetLayout(t) ==
  /\ pc[t].at = "set_layout"
  /\ formatted' = formatted \cup {m_FileAppender}
  /\ Goes(t, "priority")
  /\ UNCHANGED <<history, isLoggerInitialized, m_FileAppender, appenders,
                 priority, profilers>>

\* Mutant: the priority is left as it is.
NoPriority(t) ==
  /\ pc[t].at = "priority"
  /\ Goes(t, "attach")
  /\ UNCHANGED <<history, category, isLoggerInitialized, profilers>>

SetPriority(t) ==
  /\ pc[t].at = "priority"
  /\ priority' = LOGGING_PRIORITY
  /\ Goes(t, "attach")
  /\ UNCHANGED <<history, isLoggerInitialized, m_FileAppender, appenders,
                 formatted, profilers>>

AddAppender(t) ==
  /\ pc[t].at = "attach"
  /\ appenders' = appenders \cup {m_FileAppender}
  /\ Goes(t, "succeeded")
  /\ UNCHANGED <<history, isLoggerInitialized, m_FileAppender, formatted,
                 priority, profilers>>

\* An exception leaves what was created and assigned so far.
Throws(t) ==
  /\ pc[t].at \in {"category", "layout", "set_layout", "priority", "attach"}
  /\ failed < MaxFailures
  /\ failed' = failed + 1
  /\ Goes(t, "threw")
  /\ UNCHANGED <<category, isLoggerInitialized, profilers, created, shut,
                 raced, overlapped, written>>

\* Mutant: the flag is set whether or not the set-up succeeded.
SetFlagAnyway(t) ==
  /\ pc[t].at \in {"succeeded", "threw"}
  /\ isLoggerInitialized' = TRUE
  /\ shut' = FALSE
  /\ Goes(t, "done")
  /\ UNCHANGED <<category, profilers, created, failed, raced, overlapped,
                 written>>

SetFlag(t) ==
  /\ pc[t].at \in {"succeeded", "threw"}
  /\ isLoggerInitialized' = (pc[t].at = "succeeded")
  /\ shut' = (shut /\ pc[t].at = "threw")
  /\ written' = written \cup Logs(INFO)
  /\ Goes(t, "done")
  /\ UNCHANGED <<category, profilers, created, failed, raced, overlapped>>

Constructed(t) ==
  /\ pc[t].at = "done"
  /\ profilers' = IF pc[t].profiler THEN profilers + 1 ELSE profilers
  /\ pc' = [pc EXCEPT ![t] = Idle]
  /\ UNCHANGED <<history, category, isLoggerInitialized>>

-----------------------------------------------------------------------------
(***************************************************************************)
(* Shutdown, when a profiler is gone: it removes all appenders and leaves  *)
(* the flag as it is, whatever other objects still have a logger.          *)
(***************************************************************************)
Shutdown(t) ==
  /\ pc[t] = Idle
  /\ profilers > 0
  /\ profilers' = profilers - 1
  /\ appenders' = {}
  /\ shut' = TRUE
  /\ overlapped' = (overlapped \/ SettingUp # {})
  /\ written' = written \cup Logs(INFO)
  /\ UNCHANGED <<isLoggerInitialized, m_FileAppender, formatted, priority, pc,
                 created, failed, raced>>

\* A profiler that CreateInstance deletes goes without a Shutdown.
Discarded ==
  /\ profilers > 0
  /\ profilers' = profilers - 1
  /\ UNCHANGED <<history, category, isLoggerInitialized, pc>>

(***************************************************************************)
(* Info, Warn, Debug and Error: any object that has a logger, on any       *)
(* thread, at any time.                                                    *)
(***************************************************************************)
Says(level) ==
  /\ written' = written \cup Logs(level)
  /\ UNCHANGED <<category, isLoggerInitialized, profilers, pc, created, failed,
                 shut, raced, overlapped>>

Info == Says(INFO)
Warn == Says(WARN)
Debug == Says(DEBUG)
Error == Says(ERROR)

Step(t) ==
  \/ TestFlag(t) \/ NewAppender(t) \/ NewLayout(t) \/ SetLayout(t)
  \/ SetPriority(t) \/ AddAppender(t) \/ Throws(t) \/ SetFlag(t) \/ Constructed(t)

Next ==
  \/ \E t \in Threads : \/ \E profiler \in BOOLEAN : CLogger(t, profiler)
                        \/ Shutdown(t)
                        \/ Step(t)
  \/ Discarded
  \/ Info \/ Warn \/ Debug \/ Error

Spec == Init /\ [][Next]_vars

-----------------------------------------------------------------------------
(***************************************************************************)
(* Properties.                                                             *)
(***************************************************************************)

(***************************************************************************)
(* As long as set-ups run alone, the flag means that the category writes   *)
(* to exactly one file, in the pattern asked for, until the first Shutdown *)
(* - and from then on to none, whoever is constructed later.               *)
(***************************************************************************)
FlagMeansLogging ==
  ~overlapped /\ isLoggerInitialized =>
    /\ appenders = IF shut THEN {} ELSE {m_FileAppender}
    /\ m_FileAppender \in formatted

(***************************************************************************)
(* Every appender (and its open file) beyond the first is due to a set-up  *)
(* that threw or to one that began while another was running, and as many  *)
(* write at once as raced.  A thrown set-up that stores FALSE over the     *)
(* TRUE of one beside it cannot add more: the one that follows it is paid  *)
(* for by the failure, and the second file by the race.                    *)
(***************************************************************************)
OneFilePerSetUp ==
  /\ created <= 1 + failed + raced
  /\ Cardinality(appenders) <= 1 + raced

(***************************************************************************)
(* Whoever logs when, on whatever thread and beside whatever set-up,       *)
(* nothing above the build's priority is written, since the priority is    *)
(* set before the first appender is attached; and as long as set-ups run   *)
(* alone every line is in the pattern.                                     *)
(***************************************************************************)
WrittenAsConfigured ==
  \A line \in written : /\ line[1]
                        /\ ~overlapped => line[2]

(***************************************************************************)
(* "guarantee constructor code will run only once": a second appender is   *)
(* created only after a set-up that threw.                                 *)
(***************************************************************************)
RunsOnlyOnce == created <= failed + 1
=============================================================================
