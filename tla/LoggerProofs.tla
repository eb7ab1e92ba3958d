---------------------------- MODULE LoggerProofs ----------------------------
(***************************************************************************)
(* The logger's statics, for any number of threads and profilers.  The     *)
(* invariant keeps an account of the appenders (Paid): a set-up that did   *)
(* not race began with the flag FALSE, so that it is the first one or a    *)
(* set-up before it threw.  Besides, it says what a set-up that runs alone *)
(* has done so far (Alone), and that the priority is set before the first  *)
(* appender is attached (Configured).                                      *)
(*                                                                         *)
(* The last part is about where the log file goes (LogFile), for paths,    *)
(* buffers and a size_t of any size.                                       *)
(***************************************************************************)
EXTENDS Logger, LogFile, FiniteSetTheorems, WellFoundedInduction, TLAPS

Making == profilers + Cardinality(MakingProfilers) <= MaxProfilers

Creating ==
  /\ m_FileAppender = 0 <=> created = 0
  /\ \A t \in Threads :
       pc[t].at \in {"layout", "set_layout", "priority", "attach"} => created > 0

Threw == {t \in Threads : pc[t].at = "threw"}
Pending == {t \in Threads : pc[t].at = "category"}
Attaching ==
  {t \in Threads :
     pc[t].at \in {"category", "layout", "set_layout", "priority", "attach"}}

\* What failures and races do not explain: the appenders there are or may come
\* from the set-ups in progress, created and attached.
Created == created + Cardinality(Pending) - failed - raced
Attached == Cardinality(appenders) + Cardinality(Attaching) - raced

Paid(n) ==
  /\ n <= 1
  /\ Threw # {} => n <= 0
  /\ SettingUp = {} /\ ~isLoggerInitialized => n <= 0

Alone ==
  ~overlapped =>
    /\ \A t, u \in SettingUp : t = u
    /\ SettingUp # {} => ~isLoggerInitialized
    /\ isLoggerInitialized => appenders = IF shut THEN {} ELSE {m_FileAppender}
    /\ ~isLoggerInitialized /\ (\A t \in Threads : pc[t].at # "succeeded") =>
         appenders = {}
    /\ \A t \in Threads : pc[t].at = "succeeded" => appenders = {m_FileAppender}
    /\ isLoggerInitialized
         \/ (\E t \in Threads : pc[t].at \in {"priority", "attach", "succeeded"}) =>
       m_FileAppender \in formatted

Configured ==
  /\ appenders # {} => priority = LOGGING_PRIORITY
  /\ \A t \in Threads :
       pc[t].at \in {"attach", "succeeded"} => priority = LOGGING_PRIORITY
  /\ WrittenAsConfigured

LoggerInv ==
  /\ TypeOK
  /\ Making
  /\ Creating
  /\ Paid(Created)
  /\ Paid(Attached)
  /\ Alone
  /\ Configured

-----------------------------------------------------------------------------
Places == [at : Steps \cup {"idle", "test", "done"}, profiler : BOOLEAN]

LEMMA PlaceFacts ==
  /\ Idle.at = "idle" /\ Idle.profiler = FALSE /\ Idle \in Places
  /\ \A profiler \in BOOLEAN :
       /\ At("test", profiler) \in Places
       /\ At("test", profiler).at = "test"
       /\ At("test", profiler).profiler = profiler
  BY DEF Idle, At, Places

\* Priorities are numbers, and the build's is one of them.
LEMMA Priorities ==
  /\ LOGGING_PRIORITY \in Nat /\ INFO \in Nat
  /\ priority \in {INFO, LOGGING_PRIORITY} => priority \in Nat
  BY DEF LOGGING_PRIORITY, INFO, DEBUG, WARN

\* Two sets of threads that differ at most in one thread.
LEMMA CountOne ==
  ASSUME NEW A \in SUBSET Threads, NEW B \in SUBSET Threads, NEW t \in Threads,
         \A u \in Threads : u # t => (u \in A <=> u \in B)
  PROVE  /\ Cardinality(A) \in Nat /\ Cardinality(B) \in Nat
         /\ Cardinality(B) = Cardinality(A) + (IF t \in B THEN 1 ELSE 0)
                                            - (IF t \in A THEN 1 ELSE 0)
  <1>1. IsFiniteSet(A) /\ IsFiniteSet(B)
    BY LoggerAssumption, FS_Subset
  <1>2. Cardinality(A) \in Nat /\ Cardinality(B) \in Nat
    BY <1>1, FS_CardinalityType
  <1>3. CASE t \in A /\ t \in B
    <2>1. A = B
      BY <1>3
    <2> QED BY <1>2, <1>3, <2>1
  <1>4. CASE t \notin A /\ t \notin B
    <2>1. A = B
      BY <1>4
    <2> QED BY <1>2, <1>4, <2>1
  <1>5. CASE t \in A /\ t \notin B
    <2>1. B = A \ {t}
      BY <1>5
    <2> QED BY <1>1, <1>2, <1>5, <2>1, FS_RemoveElement
  <1>6. CASE t \notin A /\ t \in B
    <2>1. B = A \cup {t}
      BY <1>6
    <2> QED BY <1>1, <1>2, <1>6, <2>1, FS_AddElement
  <1> QED BY <1>3, <1>4, <1>5, <1>6

\* A thread of control moves; the others stay where they are.
LEMMA SetUpMoves ==
  ASSUME TypeOK, NEW t \in Threads, NEW s \in Steps \cup {"idle", "test", "done"},
         Goes(t, s)
  PROVE  /\ pc' \in [Threads -> Places]
         /\ pc'[t].at = s /\ pc'[t].profiler = pc[t].profiler
         /\ \A u \in Threads : u # t => pc'[u] = pc[u]
  BY DEF TypeOK, Goes, Places

LEMMA Counted ==
  ASSUME TypeOK, NEW t \in Threads, \A u \in Threads : u # t => pc'[u] = pc[u]
  PROVE  /\ Cardinality(Pending) \in Nat /\ Cardinality(Attaching) \in Nat
         /\ Cardinality(MakingProfilers) \in Nat
         /\ Cardinality(Pending)' =
              Cardinality(Pending) + (IF t \in Pending' THEN 1 ELSE 0)
                                   - (IF t \in Pending THEN 1 ELSE 0)
         /\ Cardinality(Attaching)' =
              Cardinality(Attaching) + (IF t \in Attaching' THEN 1 ELSE 0)
                                     - (IF t \in Attaching THEN 1 ELSE 0)
         /\ Cardinality(MakingProfilers)' =
              Cardinality(MakingProfilers)
                + (IF t \in MakingProfilers' THEN 1 ELSE 0)
                - (IF t \in MakingProfilers THEN 1 ELSE 0)
  <1>1. /\ Pending \in SUBSET Threads /\ Pending' \in SUBSET Threads
        /\ \A u \in Threads : u # t => (u \in Pending <=> u \in Pending')
    BY DEF Pending
  <1>2. /\ Attaching \in SUBSET Threads /\ Attaching' \in SUBSET Threads
        /\ \A u \in Threads : u # t => (u \in Attaching <=> u \in Attaching')
    BY DEF Attaching
  <1>3. /\ MakingProfilers \in SUBSET Threads /\ MakingProfilers' \in SUBSET Threads
        /\ \A u \in Threads : u # t => (u \in MakingProfilers <=> u \in MakingProfilers')
    BY DEF MakingProfilers
  <1> QED BY <1>1, <1>2, <1>3, CountOne

LEMMA AppendersFinite ==
  ASSUME TypeOK
  PROVE  IsFiniteSet(appenders) /\ Cardinality(appenders) \in Nat
  <1>1. appenders \subseteq 1 .. created /\ created \in Nat
    BY DEF TypeOK
  <1>2. IsFiniteSet(1 .. created)
    BY <1>1, FS_Interval
  <1> QED BY <1>1, <1>2, FS_Subset, FS_CardinalityType

\* The account does not get worse by a step that ends no set-up.
LEMMA StaysPaid ==
  ASSUME NEW n \in Int, NEW m \in Int, Paid(n), m <= n, Threw' \subseteq Threw,
         SettingUp' = {} /\ ~isLoggerInitialized' =>
           SettingUp = {} /\ ~isLoggerInitialized
  PROVE  m <= 1 /\ (Threw' # {} => m <= 0)
         /\ (SettingUp' = {} /\ ~isLoggerInitialized' => m <= 0)
  BY DEF Paid

LEMMA LoggerInit == ASSUME Init PROVE LoggerInv
  <1> USE DEF Init
  <1>1. \A t \in Threads : pc[t].at = "idle" /\ pc[t].profiler = FALSE
    BY PlaceFacts
  <1>2. TypeOK
    <2>1. pc \in [Threads -> Places]
      BY PlaceFacts
    <2>2. failed \in 0 .. MaxFailures /\ profilers \in 0 .. MaxProfilers
      BY LoggerAssumption
    <2>3. m_FileAppender \in 0 .. created
      OBVIOUS
    <2> QED BY <2>1, <2>2, <2>3 DEF TypeOK, Places
  <1>3. Pending = {} /\ Attaching = {} /\ MakingProfilers = {} /\ SettingUp = {} /\ Threw = {}
    BY <1>1 DEF Pending, Attaching, MakingProfilers, SettingUp, Threw, Steps
  <1>4. Cardinality({}) = 0
    BY FS_EmptySet
  <1>5. Making
    BY <1>3, <1>4, LoggerAssumption DEF Making
  <1>6. Creating /\ Configured
    BY <1>1 DEF Creating, Configured, WrittenAsConfigured
  <1>7. Paid(Created) /\ Paid(Attached)
    BY <1>3, <1>4 DEF Paid, Created, Attached
  <1>8. Alone
    BY <1>1, <1>3 DEF Alone
  <1> QED BY <1>2, <1>5, <1>6, <1>7, <1>8 DEF LoggerInv

-----------------------------------------------------------------------------
\* Steps that leave the account, or the number of profilers, alone.
LEMMA SameAccount ==
  ASSUME LoggerInv,
         UNCHANGED <<created, failed, raced, appenders, isLoggerInitialized>>,
         Pending' = Pending, Attaching' = Attaching,
         Threw' = Threw, SettingUp' = SettingUp
  PROVE  Paid(Created)' /\ Paid(Attached)'
  <1>1. Created' = Created /\ Attached' = Attached
    BY DEF Created, Attached
  <1> QED BY <1>1 DEF LoggerInv, Paid

LEMMA SameMaking ==
  ASSUME LoggerInv, UNCHANGED profilers,
         \A u \in Threads : pc'[u].profiler = pc[u].profiler
  PROVE  Making'
  <1>1. MakingProfilers' = MakingProfilers
    BY DEF MakingProfilers
  <1> QED BY <1>1 DEF LoggerInv, Making

LEMMA ConstructStep ==
  ASSUME LoggerInv, NEW t \in Threads, NEW profiler \in BOOLEAN,
         CLogger(t, profiler)
  PROVE  LoggerInv'
  <1> USE DEF LoggerInv, CLogger
  <1>1. /\ pc[t] = Idle /\ pc[t].at = "idle" /\ pc[t].profiler = FALSE
        /\ pc'[t].at = "test" /\ pc'[t].profiler = profiler
        /\ pc' \in [Threads -> Places]
        /\ \A u \in Threads : u # t => pc'[u] = pc[u]
    BY PlaceFacts DEF TypeOK, Places
  <1>2. UNCHANGED <<isLoggerInitialized, m_FileAppender, appenders, formatted,
                    priority, profilers, created, failed, shut, raced,
                    overlapped, written>>
    BY DEF history, category
  <1>3. TypeOK'
    BY <1>1, <1>2 DEF TypeOK, Places
  <1>4. Making'
    <2>1. CASE profiler
      <3>1. t \in MakingProfilers' /\ t \notin MakingProfilers
        BY <1>1, <2>1 DEF MakingProfilers
      <3>2. Cardinality(MakingProfilers)' = Cardinality(MakingProfilers) + 1
            /\ Cardinality(MakingProfilers) \in Nat
        BY <1>1, <3>1, Counted
      <3>3. profilers + Cardinality(MakingProfilers) < MaxProfilers /\ profilers \in Nat
        BY <2>1, LoggerAssumption DEF TypeOK
      <3> QED BY <1>2, <3>2, <3>3, LoggerAssumption DEF Making
    <2>2. CASE ~profiler
      BY <1>1, <1>2, <2>2, SameMaking
    <2> QED BY <2>1, <2>2
  <1>5. Creating' /\ Configured'
    BY <1>1, <1>2 DEF Creating, Configured, WrittenAsConfigured
  <1>6. /\ Pending' = Pending /\ Attaching' = Attaching
        /\ Threw' = Threw /\ SettingUp' = SettingUp
    BY <1>1 DEF Pending, Attaching, Threw, SettingUp, Steps
  <1>7. Paid(Created)' /\ Paid(Attached)'
    BY <1>2, <1>6, SameAccount
  <1>8. Alone'
    BY <1>1, <1>2, <1>6 DEF Alone
  <1> QED BY <1>3, <1>4, <1>5, <1>7, <1>8

(***************************************************************************)
(* The flag is tested.  Where the set-up begins beside another, the race   *)
(* pays for its appender; alone, it found the flag FALSE.                  *)
(***************************************************************************)
LEMMA TestStep ==
  ASSUME LoggerInv, NEW t \in Threads, TestFlag(t)
  PROVE  LoggerInv'
  <1> USE DEF LoggerInv, TestFlag, Begins
  <1>1. PICK s \in Steps \cup {"idle", "test", "done"} :
          s = IF isLoggerInitialized THEN "done" ELSE "category"
    BY DEF Steps
  <1>2. pc[t].at = "test" /\ Goes(t, s)
    BY <1>1
  <1>3. /\ pc' \in [Threads -> Places]
        /\ pc'[t].at = s /\ pc'[t].profiler = pc[t].profiler
        /\ \A u \in Threads : u # t => pc'[u] = pc[u]
    BY <1>2, SetUpMoves
  <1>4. UNCHANGED <<isLoggerInitialized, m_FileAppender, appenders, formatted,
                    priority, profilers, created, failed, shut, written>>
    BY DEF category
  <1>5. TypeOK'
    <2>1. CASE isLoggerInitialized
      BY <1>3, <1>4, <2>1 DEF TypeOK, Places
    <2>2. CASE ~isLoggerInitialized
      <3>1. overlapped' = (overlapped \/ SettingUp # {})
            /\ raced' = IF SettingUp # {} THEN raced + 1 ELSE raced
        BY <2>2
      <3>2. overlapped' \in BOOLEAN /\ raced' \in Nat
        BY <3>1 DEF TypeOK
      <3> QED BY <1>3, <1>4, <3>2 DEF TypeOK, Places
    <2> QED BY <2>1, <2>2
  <1>6. Making'
    BY <1>3, <1>4, SameMaking
  <1>7. Creating'
    BY <1>1, <1>3, <1>4 DEF Creating
  <1>8. Configured'
    <2>1. ~overlapped' => ~overlapped
      BY DEF TypeOK
    <2> QED BY <1>1, <1>3, <1>4, <2>1 DEF Configured, WrittenAsConfigured
  <1>9. CASE isLoggerInitialized
    <2>1. UNCHANGED <<overlapped, raced>>
      BY <1>9
    <2>2. /\ Pending' = Pending /\ Attaching' = Attaching
          /\ Threw' = Threw /\ SettingUp' = SettingUp
      BY <1>1, <1>2, <1>3, <1>9 DEF Pending, Attaching, Threw, SettingUp, Steps
    <2>3. Paid(Created)' /\ Paid(Attached)'
      BY <1>4, <2>1, <2>2, SameAccount
    <2>4. Alone'
      BY <1>1, <1>2, <1>3, <1>4, <1>9, <2>1, <2>2 DEF Alone
    <2> QED BY <1>5, <1>6, <1>7, <1>8, <2>3, <2>4
  <1>10. CASE ~isLoggerInitialized
    <2>1. /\ t \in Pending' /\ t \notin Pending /\ t \in Attaching' /\ t \notin Attaching
          /\ t \notin SettingUp /\ SettingUp' = SettingUp \cup {t} /\ Threw' = Threw
      BY <1>1, <1>2, <1>3, <1>10 DEF Pending, Attaching, Threw, SettingUp, Steps
    <2>2. /\ Cardinality(Pending)' = Cardinality(Pending) + 1
          /\ Cardinality(Attaching)' = Cardinality(Attaching) + 1
          /\ Cardinality(Pending) \in Nat /\ Cardinality(Attaching) \in Nat
      BY <1>3, <2>1, Counted
    <2>3. /\ created \in Nat /\ failed \in Nat /\ raced \in Nat
          /\ Cardinality(appenders) \in Nat
      BY LoggerAssumption, AppendersFinite DEF TypeOK
    <2>4. CASE SettingUp = {}
      <3>1. Created' = Created + 1 /\ Attached' = Attached + 1
            /\ Created \in Int /\ Attached \in Int
        BY <1>4, <1>10, <2>2, <2>3, <2>4 DEF Created, Attached
      <3>2. Created <= 0 /\ Attached <= 0
        BY <1>10, <2>4 DEF Paid
      <3>3. Threw' = {} /\ SettingUp' # {}
        BY <2>1, <2>4 DEF Threw, SettingUp, Steps
      <3>4. Paid(Created)' /\ Paid(Attached)'
        BY <3>1, <3>2, <3>3 DEF Paid
      <3>5. Alone'
        <4>1. \A u \in Threads : u # t => pc'[u].at \notin Steps
          BY <1>3, <2>4 DEF SettingUp
        <4>2. pc'[t].at = "category"
          BY <1>1, <1>3, <1>10
        <4>3. ~overlapped' => ~overlapped
          BY DEF TypeOK
        <4>4. \A u \in Threads : pc'[u].at \notin {"priority", "attach", "succeeded"}
              /\ pc[u].at # "succeeded"
          BY <1>2, <1>3, <4>1, <4>2 DEF Steps
        <4>5. \A u, w \in SettingUp' : u = w
          BY <2>1, <2>4
        <4> QED BY <1>4, <1>10, <4>3, <4>4, <4>5 DEF Alone
      <3> QED BY <1>5, <1>6, <1>7, <1>8, <3>4, <3>5
    <2>5. CASE SettingUp # {}
      <3>1. Created' = Created /\ Attached' = Attached
        BY <1>4, <1>10, <2>2, <2>3, <2>5 DEF Created, Attached
      <3>2. SettingUp' # {}
        BY <2>1
      <3>3. Paid(Created)' /\ Paid(Attached)'
        BY <2>1, <3>1, <3>2 DEF Paid
      <3>4. Alone'
        BY <1>10, <2>5 DEF Alone
      <3> QED BY <1>5, <1>6, <1>7, <1>8, <3>3, <3>4
    <2> QED BY <2>4, <2>5
  <1> QED BY <1>9, <1>10

-----------------------------------------------------------------------------
\* The steps of a set-up before the appender is attached.
LEMMA NewAppenderStep ==
  ASSUME LoggerInv, NEW t \in Threads, NewAppender(t)
  PROVE  LoggerInv'
  <1> USE DEF LoggerInv, NewAppender
  <1>1. pc[t].at = "category" /\ Goes(t, "layout") /\ created' = created + 1 /\ m_FileAppender' = created'
    OBVIOUS
  <1>2. /\ pc' \in [Threads -> Places]
        /\ pc'[t].at = "layout" /\ pc'[t].profiler = pc[t].profiler
        /\ \A u \in Threads : u # t => pc'[u] = pc[u]
    BY <1>1, SetUpMoves DEF Steps
  <1>3. UNCHANGED <<isLoggerInitialized, appenders, formatted, priority,
                    profilers, failed, shut, raced, overlapped, written>>
    OBVIOUS
  <1>4. created \in Nat
    BY DEF TypeOK
  <1>5. TypeOK'
    <2>1. appenders \subseteq 1 .. created' /\ formatted \subseteq 1 .. created'
      BY <1>1, <1>4 DEF TypeOK
    <2>2. created' \in Nat /\ m_FileAppender' \in 0 .. created'
      BY <1>1, <1>4
    <2> QED BY <1>2, <1>3, <2>1, <2>2 DEF TypeOK, Places
  <1>6. Making'
    BY <1>2, <1>3, SameMaking
  <1>7. Creating'
    BY <1>1, <1>4 DEF Creating
  <1>8. Configured'
    BY <1>2, <1>3 DEF Configured, WrittenAsConfigured
  <1>9. /\ t \in Pending /\ t \notin Pending' /\ t \in Attaching /\ t \in Attaching'
        /\ Threw' = Threw /\ SettingUp' = SettingUp
    BY <1>1, <1>2 DEF Pending, Attaching, Threw, SettingUp, Steps
  <1>10. /\ Cardinality(Pending)' = Cardinality(Pending) - 1
         /\ Cardinality(Attaching)' = Cardinality(Attaching)
         /\ Cardinality(Pending) \in Nat /\ Cardinality(Attaching) \in Nat
    BY <1>2, <1>9, Counted
  <1>11. Created' = Created /\ Attached' = Attached
    BY <1>1, <1>3, <1>4, <1>10, LoggerAssumption DEF Created, Attached, TypeOK
  <1>12. Paid(Created)' /\ Paid(Attached)'
    BY <1>3, <1>9, <1>11 DEF Paid
  <1>13. Alone'
    <2> SUFFICES ASSUME ~overlapped PROVE Alone'
      BY <1>3 DEF Alone
    <2>1. t \in SettingUp /\ ~isLoggerInitialized /\ \A u \in Threads : u # t => pc[u].at \notin Steps
      BY <1>1 DEF Alone, SettingUp, Steps
    <2>2. \A u \in Threads : pc'[u].at \notin {"priority", "attach", "succeeded"}
          /\ pc[u].at # "succeeded"
      BY <1>1, <1>2, <2>1 DEF Steps
    <2>3. \A u, w \in SettingUp' : u = w
      BY <1>9 DEF Alone
    <2> QED BY <1>3, <2>1, <2>2, <2>3 DEF Alone
  <1> QED BY <1>5, <1>6, <1>7, <1>8, <1>12, <1>13

LEMMA ConfigureStep ==
  ASSUME LoggerInv, NEW t \in Threads,
         NewLayout(t) \/ SetLayout(t) \/ SetPriority(t)
  PROVE  LoggerInv'
  <1> USE DEF LoggerInv
  <1>1. PICK s \in Steps \cup {"idle", "test", "done"} :
          /\ Goes(t, s)
          /\ \/ pc[t].at = "layout" /\ s = "set_layout" /\ UNCHANGED <<formatted, priority>>
             \/ /\ pc[t].at = "set_layout" /\ s = "priority" /\ UNCHANGED priority
                /\ formatted' = formatted \cup {m_FileAppender}
             \/ /\ pc[t].at = "priority" /\ s = "attach" /\ UNCHANGED formatted
                /\ priority' = LOGGING_PRIORITY
          /\ UNCHANGED <<isLoggerInitialized, m_FileAppender, appenders,
                         profilers, created, failed, shut, raced, overlapped,
                         written>>
    BY DEF NewLayout, SetLayout, SetPriority, history, category, Steps
  <1>2. /\ pc' \in [Threads -> Places]
        /\ pc'[t].at = s /\ pc'[t].profiler = pc[t].profiler
        /\ \A u \in Threads : u # t => pc'[u] = pc[u]
    BY <1>1, SetUpMoves
  <1>3. TypeOK'
    <2>1. m_FileAppender \in 1 .. created
      BY <1>1 DEF TypeOK, Creating
    <2>2. formatted' \subseteq 1 .. created /\ priority' \in {INFO, LOGGING_PRIORITY}
      BY <1>1, <2>1 DEF TypeOK
    <2> QED BY <1>1, <1>2, <2>2 DEF TypeOK, Places
  <1>4. Making'
    BY <1>1, <1>2, SameMaking
  <1>5. Creating'
    BY <1>1, <1>2 DEF Creating
  <1>6. Configured'
    BY <1>1, <1>2 DEF Configured, WrittenAsConfigured
  <1>7. /\ Pending' = Pending /\ Attaching' = Attaching
        /\ Threw' = Threw /\ SettingUp' = SettingUp
    BY <1>1, <1>2 DEF Pending, Attaching, Threw, SettingUp, Steps
  <1>8. Paid(Created)' /\ Paid(Attached)'
    BY <1>1, <1>7, SameAccount
  <1>9. Alone'
    <2> SUFFICES ASSUME ~overlapped PROVE Alone'
      BY <1>1 DEF Alone
    <2>1. t \in SettingUp /\ ~isLoggerInitialized /\ \A u \in Threads : u # t => pc[u].at \notin Steps
      BY <1>1 DEF Alone, SettingUp, Steps
    <2>2. \A u \in Threads : pc'[u].at # "succeeded" /\ pc[u].at # "succeeded"
      BY <1>1, <1>2, <2>1 DEF Steps
    <2>3. (\E u \in Threads : pc'[u].at \in {"priority", "attach", "succeeded"}) =>
            m_FileAppender \in formatted'
      BY <1>1, <1>2, <2>1 DEF Alone, Steps
    <2> QED BY <1>1, <1>7, <2>1, <2>2, <2>3 DEF Alone
  <1> QED BY <1>3, <1>4, <1>5, <1>6, <1>8, <1>9

-----------------------------------------------------------------------------
\* The appender is attached, and the place kept for it goes.
LEMMA AttachStep ==
  ASSUME LoggerInv, NEW t \in Threads, AddAppender(t)
  PROVE  LoggerInv'
  <1> USE DEF LoggerInv, AddAppender
  <1>1. /\ pc[t].at = "attach" /\ Goes(t, "succeeded")
        /\ appenders' = appenders \cup {m_FileAppender}
        /\ UNCHANGED <<isLoggerInitialized, m_FileAppender, formatted, priority,
                       profilers, created, failed, shut, raced, overlapped,
                       written>>
    BY DEF history
  <1>2. /\ pc' \in [Threads -> Places]
        /\ pc'[t].at = "succeeded" /\ pc'[t].profiler = pc[t].profiler
        /\ \A u \in Threads : u # t => pc'[u] = pc[u]
    BY <1>1, SetUpMoves DEF Steps
  <1>3. TypeOK'
    <2>1. m_FileAppender \in 1 .. created
      BY <1>1 DEF TypeOK, Creating
    <2> QED BY <1>1, <1>2, <2>1 DEF TypeOK, Places
  <1>4. Making'
    BY <1>1, <1>2, SameMaking
  <1>5. Creating'
    BY <1>1, <1>2 DEF Creating
  <1>6. Configured'
    BY <1>1, <1>2 DEF Configured, WrittenAsConfigured
  <1>7. /\ Pending' = Pending /\ t \in Attaching /\ t \notin Attaching'
        /\ Threw' = Threw /\ SettingUp' = SettingUp
    BY <1>1, <1>2 DEF Pending, Attaching, Threw, SettingUp, Steps
  <1>8. /\ Cardinality(Attaching)' = Cardinality(Attaching) - 1
        /\ Cardinality(Attaching) \in Nat /\ Cardinality(Pending) \in Nat
    BY <1>2, <1>7, Counted
  <1>9. /\ Cardinality(appenders) \in Nat /\ Cardinality(appenders') \in Nat
        /\ Cardinality(appenders') <= Cardinality(appenders) + 1
    <2>1. IsFiniteSet(appenders) /\ Cardinality(appenders) \in Nat
      BY AppendersFinite
    <2> QED BY <1>1, <2>1, FS_AddElement
  <1>10. raced \in Nat /\ created \in Nat /\ failed \in Nat
    BY LoggerAssumption DEF TypeOK
  <1>11. /\ Attached \in Int /\ Attached' \in Int /\ Attached' <= Attached
         /\ Created' = Created
    BY <1>1, <1>7, <1>8, <1>9, <1>10 DEF Attached, Created
  <1>12. Paid(Attached)' /\ Paid(Created)'
    BY <1>1, <1>7, <1>11 DEF Paid
  <1>13. Alone'
    <2> SUFFICES ASSUME ~overlapped PROVE Alone'
      BY <1>1 DEF Alone
    <2>1. t \in SettingUp /\ ~isLoggerInitialized /\ \A u \in Threads : u # t => pc[u].at \notin Steps
      BY <1>1 DEF Alone, SettingUp, Steps
    <2>2. \A u \in Threads : pc[u].at # "succeeded"
      BY <1>1, <2>1 DEF Steps
    <2>3. appenders' = {m_FileAppender} /\ m_FileAppender \in formatted
      BY <1>1, <2>1, <2>2 DEF Alone
    <2> QED BY <1>1, <1>2, <1>7, <2>1, <2>3 DEF Alone
  <1> QED BY <1>3, <1>4, <1>5, <1>6, <1>12, <1>13

\* A set-up throws: the failure pays for the appender it may have created,
\* and for the one that the next set-up creates.
LEMMA ThrowStep ==
  ASSUME LoggerInv, NEW t \in Threads, Throws(t)
  PROVE  LoggerInv'
  <1> USE DEF LoggerInv, Throws
  <1>1. /\ pc[t].at \in {"category", "layout", "set_layout", "priority", "attach"}
        /\ Goes(t, "threw") /\ failed' = failed + 1 /\ failed < MaxFailures
        /\ UNCHANGED <<isLoggerInitialized, m_FileAppender, appenders, formatted,
                       priority, profilers, created, shut, raced, overlapped,
                       written>>
    BY DEF category
  <1>2. /\ pc' \in [Threads -> Places]
        /\ pc'[t].at = "threw" /\ pc'[t].profiler = pc[t].profiler
        /\ \A u \in Threads : u # t => pc'[u] = pc[u]
    BY <1>1, SetUpMoves DEF Steps
  <1>3. TypeOK'
    <2>1. failed' \in 0 .. MaxFailures
      BY <1>1, LoggerAssumption DEF TypeOK
    <2> QED BY <1>1, <1>2, <2>1 DEF TypeOK, Places
  <1>4. Making'
    BY <1>1, <1>2, SameMaking
  <1>5. Creating'
    BY <1>1, <1>2 DEF Creating
  <1>6. Configured'
    BY <1>1, <1>2 DEF Configured, WrittenAsConfigured
  <1>7. /\ t \notin Pending' /\ t \in Attaching /\ t \notin Attaching'
        /\ SettingUp' = SettingUp /\ t \in SettingUp
    BY <1>1, <1>2 DEF Pending, Attaching, SettingUp, Steps
  <1>8. /\ Cardinality(Pending)' <= Cardinality(Pending)
        /\ Cardinality(Pending)' \in Int
        /\ Cardinality(Attaching)' = Cardinality(Attaching) - 1
        /\ Cardinality(Pending) \in Nat /\ Cardinality(Attaching) \in Nat
    BY <1>2, <1>7, Counted
  <1>9. /\ created \in Nat /\ failed \in Nat /\ raced \in Nat
        /\ Cardinality(appenders) \in Nat
    BY LoggerAssumption, AppendersFinite DEF TypeOK
  <1>10. /\ Created \in Int /\ Created' \in Int /\ Created' <= Created - 1
         /\ Attached \in Int /\ Attached' \in Int /\ Attached' <= Attached - 1
    BY <1>1, <1>8, <1>9 DEF Created, Attached
  <1>11. Created <= 1 /\ Attached <= 1
    BY DEF Paid
  <1>12. Created' <= 0 /\ Attached' <= 0
    BY <1>10, <1>11
  <1>13. Paid(Created)' /\ Paid(Attached)'
    BY <1>10, <1>12 DEF Paid
  <1>14. Alone'
    <2> SUFFICES ASSUME ~overlapped PROVE Alone'
      BY <1>1 DEF Alone
    <2>1. ~isLoggerInitialized /\ \A u \in Threads : u # t => pc[u].at \notin Steps
      BY <1>1 DEF Alone, SettingUp, Steps
    <2>2. \A u \in Threads : pc[u].at # "succeeded"
          /\ pc'[u].at \notin {"priority", "attach", "succeeded"}
      BY <1>1, <1>2, <2>1 DEF Steps
    <2> QED BY <1>1, <1>7, <2>1, <2>2 DEF Alone
  <1> QED BY <1>3, <1>4, <1>5, <1>6, <1>13, <1>14

-----------------------------------------------------------------------------
\* What is written now is at most the build's priority, and in the pattern as
\* long as set-ups run alone.
LEMMA WritesAsConfigured ==
  ASSUME LoggerInv, NEW level \in Nat
  PROVE  /\ Logs(level) \subseteq BOOLEAN \X BOOLEAN
         /\ \A line \in Logs(level) : line[1] /\ (~overlapped => line[2])
  <1> USE DEF LoggerInv
  <1>1. level <= priority => appenders = {} \/ level <= LOGGING_PRIORITY
    BY DEF Configured
  <1>2. ~overlapped => appenders \subseteq formatted
    <2> SUFFICES ASSUME ~overlapped PROVE appenders \subseteq formatted
      OBVIOUS
    <2>1. CASE isLoggerInitialized \/ \E t \in Threads : pc[t].at = "succeeded"
      BY <2>1 DEF Alone
    <2>2. CASE ~isLoggerInitialized /\ \A t \in Threads : pc[t].at # "succeeded"
      BY <2>2 DEF Alone
    <2> QED BY <2>1, <2>2
  <1>3. ASSUME NEW line \in Logs(level)
        PROVE  line \in BOOLEAN \X BOOLEAN /\ line[1] /\ (~overlapped => line[2])
    <2>1. level <= priority /\ \E a \in appenders :
            line = <<level <= LOGGING_PRIORITY, a \in formatted>>
      BY <1>3 DEF Logs
    <2>2. PICK a \in appenders : line = <<level <= LOGGING_PRIORITY, a \in formatted>>
      BY <2>1
    <2>3. (level <= LOGGING_PRIORITY) = TRUE
      BY <1>1, <2>1, <2>2
    <2>4. \E b \in BOOLEAN : line = <<TRUE, b>> /\ (a \in formatted => b = TRUE)
      <3>1. CASE a \in formatted
        BY <2>2, <2>3, <3>1
      <3>2. CASE a \notin formatted
        <4>1. (a \in formatted) = FALSE
          BY <3>2, SMT
        <4>2. line = <<TRUE, FALSE>>
          BY <2>2, <2>3, <4>1, Zenon
        <4> QED BY <3>2, <4>2
      <3> QED BY <3>1, <3>2
    <2>5. PICK b \in BOOLEAN : line = <<TRUE, b>> /\ (a \in formatted => b = TRUE)
      BY <2>4
    <2> QED BY <1>2, <2>5
  <1> QED BY <1>3

(***************************************************************************)
(* The set-up ends and stores in the flag whether it succeeded.  If it was *)
(* the last one and stores FALSE, it threw, and its failure has paid.      *)
(***************************************************************************)
LEMMA FlagStep ==
  ASSUME LoggerInv, NEW t \in Threads, SetFlag(t)
  PROVE  LoggerInv'
  <1>1. /\ pc[t].at \in {"succeeded", "threw"} /\ Goes(t, "done")
        /\ isLoggerInitialized' = (pc[t].at = "succeeded")
        /\ shut' = (shut /\ pc[t].at = "threw")
        /\ written' = written \cup Logs(INFO)
        /\ UNCHANGED <<m_FileAppender, appenders, formatted, priority,
                       profilers, created, failed, raced, overlapped>>
    BY DEF SetFlag, category
  <1>2. /\ Logs(INFO) \subseteq BOOLEAN \X BOOLEAN
        /\ \A line \in Logs(INFO) : line[1] /\ (~overlapped => line[2])
    BY Priorities, WritesAsConfigured
  <1> USE DEF LoggerInv
  <1>3. /\ pc' \in [Threads -> Places]
        /\ pc'[t].at = "done" /\ pc'[t].profiler = pc[t].profiler
        /\ \A u \in Threads : u # t => pc'[u] = pc[u]
    BY <1>1, SetUpMoves DEF Steps
  <1>4. TypeOK'
    <2>1. isLoggerInitialized' \in BOOLEAN /\ shut' \in BOOLEAN
      BY <1>1
    <2>2. written' \subseteq BOOLEAN \X BOOLEAN
      BY <1>1, <1>2 DEF TypeOK
    <2> QED BY <1>1, <1>3, <2>1, <2>2 DEF TypeOK, Places
  <1>5. Making'
    BY <1>1, <1>3, SameMaking
  <1>6. Creating'
    BY <1>1, <1>3 DEF Creating
  <1>7. Configured'
    BY <1>1, <1>2, <1>3 DEF Configured, WrittenAsConfigured
  <1>8. /\ Pending' = Pending /\ Attaching' = Attaching
        /\ Threw' \subseteq Threw /\ SettingUp' = SettingUp \ {t} /\ t \in SettingUp
    BY <1>1, <1>3 DEF Pending, Attaching, Threw, SettingUp, Steps
  <1>9. Created' = Created /\ Attached' = Attached
    BY <1>1, <1>8 DEF Created, Attached
  <1>10. ~isLoggerInitialized' => Threw # {}
    BY <1>1 DEF Threw
  <1>11. Paid(Created)' /\ Paid(Attached)'
    BY <1>8, <1>9, <1>10 DEF Paid
  <1>12. Alone'
    <2> SUFFICES ASSUME ~overlapped PROVE Alone'
      BY <1>1 DEF Alone
    <2>1. \A u \in Threads : u # t => pc[u].at \notin Steps
      BY <1>1 DEF Alone, SettingUp, Steps
    <2>2. SettingUp' = {} /\ ~isLoggerInitialized
      BY <1>8 DEF Alone
    <2>3. \A u \in Threads : pc'[u].at \notin {"priority", "attach", "succeeded"}
      BY <1>3, <2>1 DEF Steps
    <2>4. CASE pc[t].at = "succeeded"
      <3>1. appenders = {m_FileAppender} /\ m_FileAppender \in formatted
        BY <2>4 DEF Alone
      <3>2. isLoggerInitialized' /\ ~shut'
        BY <1>1, <2>4
      <3> QED BY <1>1, <2>2, <2>3, <3>1, <3>2 DEF Alone
    <2>5. CASE pc[t].at = "threw"
      <3>1. \A u \in Threads : pc[u].at # "succeeded"
        BY <2>1, <2>5 DEF Steps
      <3>2. appenders = {} /\ ~isLoggerInitialized'
        BY <1>1, <2>2, <2>5, <3>1 DEF Alone
      <3> QED BY <1>1, <2>2, <2>3, <3>2 DEF Alone
    <2> QED BY <1>1, <2>4, <2>5
  <1> QED BY <1>4, <1>5, <1>6, <1>7, <1>11, <1>12

LEMMA ConstructedStep ==
  ASSUME LoggerInv, NEW t \in Threads, Constructed(t)
  PROVE  LoggerInv'
  <1> USE DEF LoggerInv, Constructed
  <1>1. /\ pc[t].at = "done" /\ pc' = [pc EXCEPT ![t] = Idle]
        /\ profilers' = IF pc[t].profiler THEN profilers + 1 ELSE profilers
        /\ UNCHANGED <<isLoggerInitialized, m_FileAppender, appenders, formatted,
                       priority, created, failed, shut, raced, overlapped,
                       written>>
    BY DEF history, category
  <1>2. /\ pc' \in [Threads -> Places]
        /\ pc'[t].at = "idle" /\ pc'[t].profiler = FALSE
        /\ \A u \in Threads : u # t => pc'[u] = pc[u]
    BY <1>1, PlaceFacts DEF TypeOK, Places
  <1>3. Cardinality(MakingProfilers) \in Nat
        /\ Cardinality(MakingProfilers)' =
             Cardinality(MakingProfilers) - (IF pc[t].profiler THEN 1 ELSE 0)
        /\ Cardinality(MakingProfilers)' \in Nat
    <2>1. t \notin MakingProfilers' /\ (t \in MakingProfilers <=> pc[t].profiler)
      BY <1>2 DEF MakingProfilers
    <2>2. /\ MakingProfilers \in SUBSET Threads /\ MakingProfilers' \in SUBSET Threads
          /\ \A u \in Threads : u # t => (u \in MakingProfilers <=> u \in MakingProfilers')
      BY <1>2 DEF MakingProfilers
    <2>3. Cardinality(MakingProfilers') \in Nat
      BY <2>2, CountOne
    <2> QED BY <1>2, <2>1, <2>3, Counted
  <1>4. profilers \in Nat
    BY LoggerAssumption DEF TypeOK
  <1>5. Making' /\ profilers' \in 0 .. MaxProfilers
    <2>1. CASE pc[t].profiler
      BY <1>1, <1>3, <1>4, <2>1, LoggerAssumption DEF Making
    <2>2. CASE ~pc[t].profiler
      BY <1>1, <1>3, <1>4, <2>2, LoggerAssumption DEF Making, TypeOK
    <2> QED BY <2>1, <2>2
  <1>6. TypeOK'
    BY <1>1, <1>2, <1>5 DEF TypeOK, Places
  <1>7. Creating' /\ Configured'
    BY <1>1, <1>2 DEF Creating, Configured, WrittenAsConfigured
  <1>8. /\ Pending' = Pending /\ Attaching' = Attaching
        /\ Threw' = Threw /\ SettingUp' = SettingUp
    BY <1>1, <1>2 DEF Pending, Attaching, Threw, SettingUp, Steps
  <1>9. Paid(Created)' /\ Paid(Attached)'
    BY <1>1, <1>8, SameAccount
  <1>10. Alone'
    <2> SUFFICES ASSUME ~overlapped PROVE Alone'
      BY <1>1 DEF Alone
    <2>1. \A u \in Threads : pc'[u].at \in Steps \/ pc[u].at \in Steps => pc'[u] = pc[u]
      BY <1>1, <1>2 DEF Steps
    <2>2. \A u \in Threads : /\ pc'[u].at = "succeeded" <=> pc[u].at = "succeeded"
                             /\ pc'[u].at \in {"priority", "attach", "succeeded"}
                                  <=> pc[u].at \in {"priority", "attach", "succeeded"}
      BY <2>1 DEF Steps
    <2> QED BY <1>1, <1>8, <2>2 DEF Alone
  <1> QED BY <1>5, <1>6, <1>7, <1>9, <1>10

-----------------------------------------------------------------------------
(***************************************************************************)
(* Shutdown and Discarded: appenders only go, and a set-up beside it       *)
(* counts as overlapped.                                                   *)
(***************************************************************************)
LEMMA ShutdownStep ==
  ASSUME LoggerInv, NEW t \in Threads, Shutdown(t)
  PROVE  LoggerInv'
  <1>1. /\ profilers > 0 /\ profilers' = profilers - 1 /\ appenders' = {}
        /\ shut' = TRUE
        /\ overlapped' = (overlapped \/ SettingUp # {})
        /\ written' = written \cup Logs(INFO)
        /\ UNCHANGED <<isLoggerInitialized, m_FileAppender, formatted, priority,
                       pc, created, failed, raced>>
    BY DEF Shutdown
  <1>2. /\ Logs(INFO) \subseteq BOOLEAN \X BOOLEAN
        /\ \A line \in Logs(INFO) : line[1] /\ (~overlapped => line[2])
    BY Priorities, WritesAsConfigured
  <1> USE DEF LoggerInv
  <1>3. ~overlapped' => ~overlapped /\ SettingUp = {}
    BY <1>1 DEF TypeOK
  <1>4. profilers \in Nat /\ profilers' \in 0 .. MaxProfilers
    BY <1>1, LoggerAssumption DEF TypeOK
  <1>5. TypeOK'
    <2>1. written' \subseteq BOOLEAN \X BOOLEAN
      BY <1>1, <1>2 DEF TypeOK
    <2>2. overlapped' \in BOOLEAN /\ shut' \in BOOLEAN
      BY <1>1 DEF TypeOK
    <2> QED BY <1>1, <1>4, <2>1, <2>2 DEF TypeOK
  <1>6. /\ MakingProfilers' = MakingProfilers /\ Pending' = Pending
        /\ Attaching' = Attaching /\ Threw' = Threw /\ SettingUp' = SettingUp
    BY <1>1 DEF MakingProfilers, Pending, Attaching, Threw, SettingUp
  <1>7. Making'
    <2>1. Cardinality(MakingProfilers) \in Nat
      BY LoggerAssumption, FS_Subset, FS_CardinalityType DEF MakingProfilers
    <2> QED BY <1>1, <1>4, <1>6, <2>1, LoggerAssumption DEF Making
  <1>8. Creating'
    BY <1>1 DEF Creating
  <1>9. Configured'
    BY <1>1, <1>2, <1>3 DEF Configured, WrittenAsConfigured
  <1>10. Paid(Created)'
    BY <1>1, <1>6 DEF Paid, Created
  <1>11. Paid(Attached)'
    <2>1. Cardinality(appenders') = 0 /\ Cardinality(appenders) \in Nat
      BY <1>1, FS_EmptySet, AppendersFinite
    <2>2. Cardinality(Attaching) \in Nat /\ raced \in Nat
      BY LoggerAssumption, FS_Subset, FS_CardinalityType DEF Attaching, TypeOK
    <2>3. /\ Attached \in Int /\ Attached' \in Int /\ Attached' <= Attached
      BY <1>1, <1>6, <2>1, <2>2 DEF Attached
    <2> QED BY <1>1, <1>6, <2>3 DEF Paid
  <1>12. Alone'
    <2> SUFFICES ASSUME ~overlapped, SettingUp = {} PROVE Alone'
      BY <1>3 DEF Alone
    <2>1. \A u \in Threads : pc'[u].at \notin {"priority", "attach", "succeeded"}
      BY <1>1 DEF SettingUp, Steps
    <2>2. isLoggerInitialized => m_FileAppender \in formatted
      BY DEF Alone
    <2> QED BY <1>1, <1>6, <2>1, <2>2 DEF Alone
  <1> QED BY <1>5, <1>7, <1>8, <1>9, <1>10, <1>11, <1>12

LEMMA DiscardedStep ==
  ASSUME LoggerInv, Discarded
  PROVE  LoggerInv'
  <1>1. /\ profilers > 0 /\ profilers' = profilers - 1
        /\ UNCHANGED <<isLoggerInitialized, m_FileAppender, appenders, formatted,
                       priority, pc, created, failed, shut, raced, overlapped,
                       written>>
    BY DEF Discarded, history, category
  <1> USE DEF LoggerInv
  <1>2. profilers \in Nat /\ profilers' \in 0 .. MaxProfilers
    BY <1>1, LoggerAssumption DEF TypeOK
  <1>3. TypeOK'
    BY <1>1, <1>2 DEF TypeOK
  <1>4. /\ MakingProfilers' = MakingProfilers /\ Pending' = Pending
        /\ Attaching' = Attaching /\ Threw' = Threw /\ SettingUp' = SettingUp
    BY <1>1 DEF MakingProfilers, Pending, Attaching, Threw, SettingUp
  <1>5. Making'
    <2>1. Cardinality(MakingProfilers) \in Nat
      BY LoggerAssumption, FS_Subset, FS_CardinalityType DEF MakingProfilers
    <2> QED BY <1>1, <1>2, <1>4, <2>1, LoggerAssumption DEF Making
  <1>6. Creating' /\ Configured'
    BY <1>1 DEF Creating, Configured, WrittenAsConfigured
  <1>7. Paid(Created)' /\ Paid(Attached)'
    BY <1>1, <1>4, SameAccount
  <1>8. Alone'
    BY <1>1, <1>4 DEF Alone
  <1> QED BY <1>3, <1>5, <1>6, <1>7, <1>8

\* A message changes nothing but the file.
LEMMA SaysStep ==
  ASSUME LoggerInv, NEW level \in Nat, Says(level)
  PROVE  LoggerInv'
  <1>1. /\ written' = written \cup Logs(level)
        /\ UNCHANGED <<isLoggerInitialized, m_FileAppender, appenders, formatted,
                       priority, profilers, pc, created, failed, shut, raced,
                       overlapped>>
    BY DEF Says, category
  <1>2. /\ Logs(level) \subseteq BOOLEAN \X BOOLEAN
        /\ \A line \in Logs(level) : line[1] /\ (~overlapped => line[2])
    BY WritesAsConfigured
  <1> USE DEF LoggerInv
  <1>3. TypeOK'
    <2>1. written' \subseteq BOOLEAN \X BOOLEAN
      BY <1>1, <1>2 DEF TypeOK
    <2> QED BY <1>1, <2>1 DEF TypeOK
  <1>4. /\ MakingProfilers' = MakingProfilers /\ Pending' = Pending
        /\ Attaching' = Attaching /\ Threw' = Threw /\ SettingUp' = SettingUp
    BY <1>1 DEF MakingProfilers, Pending, Attaching, Threw, SettingUp
  <1>5. Making' /\ Creating'
    BY <1>1, <1>4 DEF Making, Creating
  <1>6. Configured'
    BY <1>1, <1>2 DEF Configured, WrittenAsConfigured
  <1>7. Paid(Created)' /\ Paid(Attached)'
    BY <1>1, <1>4, SameAccount
  <1>8. Alone'
    BY <1>1, <1>4 DEF Alone
  <1> QED BY <1>3, <1>5, <1>6, <1>7, <1>8

-----------------------------------------------------------------------------
LEMMA LoggerNext == ASSUME LoggerInv, [Next]_vars PROVE LoggerInv'
  <1>1. ASSUME NEW t \in Threads, NEW profiler \in BOOLEAN, CLogger(t, profiler)
        PROVE  LoggerInv'
    BY <1>1, ConstructStep
  <1>2. ASSUME NEW t \in Threads, Shutdown(t) PROVE LoggerInv'
    BY <1>2, ShutdownStep
  <1>3. ASSUME NEW t \in Threads, Step(t) PROVE LoggerInv'
    BY <1>3, TestStep, NewAppenderStep, ConfigureStep, AttachStep, ThrowStep,
       FlagStep, ConstructedStep DEF Step
  <1>4. CASE Discarded
    BY <1>4, DiscardedStep
  <1>5. CASE Info \/ Warn \/ Debug \/ Error
    <2>1. INFO \in Nat /\ WARN \in Nat /\ DEBUG \in Nat /\ ERROR \in Nat
      BY DEF INFO, WARN, DEBUG, ERROR
    <2> QED BY <1>5, <2>1, SaysStep DEF Info, Warn, Debug, Error
  <1>6. CASE UNCHANGED vars
    <2>1. /\ MakingProfilers' = MakingProfilers /\ Pending' = Pending
          /\ Attaching' = Attaching /\ Threw' = Threw /\ SettingUp' = SettingUp
      BY <1>6 DEF MakingProfilers, Pending, Attaching, Threw, SettingUp, vars
    <2>2. Paid(Created)' /\ Paid(Attached)'
      BY <1>6, <2>1, SameAccount DEF vars
    <2> QED BY <1>6, <2>1, <2>2
        DEF LoggerInv, vars, TypeOK, Making, Creating, Alone, Configured,
            WrittenAsConfigured
  <1> QED BY <1>1, <1>2, <1>3, <1>4, <1>5, <1>6 DEF Next

\* What the invariant says, in terms of the runs' properties.
LEMMA LoggerImplies ==
  ASSUME LoggerInv
  PROVE  TypeOK /\ FlagMeansLogging /\ OneFilePerSetUp /\ WrittenAsConfigured
  <1> USE DEF LoggerInv
  <1>1. FlagMeansLogging
    BY DEF Alone, FlagMeansLogging
  <1>2. OneFilePerSetUp
    <2>1. Cardinality(Pending) \in Nat /\ Cardinality(Attaching) \in Nat
      BY LoggerAssumption, FS_Subset, FS_CardinalityType DEF Pending, Attaching
    <2>2. Cardinality(appenders) \in Nat
      BY AppendersFinite
    <2>3. created \in Nat /\ failed \in Nat /\ raced \in Nat
      BY LoggerAssumption DEF TypeOK
    <2>4. Created <= 1 /\ Attached <= 1
      BY DEF Paid
    <2> QED BY <2>1, <2>2, <2>3, <2>4 DEF OneFilePerSetUp, Created, Attached
  <1> QED BY <1>1, <1>2 DEF Configured

LEMMA LoggerIsSound == Spec => []LoggerInv
  BY LoggerInit, LoggerNext, PTL DEF Spec

\* The statics keep their types, whichever threads race to set them up.
THEOREM LoggerTypes == Spec => []TypeOK
  <1>1. LoggerInv => TypeOK
    BY LoggerImplies
  <1> QED BY <1>1, LoggerIsSound, PTL

(***************************************************************************)
(* With set-ups that run alone, the flag that CLogger::CLogger stores      *)
(* means one formatted appender until the first Shutdown, and none after.  *)
(***************************************************************************)
THEOREM FlagIsTrue == Spec => []FlagMeansLogging
  <1>1. LoggerInv => FlagMeansLogging
    BY LoggerImplies
  <1> QED BY <1>1, LoggerIsSound, PTL

(***************************************************************************)
(* However many threads construct loggers, the appenders beyond the first  *)
(* are no more than the set-ups that threw or raced, and those attached at *)
(* once no more than those that raced.                                     *)
(***************************************************************************)
THEOREM AppendersAreAccounted == Spec => []OneFilePerSetUp
  <1>1. LoggerInv => OneFilePerSetUp
    BY LoggerImplies
  <1> QED BY <1>1, LoggerIsSound, PTL

(***************************************************************************)
(* Info, Warn, Debug and Error write nothing above the build's priority,   *)
(* and outside the pattern only once set-ups have overlapped.              *)
(***************************************************************************)
THEOREM LinesAreConfigured == Spec => []WrittenAsConfigured
  <1>1. LoggerInv => WrittenAsConfigured
    BY LoggerImplies
  <1> QED BY <1>1, LoggerIsSound, PTL

-----------------------------------------------------------------------------
(***************************************************************************)
(* Natural numbers.                                                        *)
(***************************************************************************)
\* A set of natural numbers has a least one: the smallest of the intervals.
LEMMA LeastNatural ==
  ASSUME NEW T \in SUBSET Nat, T # {}
  PROVE  \E m \in T : \A k \in T : m <= k
  <1> DEFINE Intervals == {0 .. k : k \in T}
  <1>1. Intervals \subseteq FiniteSubsetsOf(Nat) /\ Intervals # {}
    <2>1. ASSUME NEW k \in T
          PROVE  0 .. k \in FiniteSubsetsOf(Nat)
      <3>1. IsFiniteSet(0 .. k)
        BY FS_Interval
      <3>2. 0 .. k \in SUBSET Nat
        OBVIOUS
      <3> QED BY <3>1, <3>2 DEF FiniteSubsetsOf
    <2> QED BY <2>1
  <1>2. PICK A \in Intervals :
          \A B \in Intervals : ~(<<B, A>> \in StrictSubsetOrdering(Nat))
    <2> HIDE DEF Intervals
    <2> QED BY <1>1, FS_StrictSubsetOrderingWellFounded, WFMin
  <1>3. PICK m \in T : A = 0 .. m
    OBVIOUS
  <1>4. ASSUME NEW k \in T, k < m
        PROVE  FALSE
    <2>1. 0 .. k \in SUBSET Nat /\ 0 .. m \in SUBSET Nat
      OBVIOUS
    <2>2. 0 .. k \subseteq 0 .. m /\ 0 .. k # 0 .. m
      <3>1. m \in 0 .. m /\ m \notin 0 .. k
        BY <1>4
      <3>2. 0 .. k \subseteq 0 .. m
        BY <1>4
      <3> QED BY <3>1, <3>2
    <2>3. <<0 .. k, 0 .. m>> \in StrictSubsetOrdering(Nat)
      BY <2>1, <2>2 DEF StrictSubsetOrdering
    <2> QED BY <1>2, <1>3, <2>3
  <1> QED BY <1>4

\* Induction, over a set instead of a predicate.
LEMMA NaturalsAreCounted ==
  ASSUME NEW T, 0 \in T, \A n \in Nat : n \in T => n + 1 \in T
  PROVE  Nat \subseteq T
  <1> SUFFICES ASSUME NEW x \in Nat, x \notin T PROVE FALSE
    OBVIOUS
  <1>1. PICK m \in Nat \ T : \A k \in Nat \ T : m <= k
    BY LeastNatural
  <1>2. m # 0 /\ m - 1 \in Nat
    BY <1>1
  <1>3. m - 1 \in T
    BY <1>1, <1>2
  <1> QED BY <1>1, <1>2, <1>3

\* Min and Max of the community modules.
LEMMA MaxOfNaturals ==
  ASSUME NEW T \in SUBSET Nat, T # {}, NEW b \in Nat, \A k \in T : k <= b
  PROVE  Max(T) \in T /\ \A k \in T : k <= Max(T)
  <1> DEFINE Bounds == {n \in Nat : \A k \in T : k <= n}
  <1>1. PICK n \in Bounds : \A k \in Bounds : n <= k
    <2>1. b \in Bounds
      OBVIOUS
    <2> QED BY <2>1, LeastNatural
  <1>2. n \in T
    <2> SUFFICES ASSUME n \notin T PROVE FALSE
      OBVIOUS
    <2>1. n > 0
      <3>1. PICK k \in T : TRUE
        OBVIOUS
      <3>2. k \in Nat /\ k <= n /\ k # n /\ n \in Nat
        BY <1>1
      <3> QED BY <3>2
    <2>2. \A k \in T : k <= n - 1
      BY <1>1
    <2>3. n - 1 \in Bounds
      BY <1>1, <2>1, <2>2
    <2> QED BY <1>1, <2>3
  <1> QED BY <1>1, <1>2 DEF Max

LEMMA MinOfTwo ==
  ASSUME NEW a \in Nat, NEW b \in Nat
  PROVE  Min({a, b}) = IF a <= b THEN a ELSE b
  BY DEF Min

LEMMA MinOfOne == ASSUME NEW a \in Nat PROVE Min({a}) = a
  BY DEF Min

(***************************************************************************)
(* FlattenSeq of the community modules, which is defined by recursion.     *)
(***************************************************************************)
\* f is what the recursion computes for the first k sequences.
Flattens(f, seqs, k) ==
  f = [i \in 1 .. k |-> IF i = 1 THEN seqs[i] ELSE f[i - 1] \o seqs[i]]

LEMMA FlattensMore ==
  ASSUME NEW seqs, NEW k \in Nat, NEW f, Flattens(f, seqs, k)
  PROVE  \E g : Flattens(g, seqs, k + 1)
  <1> DEFINE last == IF k = 0 THEN seqs[1] ELSE f[k] \o seqs[k + 1]
             g == [i \in 1 .. k + 1 |-> IF i = k + 1 THEN last ELSE f[i]]
  <1>1. ASSUME NEW i \in 1 .. k + 1
        PROVE  g[i] = IF i = 1 THEN seqs[i] ELSE g[i - 1] \o seqs[i]
    <2>1. CASE i = k + 1
      BY <2>1
    <2>2. CASE i # k + 1
      <3>1. i \in 1 .. k /\ g[i] = f[i]
        BY <2>2
      <3>2. i # 1 => i - 1 \in 1 .. k /\ i - 1 # k + 1
        BY <3>1
      <3>3. i # 1 => g[i - 1] = f[i - 1]
        BY <3>2
      <3>4. f[i] = IF i = 1 THEN seqs[i] ELSE f[i - 1] \o seqs[i]
        BY <3>1 DEF Flattens
      <3> QED BY <3>1, <3>3, <3>4
    <2> QED BY <2>1, <2>2
  <1>2. Flattens(g, seqs, k + 1)
    <2>1. g = [i \in 1 .. k + 1 |-> g[i]]
      OBVIOUS
    <2> HIDE DEF g
    <2> QED BY <1>1, <2>1 DEF Flattens
  <1> QED BY <1>2

LEMMA SomethingFlattens ==
  ASSUME NEW seqs, NEW n \in Nat
  PROVE  \E f : Flattens(f, seqs, n)
  <1> DEFINE T == {k \in Nat : \E f : Flattens(f, seqs, k)}
  <1>1. 0 \in T
    <2>1. Flattens([i \in 1 .. 0 |-> 0], seqs, 0)
      BY DEF Flattens
    <2> QED BY <2>1
  <1>2. \A k \in Nat : k \in T => k + 1 \in T
    BY FlattensMore
  <1>3. Nat \subseteq T
    <2> HIDE DEF T
    <2> QED BY <1>1, <1>2, NaturalsAreCounted
  <1> QED BY <1>3

LEMMA FlattensType ==
  ASSUME NEW C, NEW seqs \in Seq(Seq(C)), NEW f,
         Flattens(f, seqs, Len(seqs))
  PROVE  \A k \in 1 .. Len(seqs) : f[k] \in Seq(C)
  <1> DEFINE T == {k \in Nat : k \in 1 .. Len(seqs) => f[k] \in Seq(C)}
  <1>1. 0 \in T
    OBVIOUS
  <1>2. ASSUME NEW k \in Nat, k \in T
        PROVE  k + 1 \in T
    <2> SUFFICES ASSUME k + 1 \in 1 .. Len(seqs) PROVE f[k + 1] \in Seq(C)
      OBVIOUS
    <2>1. \A i \in 1 .. Len(seqs) :
            f[i] = IF i = 1 THEN seqs[i] ELSE f[i - 1] \o seqs[i]
      BY DEF Flattens
    <2>2. f[k + 1] = IF k = 0 THEN seqs[k + 1] ELSE f[k] \o seqs[k + 1]
      BY <2>1
    <2>3. seqs[k + 1] \in Seq(C)
      OBVIOUS
    <2>4. k # 0 => f[k] \in Seq(C)
      BY <1>2
    <2> QED BY <2>2, <2>3, <2>4
  <1>3. Nat \subseteq T
    <2> HIDE DEF T
    <2> QED BY <1>1, <1>2, NaturalsAreCounted
  <1> QED BY <1>3

LEMMA FlattenSeqType ==
  ASSUME NEW C, NEW seqs \in Seq(Seq(C))
  PROVE  /\ FlattenSeq(seqs) \in Seq(C)
         /\ Len(seqs) = 0 => FlattenSeq(seqs) = <<>>
  <1>1. CASE Len(seqs) = 0
    BY <1>1 DEF FlattenSeq
  <1>2. CASE Len(seqs) # 0
    <2> DEFINE f == CHOOSE f : Flattens(f, seqs, Len(seqs))
    <2>1. FlattenSeq(seqs) = f[Len(seqs)]
      BY <1>2 DEF FlattenSeq, Flattens
    <2>2. \E g : Flattens(g, seqs, Len(seqs))
      <3>1. Len(seqs) \in Nat
        OBVIOUS
      <3> QED BY <3>1, SomethingFlattens
    <2>3. Flattens(f, seqs, Len(seqs))
      BY <2>2, Zenon
    <2> QED BY <1>2, <2>1, <2>3, FlattensType
  <1> QED BY <1>1, <1>2

-----------------------------------------------------------------------------
(***************************************************************************)
(* The conversions.                                                        *)
(***************************************************************************)
LEMMA PathsAreSequences ==
  \A p : p \in Paths <=> p \in Seq(Wide) /\ Len(p) <= MaxPathChars
  <1>1. MaxPathChars \in Nat
    BY LogFileAssumption
  <1>2. ASSUME NEW p \in Paths
        PROVE  p \in Seq(Wide) /\ Len(p) <= MaxPathChars
    <2>1. PICK m \in 0 .. MaxPathChars : p \in [1 .. m -> Wide]
      BY DEF Paths, BoundedSeq, SeqOf
    <2> QED BY <1>1, <2>1
  <1>3. ASSUME NEW p \in Seq(Wide), Len(p) <= MaxPathChars
        PROVE  p \in Paths
    <2>1. p \in [1 .. Len(p) -> Wide] /\ Len(p) \in 0 .. MaxPathChars
      BY <1>1, <1>3
    <2> QED BY <2>1 DEF Paths, BoundedSeq, SeqOf
  <1> QED BY <1>2, <1>3

\* A path in the code page.
Byte == {"a", "d1", "d2", "?", Slash}
Encoded(path) == FlattenSeq([i \in 1 .. Len(path) |-> Bytes(path[i])])

LEMMA EncodedType ==
  ASSUME NEW path \in Seq(Wide)
  PROVE  Encoded(path) \in Seq(Byte) /\ (path = <<>> => Encoded(path) = <<>>)
  <1> DEFINE encoded == [i \in 1 .. Len(path) |-> Bytes(path[i])]
  <1>1. ASSUME NEW i \in 1 .. Len(path)
        PROVE  Bytes(path[i]) \in Seq(Byte)
    <2>1. path[i] \in Wide
      OBVIOUS
    <2>2. CASE path[i] = "a"
      <3>1. <<"a">> \in Seq(Byte)
        BY DEF Byte
      <3> QED BY <2>2, <3>1 DEF Bytes
    <2>3. CASE path[i] = "d"
      <3>1. <<"d1", "d2">> \in Seq(Byte)
        BY DEF Byte
      <3> QED BY <2>3, <3>1 DEF Bytes
    <2>4. CASE path[i] = "u"
      <3>1. <<Replacement>> \in Seq(Byte)
        BY LogFileAssumption DEF Byte
      <3> QED BY <2>4, <3>1 DEF Bytes
    <2>5. CASE path[i] = Slash
      <3>1. <<Slash>> \in Seq(Byte)
        BY DEF Byte
      <3> QED BY <2>5, <3>1 DEF Bytes, Slash
    <2> QED BY <2>1, <2>2, <2>3, <2>4, <2>5 DEF Wide
  <1>2. encoded \in Seq(Seq(Byte)) /\ Len(encoded) = Len(path)
    BY <1>1
  <1>3. Encoded(path) = FlattenSeq(encoded)
    BY DEF Encoded
  <1> HIDE DEF encoded
  <1> QED BY <1>2, <1>3, FlattenSeqType

\* The NUL that the conversion leaves in the text is cut off again.
LEMMA NulIsCut ==
  ASSUME NEW path \in Seq(Wide)
  PROVE  LogFilePath(path) = Encoded(path)
  <1>1. WStringToString(path) = Encoded(path) \o <<NUL>>
    BY DEF WStringToString, Encoded
  <1>2. Encoded(path) \in Seq(Byte)
    BY EncodedType
  <1>3. Len(Encoded(path) \o <<NUL>>) - 1 = Len(Encoded(path))
    BY <1>2
  <1>4. SubSeq(Encoded(path) \o <<NUL>>, 1, Len(Encoded(path))) = Encoded(path)
    BY <1>2
  <1> QED BY <1>1, <1>3, <1>4 DEF LogFilePath, Front

(***************************************************************************)
(* The registered path, as it is cut, stored and read again.               *)
(***************************************************************************)
Cut(path) == SubSeq(path, 1, Min({Len(path), MAX_PATH - 1}))

LEMMA CutPath ==
  ASSUME NEW path \in Paths
  PROVE  /\ Cut(path) \in Seq(Wide)
         /\ Len(Cut(path)) =
              IF Len(path) < MAX_PATH THEN Len(path) ELSE MAX_PATH - 1
         /\ \A i \in 1 .. Len(Cut(path)) : Cut(path)[i] = path[i]
  <1>1. path \in Seq(Wide) /\ Len(path) \in Nat
    BY PathsAreSequences
  <1>2. MAX_PATH - 1 \in Nat
    BY LogFileAssumption
  <1> DEFINE n == IF Len(path) < MAX_PATH THEN Len(path) ELSE MAX_PATH - 1
  <1>3. Min({Len(path), MAX_PATH - 1}) = n /\ n \in 0 .. Len(path)
    <2>1. Min({Len(path), MAX_PATH - 1}) =
            IF Len(path) <= MAX_PATH - 1 THEN Len(path) ELSE MAX_PATH - 1
      BY <1>1, <1>2, MinOfTwo
    <2> QED BY <1>1, <1>2, <2>1, LogFileAssumption
  <1>4. Cut(path) = SubSeq(path, 1, n)
    BY <1>3 DEF Cut
  <1> HIDE DEF n
  <1>5. Cut(path) \in Seq(Wide) /\ Len(Cut(path)) = n
    BY <1>1, <1>3, <1>4
  <1>6. \A i \in 1 .. n : Cut(path)[i] = path[i]
    BY <1>1, <1>3, <1>4
  <1> QED BY <1>5, <1>6 DEF n

LEMMA StoredIsRead ==
  ASSUME NEW path \in Paths
  PROVE  GetStringRegKey(StoredPath(path)) = Cut(path)
  <1> DEFINE cut == Cut(path)
             value == Append(cut, NUL)
  <1>1. StoredPath(path) = value
    BY DEF StoredPath, Cut
  <1>2. cut \in Seq(Wide) /\ Len(cut) \in Nat /\ Len(cut) + 1 <= MAX_PATH
    BY CutPath, LogFileAssumption
  <1> HIDE DEF cut
  <1>3. Len(value) = Len(cut) + 1 /\ value # <<>> /\ DOMAIN value = 1 .. Len(cut) + 1
    BY <1>2
  <1>4. /\ \A i \in 1 .. Len(cut) : value[i] = cut[i] /\ cut[i] \in Wide
        /\ value[Len(cut) + 1] = NUL
    BY <1>2
  <1>5. NUL \notin Wide
    BY DEF NUL, Wide, Slash
  <1>6. \A i \in DOMAIN value : value[i] = NUL <=> i = Len(cut) + 1
    BY <1>2, <1>3, <1>4, <1>5
  <1>7. {i \in DOMAIN value : value[i] = NUL} = {Len(cut) + 1}
    BY <1>2, <1>3, <1>6
  <1>8. Min({i \in DOMAIN value : value[i] = NUL}) - 1 = Len(cut)
    BY <1>2, <1>7, MinOfOne
  <1>9. SubSeq(value, 1, Len(cut)) = cut
    BY <1>2
  <1>10. Len(value) <= BufferChars
    BY <1>2, <1>3, LogFileAssumption
  <1> HIDE DEF value
  <1>11. GetStringRegKey(value) = cut
    <2>1. ~(value = <<>> \/ Len(value) > BufferChars)
      BY <1>2, <1>3, <1>10, LogFileAssumption
    <2>2. GetStringRegKey(value) =
            SubSeq(value, 1, Min({i \in DOMAIN value : value[i] = NUL}) - 1)
      BY <2>1 DEF GetStringRegKey
    <2> QED BY <1>8, <1>9, <2>2
  <1> QED BY <1>1, <1>11 DEF cut

(***************************************************************************)
(* The directory.  The position after the last slash does not wrap: only   *)
(* npos + 1 does, and becomes 0.                                           *)
(***************************************************************************)
LEMMA LastSlash ==
  ASSUME NEW path \in Seq(Wide), Len(path) < MAX_PATH
  PROVE  \/ /\ \A i \in 1 .. Len(path) : path[i] # Slash
            /\ ClassLocation(path) = <<>>
         \/ \E m \in 1 .. Len(path) :
              /\ path[m] = Slash
              /\ \A i \in 1 .. Len(path) : path[i] = Slash => i <= m
              /\ ClassLocation(path) = SubSeq(path, 1, m)
  <1> DEFINE at == {i \in DOMAIN path : path[i] = Slash}
             width == 2 ^ SizeBits
  <1>1. width \in Nat /\ MAX_PATH < width - 1 /\ MAX_PATH \in Nat
    BY LogFileAssumption
  <1>2. Len(path) \in Nat /\ DOMAIN path = 1 .. Len(path)
    OBVIOUS
  <1>3. CASE at = {}
    <2>1. find_last_of(path, Slash) = width - 1
      BY <1>3 DEF find_last_of, npos
    <2> HIDE DEF width
    <2>2. (width - 1 + 1) % width = 0
      BY <1>1
    <2>3. Min({0, Len(path)}) = 0
      BY <1>2, MinOfTwo
    <2>4. SubSeq(path, 1, 0) = <<>>
      OBVIOUS
    <2>5. ClassLocation(path) = <<>>
      BY <2>1, <2>2, <2>3, <2>4 DEF ClassLocation, substr, width
    <2> QED BY <1>2, <1>3, <2>5
  <1>4. CASE at # {}
    <2> DEFINE m == Max(at)
    <2>1. m \in at /\ \A i \in at : i <= m
      <3>1. at \in SUBSET Nat /\ \A i \in at : i <= Len(path)
        BY <1>2
      <3> HIDE DEF at
      <3> QED BY <1>2, <1>4, <3>1, MaxOfNaturals
    <2>2. find_last_of(path, Slash) = m - 1
      BY <1>4 DEF find_last_of
    <2>3. m \in 1 .. Len(path) /\ path[m] = Slash
      BY <1>2, <2>1
    <2>4. \A i \in 1 .. Len(path) : path[i] = Slash => i <= m
      BY <1>2, <2>1
    <2> HIDE DEF m, width
    <2>5. (m - 1 + 1) % width = m
      BY <1>1, <1>2, <2>3
    <2>6. Min({m, Len(path)}) = m
      BY <1>2, <2>3, MinOfTwo
    <2>7. ClassLocation(path) = SubSeq(path, 1, m)
      BY <2>2, <2>5, <2>6 DEF ClassLocation, substr, width
    <2> QED BY <2>3, <2>4, <2>7
  <1> QED BY <1>3, <1>4

(***************************************************************************)
(* A directory that fits is the path up to one of the slashes that are     *)
(* left when it is cut, and the innermost is the path up to the last one.  *)
(***************************************************************************)
LEMMA SlashesOfDirectories ==
  ASSUME NEW path \in Paths, NEW e \in Fitting(path)
  PROVE  /\ e \in Seq(Wide) /\ Len(e) \in 1 .. Len(Cut(path))
         /\ Cut(path)[Len(e)] = Slash
         /\ \A i \in 1 .. Len(e) : e[i] = path[i]
  <1> DEFINE n == Len(e)
             cut == Cut(path)
  <1>1. path \in Seq(Wide) /\ Len(path) \in Nat
    BY PathsAreSequences
  <1>2. /\ e \in Seq(Wide) /\ e # <<>> /\ Len(e) < MAX_PATH
        /\ Len(e) <= Len(path) /\ SubSeq(e, 1, Len(e)) = SubSeq(path, 1, Len(e))
        /\ e[Len(e)] = Slash
    BY PathsAreSequences DEF Fitting, Directories, IsPrefix, Last
  <1>3. n \in Nat /\ n >= 1 /\ n <= Len(path) /\ n < MAX_PATH
    BY <1>2
  <1>4. \A i \in 1 .. n : e[i] = path[i]
    <2>1. \A i \in 1 .. n : SubSeq(e, 1, n)[i] = e[i]
      BY <1>2
    <2>2. \A i \in 1 .. n : SubSeq(path, 1, n)[i] = path[i]
      BY <1>1, <1>3
    <2> QED BY <1>2, <2>1, <2>2
  <1>5. /\ Len(cut) = IF Len(path) < MAX_PATH THEN Len(path) ELSE MAX_PATH - 1
        /\ \A i \in 1 .. Len(cut) : cut[i] = path[i]
    BY CutPath
  <1> HIDE DEF cut
  <1>6. n \in 1 .. Len(cut)
    BY <1>1, <1>3, <1>5, LogFileAssumption
  <1>7. cut[n] = Slash
    BY <1>2, <1>3, <1>4, <1>5, <1>6
  <1> QED BY <1>2, <1>4, <1>6, <1>7 DEF cut

LEMMA DirectoryFound ==
  ASSUME NEW path \in Paths, NEW m \in 1 .. Len(Cut(path)),
         Cut(path)[m] = Slash,
         \A i \in 1 .. Len(Cut(path)) : Cut(path)[i] = Slash => i <= m
  PROVE  Home(path) = {SubSeq(Cut(path), 1, m)}
  <1> DEFINE cut == Cut(path)
             d == SubSeq(cut, 1, m)
  <1>1. path \in Seq(Wide) /\ Len(path) \in Nat /\ Len(path) <= MaxPathChars
    BY PathsAreSequences
  <1>2. /\ cut \in Seq(Wide)
        /\ Len(cut) = IF Len(path) < MAX_PATH THEN Len(path) ELSE MAX_PATH - 1
        /\ \A i \in 1 .. Len(cut) : cut[i] = path[i]
        /\ Len(cut) \in Nat /\ Len(cut) <= Len(path) /\ Len(cut) < MAX_PATH
    BY CutPath, <1>1, LogFileAssumption
  <1>3. m \in Nat /\ m >= 1 /\ m <= Len(cut)
    BY <1>2
  <1>4. cut[m] = Slash
    OBVIOUS
  <1>5. \A i \in 1 .. Len(cut) : cut[i] = Slash => i <= m
    OBVIOUS
  <1>6. \A e \in Fitting(path) :
          /\ e \in Seq(Wide) /\ Len(e) \in 1 .. Len(cut)
          /\ cut[Len(e)] = Slash
          /\ \A i \in 1 .. Len(e) : e[i] = path[i]
    BY SlashesOfDirectories
  <1> HIDE DEF cut
  <1>7. d \in Seq(Wide) /\ Len(d) = m
    BY <1>2, <1>3
  <1>8. \A i \in 1 .. m : d[i] = path[i]
    <2>1. \A i \in 1 .. m : d[i] = cut[i] /\ i \in 1 .. Len(cut)
      BY <1>2, <1>3
    <2> QED BY <1>2, <2>1
  <1> HIDE DEF d
  <1>9. d \in Fitting(path)
    <2>1. d \in Paths
      BY <1>1, <1>2, <1>3, <1>7, PathsAreSequences, LogFileAssumption
    <2>2. IsPrefix(d, path)
      <3>1. SubSeq(d, 1, m) \in Seq(Wide) /\ Len(SubSeq(d, 1, m)) = m
        BY <1>3, <1>7
      <3>2. SubSeq(path, 1, m) \in Seq(Wide) /\ Len(SubSeq(path, 1, m)) = m
        BY <1>1, <1>2, <1>3
      <3>3. \A i \in 1 .. m : /\ SubSeq(d, 1, m)[i] = d[i]
                               /\ SubSeq(path, 1, m)[i] = path[i]
        BY <1>1, <1>2, <1>3, <1>7
      <3>4. SubSeq(d, 1, m) = SubSeq(path, 1, m)
        BY <1>8, <3>1, <3>2, <3>3
      <3> QED BY <1>1, <1>2, <1>3, <1>7, <3>4 DEF IsPrefix
    <2>3. Last(d) = Slash /\ d # <<>>
      BY <1>2, <1>3, <1>4, <1>7, <1>8 DEF Last
    <2>4. Len(d) < MAX_PATH
      BY <1>2, <1>3, <1>7, LogFileAssumption
    <2> QED BY <2>1, <2>2, <2>3, <2>4 DEF Fitting, Directories
  <1>10. ASSUME NEW e \in Fitting(path)
         PROVE  IsPrefix(e, d)
    <2> DEFINE n == Len(e)
    <2>1. /\ e \in Seq(Wide) /\ n \in Nat /\ n >= 1 /\ n <= m
          /\ \A i \in 1 .. n : e[i] = path[i]
      BY <1>2, <1>5, <1>6
    <2>2. SubSeq(e, 1, n) \in Seq(Wide) /\ Len(SubSeq(e, 1, n)) = n
      BY <2>1
    <2>3. SubSeq(d, 1, n) \in Seq(Wide) /\ Len(SubSeq(d, 1, n)) = n
      BY <1>3, <1>7, <2>1
    <2>4. \A i \in 1 .. n : /\ SubSeq(e, 1, n)[i] = e[i]
                             /\ SubSeq(d, 1, n)[i] = d[i]
                             /\ d[i] = path[i]
      BY <1>3, <1>7, <1>8, <2>1
    <2>5. SubSeq(e, 1, n) = SubSeq(d, 1, n)
      BY <2>1, <2>2, <2>3, <2>4
    <2> QED BY <1>7, <2>1, <2>5 DEF IsPrefix
  <1>11. ASSUME NEW e \in Home(path)
         PROVE  e = d
    <2>1. e \in Fitting(path) /\ IsPrefix(d, e)
      BY <1>9, <1>11 DEF Home
    <2>2. /\ e \in Seq(Wide) /\ Len(e) \in Nat /\ Len(e) <= m
          /\ \A i \in 1 .. Len(e) : e[i] = path[i]
      BY <1>2, <1>5, <1>6, <2>1
    <2>3. Len(d) <= Len(e)
      BY <2>1 DEF IsPrefix
    <2>4. Len(e) = m
      BY <1>3, <1>7, <2>2, <2>3
    <2> QED BY <1>7, <1>8, <2>2, <2>4
  <1>12. d \in Home(path)
    BY <1>9, <1>10 DEF Home
  <1> QED BY <1>11, <1>12 DEF d, cut

-----------------------------------------------------------------------------
(***************************************************************************)
(* What is stored is what the library's path was when it was registered.   *)
(***************************************************************************)
StoredAsRegistered ==
  \/ stored = <<>> /\ registered = <<>>
  \/ stored = StoredPath(registered)

LogFileInv == LogFileTypeOK /\ StoredAsRegistered

\* What the registry answers with is the cut path, or nothing if that is all.
LEMMA RegisteredIsRead ==
  ASSUME LogFileInv
  PROVE  GetStringRegKey(stored) = Cut(registered)
  <1>1. registered \in Paths
    BY DEF LogFileInv, LogFileTypeOK
  <1>2. CASE stored = <<>> /\ registered = <<>>
    <2>1. GetStringRegKey(stored) = <<>>
      BY <1>2 DEF GetStringRegKey
    <2>2. Cut(registered) \in Seq(Wide) /\ Len(Cut(registered)) = 0
      BY <1>1, <1>2, CutPath, LogFileAssumption
    <2> QED BY <2>1, <2>2
  <1>3. CASE stored = StoredPath(registered)
    BY <1>1, <1>3, StoredIsRead
  <1> QED BY <1>2, <1>3 DEF LogFileInv, StoredAsRegistered

\* Where the log file goes.
LEMMA PlacesArePaths ==
  ASSUME NEW found
  PROVE  Locations(found) \subseteq Paths
  <1>1. <<>> \in Paths
    <2>1. <<>> \in Seq(Wide) /\ Len(<<>>) <= MaxPathChars
      BY LogFileAssumption
    <2> QED BY <2>1, PathsAreSequences
  <1> QED BY <1>1 DEF Locations, CurrentDirectory, Home, Fitting, Directories

LEMMA PlaceFound ==
  ASSUME LogFileInv, NEW found \in BOOLEAN
  PROVE  Locations(found) = {IF found THEN ClassLocation(GetStringRegKey(stored))
                          ELSE <<>>}
  <1> DEFINE cut == Cut(registered)
  <1>1. registered \in Paths
    BY DEF LogFileInv, LogFileTypeOK
  <1>2. cut \in Seq(Wide) /\ Len(cut) < MAX_PATH
    BY <1>1, CutPath, PathsAreSequences, LogFileAssumption
  <1>3. GetStringRegKey(stored) = cut
    BY RegisteredIsRead
  <1>4. CASE ~found
    BY <1>4 DEF Locations, CurrentDirectory
  <1>5. CASE found /\ \A i \in 1 .. Len(cut) : cut[i] # Slash
    <2>1. Home(registered) = {}
      <3> SUFFICES ASSUME NEW e \in Fitting(registered) PROVE FALSE
        BY DEF Home
      <3> QED BY <1>1, <1>5, SlashesOfDirectories
    <2>2. ClassLocation(cut) = <<>>
      BY <1>2, <1>5, LastSlash
    <2> HIDE DEF cut
    <2> QED BY <1>3, <1>5, <2>1, <2>2 DEF Locations, CurrentDirectory
  <1>6. CASE found /\ \E i \in 1 .. Len(cut) : cut[i] = Slash
    <2>1. PICK m \in 1 .. Len(cut) :
            /\ cut[m] = Slash
            /\ \A i \in 1 .. Len(cut) : cut[i] = Slash => i <= m
            /\ ClassLocation(cut) = SubSeq(cut, 1, m)
      BY <1>2, <1>6, LastSlash
    <2>2. Home(registered) = {SubSeq(cut, 1, m)}
      BY <1>1, <2>1, DirectoryFound
    <2> HIDE DEF cut
    <2> QED BY <1>3, <1>6, <2>1, <2>2 DEF Locations
  <1> QED BY <1>4, <1>5, <1>6

LEMMA FileFollowsRegistration ==
  ASSUME LogFileInv, NEW found \in BOOLEAN, SetUp(found)
  PROVE  \E d \in Locations(found) :
           Locations(found) = {d} /\ logFile' = InDirectory(d)
  <1> DEFINE d == IF found THEN ClassLocation(GetStringRegKey(stored)) ELSE <<>>
  <1>1. Locations(found) = {d}
    BY PlaceFound
  <1>2. logFile' = LogFilePath(d) \o LOG_FILENAME
    BY DEF SetUp
  <1> HIDE DEF d
  <1>3. d \in Seq(Wide)
    BY <1>1, PlacesArePaths, PathsAreSequences
  <1>4. logFile' = InDirectory(d)
    BY <1>2, <1>3, NulIsCut DEF InDirectory, Encoded
  <1> QED BY <1>1, <1>4

\* No byte of a path is the NUL.
LEMMA NamesHaveNoNul ==
  /\ NUL \notin ToSet(LOG_FILENAME)
  /\ \A d \in Paths : NUL \notin ToSet(InDirectory(d))
  <1>1. NUL \notin ToSet(LOG_FILENAME)
    <2>1. \A i \in DOMAIN LOG_FILENAME : LOG_FILENAME[i] = "log"
      BY DEF LOG_FILENAME
    <2> QED BY <2>1 DEF ToSet, NUL
  <1>2. ASSUME NEW d \in Paths
        PROVE  NUL \notin ToSet(InDirectory(d))
    <2> DEFINE Character == Byte \cup {"log"}
    <2>1. Encoded(d) \in Seq(Byte)
      BY EncodedType, PathsAreSequences
    <2>2. Encoded(d) \in Seq(Character)
      BY <2>1
    <2>3. LOG_FILENAME \in Seq(Character)
      BY DEF LOG_FILENAME
    <2>4. InDirectory(d) \in Seq(Character)
      BY <2>2, <2>3 DEF InDirectory, Encoded
    <2>5. NUL \notin Character
      BY DEF NUL, Byte, Slash
    <2> HIDE DEF Character
    <2>6. \A i \in DOMAIN InDirectory(d) : InDirectory(d)[i] \in Character
      BY <2>4
    <2> QED BY <2>5, <2>6 DEF ToSet
  <1> QED BY <1>1, <1>2

LEMMA LogFileInitially == LogFileInit => LogFileInv
  <1> SUFFICES ASSUME LogFileInit PROVE LogFileInv
    OBVIOUS
  <1>1. Len(<<>>) = 0 /\ ToSet(<<>>) = {} /\ 0 <= MAX_PATH
    BY LogFileAssumption DEF ToSet
  <1>2. <<>> \in Paths
    <2>1. <<>> \in Seq(Wide) /\ Len(<<>>) <= MaxPathChars
      BY LogFileAssumption
    <2> QED BY <2>1, PathsAreSequences
  <1> QED BY <1>2, <1>1
        DEF LogFileInit, LogFileInv, LogFileTypeOK, StoredAsRegistered

LEMMA LogFileStep == LogFileInv /\ [LogFileNext]_logFileVars => LogFileInv'
  <1> SUFFICES ASSUME LogFileInv, [LogFileNext]_logFileVars PROVE LogFileInv'
    OBVIOUS
  <1>1. CASE RegisterCOMClass
    <2> DEFINE cut == Cut(library)
    <2>1. library \in Paths
      BY DEF LogFileInv, LogFileTypeOK
    <2>2. cut \in Seq(Wide) /\ Len(cut) < MAX_PATH /\ Len(cut) \in Nat
      BY <2>1, CutPath, PathsAreSequences, LogFileAssumption
    <2>3. stored' = Append(cut, NUL)
      BY <1>1 DEF RegisterCOMClass, StoredPath, Cut
    <2> HIDE DEF cut
    <2>4. Len(stored') = Len(cut) + 1 /\ stored'[Len(cut) + 1] = NUL
      BY <2>2, <2>3
    <2>5. Len(stored') <= MAX_PATH /\ Last(stored') = NUL
      BY <2>2, <2>4, LogFileAssumption DEF Last
    <2>6. LogFileTypeOK'
      BY <1>1, <2>1, <2>5 DEF RegisterCOMClass, LogFileInv, LogFileTypeOK
    <2>7. StoredAsRegistered'
      BY <1>1 DEF RegisterCOMClass, StoredAsRegistered
    <2> QED BY <2>6, <2>7 DEF LogFileInv
  <1>2. ASSUME NEW path \in Paths, Moves(path)
        PROVE  LogFileInv'
    <2>1. ToSet(<<>>) = {}
      BY DEF ToSet
    <2> QED BY <1>2, <2>1
          DEF Moves, LogFileInv, LogFileTypeOK, StoredAsRegistered
  <1>3. ASSUME NEW found \in BOOLEAN, SetUp(found)
        PROVE  LogFileInv'
    <2>1. NUL \notin ToSet(logFile')
      <3>1. PICK d \in Locations(found) : logFile' = InDirectory(d)
        BY <1>3, FileFollowsRegistration
      <3> QED BY <3>1, PlacesArePaths, NamesHaveNoNul
    <2> QED BY <1>3, <2>1
          DEF SetUp, LogFileInv, LogFileTypeOK, StoredAsRegistered
  <1>4. CASE Restarts
    <2>1. ToSet(<<>>) = {}
      BY DEF ToSet
    <2> QED BY <1>4, <2>1
          DEF Restarts, LogFileInv, LogFileTypeOK, StoredAsRegistered
  <1>5. CASE UNCHANGED logFileVars
    BY <1>5 DEF logFileVars, LogFileInv, LogFileTypeOK, StoredAsRegistered
  <1> QED BY <1>1, <1>2, <1>3, <1>4, <1>5 DEF LogFileNext

(***************************************************************************)
(* For paths, buffers and a size_t of any size: when the registry answers, *)
(* the log file is opened in the innermost directory of the registered     *)
(* path that fits MAX_PATH, unless its name has a character outside the    *)
(* code page; it is opened in the current directory when the registry does *)
(* not answer, nothing was registered or no directory fits, and then only; *)
(* and no NUL is left in the name.                                         *)
(***************************************************************************)
THEOREM LogFileIsSound == LogFileSpec => LogFileSound
  <1>1. LogFileSpec => []LogFileInv
    BY LogFileInitially, LogFileStep, PTL DEF LogFileSpec
  <1> DEFINE Beside ==
        logFile = <<>> /\ logFile' # <<>> =>
          \A d \in Locations(answered') :
            InCodePage(d) => logFile' = InDirectory(d)
  <1>2. LogFileInv /\ [LogFileNext]_logFileVars => [Beside]_logFileVars
    <2> SUFFICES ASSUME LogFileInv, LogFileNext, logFile = <<>>, logFile' # <<>>
                 PROVE  Beside
      BY DEF logFileVars
    <2>1. PICK found \in BOOLEAN : SetUp(found)
      BY DEF LogFileNext, RegisterCOMClass, Moves, Restarts
    <2>2. answered' = found
      BY <2>1 DEF SetUp
    <2> QED BY <2>1, <2>2, FileFollowsRegistration
  <1>3. LogFileSpec => [][Beside]_logFileVars
    BY <1>1, <1>2, PTL DEF LogFileSpec
  <1>4. LogFileInv => LogFileTypeOK
    BY DEF LogFileInv
  <1>5. LogBesideLibrary <=> [][Beside]_logFileVars
    BY DEF LogBesideLibrary
  <1> QED BY <1>1, <1>3, <1>4, <1>5, PTL DEF LogFileSound
=============================================================================
