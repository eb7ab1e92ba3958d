# uMock.RewriteProfiler in TLA+

uMock is a proof of concept of a .NET mocking library. Its managed half
(`uMock`, `uMock.Executer`) stores two delegates and prints a date; the part
that works is `uMock.RewriteProfiler`, a COM in-process server written in C++
that the CLR loads as a profiler, together with the headers of log4cpp that are
compiled into it. This directory models that server, checks it with TLC on
small instances and proves its main safety properties with TLAPS. Paths below
are relative to `src/uMock.RewriteProfiler/`.

## 1. The system

| Part | Code | State | Operations |
|---|---|---|---|
| COM exports | `dllmain.cpp` | `g_DllLockCount`, `g_ThisDll` | `DllMain`, `DllGetClassObject`, `DllCanUnloadNow`, `DllRegisterServer`, `DllUnregisterServer` |
| Class factory | `RewriteProfilerClassFactory.*` | `m_nRefCount` | constructor, destructor, `AddRef`, `Release`, `QueryInterface`, `CreateInstance`, `LockServer` |
| Profiler | `RewriteProfiler.*`, `BaseProfiler.h` | `m_nRefCount`, `m_CorProfilerInfo`, `m_CorProfilerInfo2`, `m_CanUseV2Interfaces` | the same `IUnknown`, `Initialize`, `Shutdown`, the callbacks |
| Metadata cache | `RewriteProfiler.cpp:158-249` | the map from modules to metadata imports, two vectors of tokens | `ModuleLoadFinished`, `JITCompilationStarted`, `ReleaseMetadataCache` |
| Type enumeration | `MetadataHelper.hpp:17-70` | locals: a buffer of 1024 tokens, an enumerator | `GetTypeDefinitions`, `GetTypeReferences` |
| Other helpers | `MetadataHelper.hpp`, `RewriteHelper.h` | locals; the rewriter's `m_CorProfilerInfo` | `GetModuleInfo`, `GetFunctionDataByFunctionID`, `GetFullMethodName`, `AllocateMethodBody`, ... |
| Registration | `RegistryHelper.hpp` | keys and values under `HKCR\CLSID` | `RegisterCOMClass`, `UnregisterCOMClass`, `GetCOMClassLocation` |
| Logger | `Logger.hpp`, `ComUtils.hpp` | three static variables; log4cpp's root category; the name of the log file | constructor, `Shutdown`, `Info` ... `Error` |
| Log statements | `External/Include/log4cpp/Category.hh`, `CategoryStream.hh`, `convenience.h` | priorities and appenders of the categories; a stream's buffer | calls, streams and macros; `setPriority`, `addAppender`, `removeAllAppenders` |
| Thread support | `External/Include/log4cpp/threading/*` | a mutex, a thread-local pointer | `ScopedLock`; `get`, `reset`, `release`, the end of a thread and of the holder |
| Factory parameters | `External/Include/log4cpp/FactoryParams.hh` | a map of texts | `operator[]`, chains of `required` and `optional` |

How they interact. COM calls the exports; `DllGetClassObject` makes a factory,
`CreateInstance` makes profilers; both constructors and destructors count in
`g_DllLockCount`, from which `DllCanUnloadNow` decides whether the code may be
unmapped. The CLR holds a profiler, calls `Initialize` once and then the
callbacks, from whichever managed thread loads a module or compiles a method.
The callbacks fill the metadata cache through the enumeration; the destructor
empties it. Every factory and profiler contains a `CLogger`, whose constructor
asks the registry where the class is registered, converts and cuts that path
and opens a log file beside it; the `Release` that destroys a profiler shuts
the logger down for everybody. Every message passes the tests of `Category.hh`,
whose appenders are guarded by the mutex of the thread support.

What is hard in it:

* The server registers as `ThreadingModel` "Free": any thread may be in any
  method. The counters are `Interlocked`; the cache, the logger's statics and
  the pointers are not guarded at all, nor are log4cpp's priorities.
* Objects start with a reference count of zero. Three paths delete them: the
  last `Release`, a failed `QueryInterface` in `CreateInstance`, and one in
  `DllGetClassObject`.
* The moment between a decrement and its test, and the code that runs after
  `delete this`.
* Partial failures: an interface the CLR does not have, a constructor that
  throws, each call of the metadata and registry interfaces, a thread-local key
  that could not be allocated and is used all the same.
* State that outlives what it describes: a cached import whose module is gone,
  a flag that says that the logger works after it was shut down, keys of a
  registration that stopped half-way, a path the library has left.
* Five thread libraries that promise different things under one name: whether
  a mutex may be locked twice, and whether the end of a thread deletes what it
  holds.

The components with their status, and every hazard with the line where it
bites and the properties that would catch it, are in `PROJECT.json`.

## 2. Modules

| Module | Models | Instance and runs |
|---|---|---|
| `ComLifetime` | what a COM server promises about its objects, without threads and counters | property of `server_safety` |
| `ComServer` | exports, factory, lifetime and initialisation of the profiler | `MCComServer`: `server_safety`, `safe_release` |
| `MetadataCache` | an initialised profiler's callbacks and its cache | `MCMetadataCache`: `metadata_cache` |
| `ProfilerServer` | `ComServer` and `MetadataCache` together | `MCProfilerServer`: `profiler_server` |
| `TypeEnumeration` | the two listing functions | `MCTypeEnumeration`: `type_enumeration` |
| `MethodHelpers` | the other helpers and the sketch of the IL rewriter | `MCTypeEnumeration`: `type_enumeration` |
| `Registration` | the registry helper, in several processes | `MCRegistration`: `registration`, `registered_values` |
| `Logger` | `CLogger`'s set-up, shutdown and messages | `MCLogger`: `logger`; itself: `logger_once` |
| `LogFile` | the log file's name, from the registry to the appender | `MCLogger`: `logger` |
| `Category` | log4cpp's statements against changes of priorities and appenders | `MCLog4cpp`: `log4cpp` |
| `FactoryParams` | log4cpp's factory parameters | `MCLog4cpp`: `log4cpp` |
| `Threading` | log4cpp's mutex and thread-local holder, on five thread libraries | `MCLog4cpp`: `log4cpp`; itself: `deleted_with_thread`, `get_after_reset` |
| `ComServerProofs`, `MetadataCacheProofs`, `ProfilerServerProofs`, `RegistrationProofs`, `ThreadingProofs` | theorems about the module they are named after | |
| `LoggerProofs` | theorems about `Logger` and `LogFile` | |
| `CategoryProofs` | theorems about `Category` and `FactoryParams` | |
| `MetadataHelperProofs` | theorems about `TypeEnumeration` and `MethodHelpers` | |

Definitions carry the names of the functions and members they stand for.
Operators whose comment says "Mutant" change one of them the way a plausible
bug would; they are not part of any specification, but each property is known
to fail when its mutant takes the place of the definition.

Where an MC module extends several modules, these are parts of one component
that share no state: a variable `subject`, chosen at the start and never
changed, says which of them moves while the others stay as they were. The run is
then their checks in one, and the assumptions of all of them are evaluated.

**ComServer.** A step is one access to shared state. `pc[t]` says where thread
`t` is inside the library, in which object's method (`on`), which object it
creates or destroys (`obj`) and what its `InterlockedDecrement` returned
(`res`). `Release` is thus four steps: the client gives its reference up, the
decrement, the test, and, for the thread that got zero, the destructor
(`ReleasePointers` or `ReleaseIndeterminate`, then `DllUnlock`) and `Leave`,
the tail in which `CLogger::Shutdown` runs. `refs`, `locks` and `clrRefs` are
the references and locks of clients and the references on the CLR's object.
Members that the constructor does not set are `"uninit"`; using one may end
the process (`fault`).

**MetadataCache.** `ModuleLoadFinished` is up to seven steps. Inserting into a
container is two of them: the one that looks up where (`FindEntry`,
`ListDefinitions`, `ListReferences`) and the one that writes (`InsertEntry`,
`AppendDefinitions`, `AppendReferences`). If the container changed in between,
behaviour is undefined: `Outcomes` gives the results, and `raced` records it.
A ModuleID may be given to another module later, so an instance of a module is
an ID with a generation.

**ProfilerServer.** `INSTANCE`s of both. A callback of `ComServer` lasts as
long as the run of `MetadataCache`'s steps on the same thread, and the
destructor's step that releases the pointers empties the cache. What
`MetadataCache` assumes in its guards (callbacks only between `Initialize` and
the destructor) is here left to the reference counts: `EmptyCache` has no
guard of its own, and `ServesCache` says that the composition still is a
behaviour of `MetadataCache`.

**TypeEnumeration.** One action per call on `IMetaDataImport2` that reads the
tables (`FirstEnum`, `SecondEnum`); `CountEnum` also stands for `CloseEnum` and
the choice that follows. Another thread may emit types at any moment (`Emit`).

**MethodHelpers.** One action per question to the CLR, which may refuse each;
`holds` are the COM references in a call's local pointers, `stranded` those
that the call left without a pointer to them, `told` what it wrote to its
caller's variables.

**Registration.** One action per registry call; each may fail, and leaves by
the code's early return, through `__finally` for a registration. Handles to a
key that another process deletes become stale.

**Logger.** One action per statement of the `try` block that touches the
statics or the category, `Throws` for its exceptions, `SetFlag` for the
assignment at the end, which also logs the first line. A message is its level:
`Says` puts one line per attached appender into `written`, with whether the
build asked for it and whether that appender had its pattern.

**LogFile.** Operators for what each conversion does to a path: the length
`GetModuleFileName` gives it, the NUL that is stored with it, the buffer it is
read into, the bytes of the code page, the last backslash (found with
`size_t` arithmetic, modulo `2 ^ SizeBits`). The actions register the library,
move it, and open the log. `registered` and `answered` are history: the path
when it was last registered, and whether the registry answered this set-up; the
property is stated with them and the directories of a path (`Locations`), not
with the operators of the code.

**Category.** A statement is a call, a stream, or either behind a macro's
test; `stmt[t]` is where it has got to. `isPriorityEnabled` reads one
category's priority at a time (`Climb`), at up to three places (`Test`,
`Open`, `Log`). `CallAppenders` and `Appended` enter and leave the mutex of
the category. Priorities and appenders change at any moment in between.

**FactoryParams.** A chain is a sequence of questions; one action per call of
a validator, which reads a parameter or throws.

**Threading.** A row per thread library says what its mutex and its holder do
(`Row`), and `Macros` and `Included` derive which row a configuration header
compiles in. `Reset`, `Release`, `Destroy` and `Exit` are the holder's
operations; a `ScopedLock` is asked for (`Ask`) and granted (`Enter`). A caller
may give `reset` an object of its own, `NULL`, or what the holder has already,
which the code deletes and keeps (`kept`). When no key is left the constructor
does not notice (`MSThreads.hh:104`, `PThreads.hh:84`): on Windows there is no
index, under pthreads `_key` stays as the memory was, which may be the key of
another component (`key = "foreign"`), whose objects (`Foreign`) it then
returns and deletes, and which may change under it (`OtherUses`).

### Abstractions

* In `ComServer`, `Initialize` is one step: the CLR calls it once, before any
  callback. The callbacks are calls in progress; what they do is in
  `MetadataCache`, and that the two fit is checked in `ProfilerServer` and
  proved in `ProfilerServerProofs`. The logger is in `Logger`.
* COM unloads a free-threaded server only some time after `DllCanUnloadNow`
  answered `S_OK`; `UnloadLibrary` takes this delay to be long enough for the
  threads inside to leave. `CallsCovered` says exactly which code relies on
  this: the head of `DllGetClassObject`, what follows `delete this`, and a
  `Release` after a decrement that did not give zero.
* In `MetadataCache` a look-up that meets a write happens before or after it,
  and the tokens of one enumeration are one element.
* In `ProfilerServer` there is one profiler, and it lives once; the flag
  `m_CanUseV2Interfaces` has in the cache's part from the start the value that
  `Initialize` will give it.
* In `Registration` a value is absent, cut or whole; `GetModuleFileName`
  succeeds.
* In `LogFile` paths are made of five characters and buffers hold a few. What
  the code page has for a character outside it is a constant (`Replacement`):
  "?", or another character that looks alike.
* In `Category` a message is the number of pieces streamed into it, and every
  category is additive.
* In `Threading` the holder and the mutex share the threads and their ends, and
  nothing else, as in the code.

### External code

The bodies of log4cpp are in a binary library, and so are COM, the CLR and the
registry. They are modelled by what the code here relies on: the root category
writes to the appenders attached to it; the walk up the hierarchy and
`callAppenders` do what their declarations and comments say; the CLR may refuse
any question; a registry call may fail. `std::stringstream` leaves a number
alone when the text is empty; whether a malformed text makes it zero depends on
the compiler (`ZeroOnError`).

## 3. What is checked

### Properties that hold

`server_safety` (three threads, a factory, a profiler, two references per
object, one lock):
* `CountsExact`: the counter of a live object is the references that clients
  hold plus those being given back, a destroyed object has neither
  (`RefCountExact`), and `g_DllLockCount` is objects plus server locks
  (`LockCountExact`).
* `OneDestroyer`: an object without references is in the hands of exactly one
  thread, so that it is not destroyed twice and not forgotten.
* `UnloadSafe`: what may run while the count is zero (`CallsCovered`), and what
  an unloaded library has left behind, which is nothing
  (`UnloadedMeansEmpty`).
* `NoOrphans`: after any refused or failed calls, a server that nobody uses has
  no objects, has returned the CLR's references and may be unloaded.
* `CallbackSafe`: a callback has its object and its CLR pointers for its whole
  duration.
* `KeepsLifetime`: the server implements `ComLifetime` under the mapping
  `LifeOf`, `OwedOn`.
* `UnownedGoes`: an object without an owner is eventually destroyed.

`metadata_cache` (two threads, two ModuleIDs, each given out twice):
`SafeWhenSerial`: only overlapping `ModuleLoadFinished` calls race, never one
with `JITCompilationStarted`. While nothing has raced, `ImportsBalanced`: each
reference to an import is in the cache, on its way there, borrowed by a
callback, or lost because an earlier module had the same ID, and the destructor
gives back all but the lost ones; `TokensResolvable`: no token is kept for a
module without an entry; `CacheOnlyGrows`.

`profiler_server` (two threads, a factory, a profiler, a ModuleID given out
twice): `ServesCache`: the composition is a behaviour of `MetadataCache`;
`CacheInCallback`: whoever works on the cache is in a callback of a profiler
that exists and, where it needs one, has the `IMetaDataImport2`;
`UnloadReturnsImports`: an unloaded library keeps no import but lost ones.

`type_enumeration` (a buffer of two tokens, tables of up to four, every call
failing or not): `SuccessIsComplete`, `NothingInvented`, `EnumeratorsClosed`.
And, with two threads in the other helpers, `HelpersSound`: references are
given back on every path, except the imports that
`GetFunctionDataByFunctionID` is given (`ReferencesAccounted`); what a helper
returns is set against what it wrote: garbage comes only under `S_OK`, from
`GetModuleInfo` and `GetFunctionDataByFunctionID` (`OutcomeTold`).

`registration` (two processes, two registrations each, every call failing or
not): `RegisteredIsComplete` and `UnregisteredIsGone`: success means what it
says unless opposite calls overlap. `ResidueKnown`: what failures leave. A
server with a path and no `ThreadingModel`, which COM would activate in the main
apartment, is there only while a registration is about to set the value or after
the last one failed to (`HalfServerKnown`; it does happen, see below); beside no
registration, an unregistration that fails changed nothing or left no server,
and one that succeeds had found every key (`OnlyCompleteKeysGo`).
`HandlesAccounted`: only handles to `ProgId` leak.

`logger` (three threads, two profilers at once, one set-up that throws):
`FlagMeansLogging`: while set-ups run alone, the flag means one attached,
formatted appender until the first `Shutdown` and none ever after;
`OneFilePerSetUp`: every further file is paid for by a set-up that threw or
raced; `WrittenAsConfigured`: nothing above the build's priority is written,
however set-ups interleave, and everything in the pattern unless they do. And
for every path, `LogFileSound`: when the registry answers, the log opens in the
directory the library was in when it was registered, or, when its path was cut,
in the innermost directory that is left; it opens in the current directory when
the registry does not answer or there is no such directory, and then only; its
name has no NUL in it. Of a directory with a character outside the code page the
property claims nothing: the conversion replaces the character, and the run is
made with a replacement that may name another directory.

`log4cpp`, the statements (two threads, a root and a child, an appender):
`AllOrNothing`: a stream's text is written whole or not at all;
`WrittenAsAllowed`: a message is written only if some category on its way let it
through at some time during the statement; `AppendersSound`: no appender is
called or attached after it was deleted, none has two owners; `StatementEnds`.
The parameters, for every chain of up to three questions: `ConfiguredAsGiven`:
it throws exactly at the first required parameter that is missing, having
assigned what came before (`ChainMeansItsList`); a required parameter was set by
somebody, unless looking it up has made it (`RequiredMeansGiven`).

The threads (two, two objects, all five libraries, with and without a key):
`HolderSound`: an object has one owner, is deleted once and is not
reachable afterwards, but for one that a `reset` to itself deleted and kept;
under a key of the holder's own it is lost only with the holder, in the slot of
another thread, or with its thread where the end of a thread deletes nothing.
Under another component's key nothing is claimed. `MutexSound`: the mutex counts
its locks and excludes, also when one of two nested locks is left.

Each module has one `TypeOK` (in the smaller ones a conjunct of the property
that uses it); in the modules with counters it also says that none goes below
zero.

### Statements of the code that do not hold

| Run | Says | Does |
|---|---|---|
| `safe_release` | `stdafx.h:6`, "safely release COM pointer" | The constructor leaves both CLR pointers unset, and the destructor of a profiler that was never initialised calls `Release` through them. |
| `registered_values` | `RegistryHelper.hpp:103`, "if reached this line then all is ok" | Lines 39 and 80-82 pass the size of a pointer: the description is cut, and on Win32 `ThreadingModel` is "Fr". |
| `logger_once` | `Logger.hpp:32`, "guarantee constructor code will run only once" | Two threads that construct the first objects both set the logger up. |
| `deleted_with_thread` | `MSThreads.hh:98`, the held object "will be deleted upon termination of the thread to which it belongs" | A TLS index has no destructor: what a thread holds at its end is never deleted. |
| `get_after_reset` | `MSThreads.hh:148`, "@post get() == p" | When `TlsAlloc` had no index left, `reset` stores nothing and `get` answers `NULL`. |

Met while modelling, and behaviour of the models, but of no run of its own:

* `g_DllLockCount` is called "# of COM objects in existence" (`dllmain.cpp:8`),
  and counts server locks too, which is what `DllCanUnloadNow` needs.
* `Initialize` returns `S_OK` when `SetEventMask` fails.
* An enumeration whose first call fails returns an empty list and `S_OK`; nil
  tokens of a second listing that failed are cached.
* A first registration that fails at `RegistryHelper.hpp:80` leaves a server
  with a path and no `ThreadingModel`.
* An unregistration that fails after its first deletion cannot be completed by
  another one, and one that meets the residue of a failed registration is
  refused as well: only a registration that succeeds repairs either.
* A path with a character outside the code page makes a log file in another
  directory, or none.
* A profiler created after a `Shutdown` logs to nothing.
* `GetFunctionDataByFunctionID` returns `S_FALSE` exactly when its outputs can
  be used, and `S_OK` when they cannot; its import is never released.
* `CRewriteHelper` never sets its pointer to the CLR.
* The conversion at `Logger.hpp:39` keeps a NUL within the length, and so do
  the conversions of wide messages; the path's is cut off by the search for a
  backslash.
* `MSThreads.hh:67` calls the mutex "A simple, non recursive Mutex", but a
  `CRITICAL_SECTION` is entered again by its owner (the row `MSThreads`); with
  the mutexes of pthreads, omni and boost a thread that does so waits for ever.
* `reset(get())` deletes the object and keeps the pointer, under every thread
  library but boost's: it is used and deleted again from then on.
* `PThreads.hh:84` does not look at the result of `pthread_key_create`; after a
  failure the holder may use, and its destructor delete, what another component
  keeps under the same key.
* The holder of a build without threads leaves its pointer as it finds it
  (`DummyThreads.hh`): safe for static objects only.
* `ComDefinitions.h:2` announces different GUIDs for x86 and x64 and defines
  one.

### Bounds

| Bound | Value | Why it is enough |
|---|---|---|
| threads of the server | 3 (2 beside the cache) | one in the window between decrement and test, one that takes the object there, one that observes |
| `Factories`, `Profilers` | 1 and 1 | objects share only `g_DllLockCount`, which a factory and a profiler already make count more than one |
| `MaxRefs`, `MaxLocks` | 2, 1 | one reference that is not the last; a lock with and without objects |
| `Modules`, `MaxGenerations` | 2 (1 in the composition), 2 | a module beside another and one that gets a used ID |
| `BufferSize`, `MaxTypes` | 2, 4 | tables that are empty, smaller than, equal to, one larger and twice the buffer |
| threads of the helpers, `MaxStranded` | 2, 2 | calls share nothing; one reference that is lost beside one that is not yet |
| `Processes`, `MaxRegistrations` | 2, 2 | a call beside another, and a registration that meets the residue of one |
| threads of the logger, `MaxFailures`, `MaxProfilers` | 3, 1, 2 | two set-ups that race and a third beside both; a retry after an exception; a `Shutdown` with a profiler left |
| `MAX_PATH`, `BufferChars`, `MaxPathChars`, `SizeBits` | 4, 5, 4, 3 | paths shorter than the buffer, that just fit and that are cut; `-1` of a search that fails wraps |
| `MaxStatements`, `MaxChanges`, `Piece` | 2, 4, 2 | two statements at once; a priority that changes between two looks and back, and an appender that comes and goes; a text of more than one piece |
| levels, categories, appenders | `DEBUG`, 2, 1 | a level that the root does not let through at first; a priority inherited and one set; who owns which of several appenders is proved |
| `Names`, `MaxChain` | 2, 3 | a number and a text; a parameter asked for twice, and one after another kind |
| `Threads`, `Object`, `MaxNesting` of the thread support | 2, 2, 2 | the main thread and another; an object changes hands while another is held; a nested lock. `deletes` counts up to 2, since no third deletion tells more than a second |

The theorems below do away with all of them, except for the two liveness
properties: every other property of a passing run is a theorem.

`CHECK_DEADLOCK FALSE` is said where the system may stop: in `log4cpp`, where
statements are bounded and all threads may have ended or wait for a mutex that
is not recursive, and in the two runs about `Threading` alone.

### Fairness

Both liveness properties are under weak fairness of a thread's own next step, since
the operating system schedules it, and nothing is assumed of callers: calls may
never come, references and locks may be kept for ever.

* `ComServer`: the next step of a thread inside the library; no method blocks
  or waits for another thread. The failing alternatives are under the same
  fairness as the succeeding ones, as alternatives of one step. Only
  `UnownedGoes` uses it.
* `Category`: the next step of a statement, the mutex of the appenders
  included. Statements are bounded, so that a thread that waits for a mutex is
  not overtaken for ever; the run does not show that it would not starve
  otherwise.

## 4. What is proved

Each module of proofs has one inductive invariant `I` with `Init => I`, a lemma
per action that it is preserved, and the theorems as its consequences. The
assumptions are those the modules state of their constants: finite sets,
bounds that are numbers, `Null` and `None` outside the sets they stand beside.
Theorems are about the specification of the module itself; a run with a
`subject` checks the same formula of the same actions.

**ComServerProofs.** For every finite set of threads, factories and profilers:
`TypeCorrect`, `CountersExact`, `LockCounted`, `AllCountsExact`,
`DestroyedOnce`, `CodeCovered`, `CleanUnload`, `SafeToUnload`,
`NothingOrphaned`, `CallbacksSafe`, and `Refinement`: `Spec => KeepsLifetime`.

That a decrement does not take a counter below zero needs `RefCountExact`; that
its result zero means that no one else has the object needs that exactness
together with the place of every thread. `IInv` therefore adds `PlacesOK` (what
a thread must hold at each step: a method runs on an object to which its caller
has a reference, a thread past the pointers' release leaves none set),
`FieldsOK` (the values the profilers' members can have together),
`ClrRefsExact` (the CLR references are those pointers, counted) and
`UnloadedIdle`. Most actions move a thread and touch nothing that is counted
(`QuietSteps`); `StepKinds` sorts the others into a few kinds, so that each
lemma treats only the kinds that disturb its conjunct. The refinement reuses
them: a quiet step stutters in `ComLifetime`, every other kind is one of its
actions.

**ProfilerServerProofs.** For any number of threads, factories and modules:
`ServerUndisturbed`, `ServerServesCache`, `CacheUsedInCallbacks` and
`UnloadingReturnsImports` (and `BothTypesKept`, which they need). The modules
above and below prove the two halves, and nothing is proved again: `SP` and
`CP` are instances of these proofs over the composition's variables, and
`ServerConstants` and `CacheConstants` show that its constants are as they
assume. The argument has four parts.

1. A step of the composition is a step of the server, or leaves it alone. So
   `Spec => Server!Spec` (`ServerUndisturbed`), and the invariant of
   `ComServerProofs` holds of the composition although callbacks now take
   many steps.
2. That invariant tells what the server lets the cache see, but not enough:
   `Link` says how the two states fit. `Workers`: a thread that uses the cache
   is inside a callback of the profiler. `Foretold`: the flag that the cache
   reads is the member that `Initialize` set. `OneLife`: the profiler is over
   when it is not there or its destructor has released the pointers.
   `Unused`: before `Initialize` has succeeded no import was ever taken.
3. With `Link` every step is one of `MetadataCache`, or a stutter
   (`ServesStep`). The step that matters is the destructor's: the specification
   of the cache allows `ReleaseMetadataCache` only while the profiler lives and
   no thread is in a callback, the composition has no such guard. It follows
   from the exactness of the reference counts: a thread in a callback holds a
   reference, and the thread that destroys the object got zero.
4. Hence `Spec => ServesCache`, the invariant of `MetadataCacheProofs` holds of
   the composition too, and the last two theorems combine both.

**MetadataHelperProofs, the listings.** For every buffer size and table:
`TypesKept`, `CompleteOnSuccess`, `NeverInvented` and `AllClosed`. The invariant says what
the locals hold at each call (`EnumOK`, `CountOK`, `AgainOK`, `ReturnOK`); the
crux is `AgainOK`: a vector sized for the table as it was is filled by a table
that cannot have shrunk.

**MetadataCacheProofs.** For any number of threads, modules and reuses of an
ID: `CacheTypes`, `SerialLoadsAreSafe`, `ImportsAreBalanced`,
`TokensAreResolvable` and `CacheGrows`. `Ledger` counts the references on every
import: at most one is kept, besides those of callbacks that are naming a
method, and one is kept if the import is in the map, on its way to it, or in
the map as a thread saw it, which a race may bring back. While nothing has
raced, `Traced` says where a kept reference leads and that what displaced it is
an older instance; `Serial` says that a load that runs alone has seen the
containers as they are, from which `SafeWhenSerial` follows although a
`JITCompilationStarted` may run beside it.

**RegistrationProofs.** For any number of processes and either size of a
pointer: `RegistrationTypes`, `RegistrationCompletes`,
`UnregistrationCompletes`, `ResidueIsKnown` and `HandlesAreAccounted`. While
no two calls of opposite kinds overlap (`OneKind`), a key or a value that a
registration has behind it stays, whatever other registrations do, and likewise
what an unregistration has deleted stays away (`Registering`,
`Unregistering`, which also compares the registry with what the call found in
it). `HalfServerKnown` needs none of this: it is inductive beside it, overlaps
included. `Handles` balances the handles to `ProgId` that were opened
against those that were left, with the one a call is holding.

**LoggerProofs.** For any number of threads, profilers and failures:
`LoggerTypes`, `FlagIsTrue`, `AppendersAreAccounted` and
`LinesAreConfigured`. The account is `Paid`: the appenders there are or that
set-ups in progress will still create, less the failures and the races, are at
most one; at most none once a set-up threw, or when no set-up runs and the flag
is FALSE. That is what the next set-up, finding the flag FALSE, needs. `Alone`
follows a set-up that runs alone step by step; `Configured` says that the
priority is set before the first appender is attached.

For paths, buffers and a `size_t` of any size, `LogFileIsSound`. The invariant
is that the value in the registry is the path as it was when the library was
registered, cut and ended with a NUL (`StoredAsRegistered`); the rest is about
operators. `StoredIsRead`: reading the value gives the cut path back.
`LastSlash`: the position after the last slash never wraps, but `npos + 1`
does, so that a path with no slash gives the empty directory.
`SlashesOfDirectories`: every directory that fits ends at a slash of the cut
path, and `DirectoryFound`: the path up to the last one is the innermost of them
and the only such. So there is exactly one place for the log, and it is what
`ClassLocation` computes (`PlaceFound`). `NulIsCut`: the conversion's NUL is cut
off again. The conversion is `FlattenSeq`, which is recursive; that it exists
and yields a sequence (`FlattenSeqType`) needs induction, for which
`NaturalsAreCounted` states the principle for sets instead of predicates, from
the well-foundedness of inclusion among finite sets.

**CategoryProofs.** For any hierarchy, levels, appenders and threads:
`StreamsAreWhole`, `WritesAreAllowed` and `AppendersAreSound`. `Walked` keeps
the walk up inside the categories above the statement's, so that the priority
it stops at is one that `Allowing` has seen; `Calling` says that the mutex
protects what is still to be called, and `Apart`, that an owned appender is
attached nowhere else, makes this enough: what is deleted in one category is
not being called in another.

For any parameters and chains of any length, `ParametersAreSound`. A chain can
be read by recursion, but the property is about the list of its questions
(`ChainMeansItsList`), and is inductive together with `SetOrEmpty`: a text
that nobody set is none or empty. `ChainGrows`, `MissingGrows` and
`ReadingGrows` say what one more question does to the list, to what it misses
and to the variables; the last needs that a parameter that is asked for twice
is read twice to the same effect (`AssignTwice`).

**MetadataHelperProofs, the other helpers.** For any number of threads: `HelpersAreSound`. `Sound`
is about one call; `Granted` is the account of the imports that
`GetFunctionDataByFunctionID` was given: carried by a call, or stranded.

**ThreadingProofs.** For any threads, objects and nesting, under each of the
five libraries: `TypeCorrect`, `OneOwnerAlways`, `NoDanglingPointer`,
`NoDoubleDelete`, `LeaksOnlyAtExit`, `HolderIsSound`, `MutexCounts`,
`MutexExcludes` and `MutexIsSound`. Those about the holder are about a key that
is not another component's (`OwnKey`), and except the objects in `kept`, as the
properties do. `Held` adds to one owner per object that what somebody holds was
allocated, and not deleted unless it is in `kept`, which makes every other
deletion the first, and that every live object can be traced to a holder while
there is a key (`Traced`). `MutexInv` adds that under a library without threads
only the main thread takes a lock, and `LeaverInv` that a thread that ended left
nothing in its slot where the end of a thread deletes what it held.

Only model-checked: the liveness properties `UnownedGoes` and `StatementEnds`,
whose proofs need ENABLED of the steps under fairness, which is out of this
prover's reach. The five findings are counterexamples, and TLC finds them.

## 5. What is not modelled

* The bodies of log4cpp: they are in a library that is not in the repository.
  Its other headers declare classes (appenders, layouts, the NDC, configurators)
  whose behaviour is there; they contain nothing to translate, and neither do
  the configuration headers beyond the choice of threads.
* In the log statements: categories that are not additive, the hierarchy's
  registry and the wide-character buffer of a stream.
* The conversions of GUIDs in `ComUtils.hpp`, which format; `MethodData.h`, a
  record that nobody fills.
* The managed projects: nothing connects them to the profiler yet.
* The texts of messages and the layout of lines.
* Several profilers at once: they share `g_DllLockCount` and the logger, which
  are counted and modelled without saying whose they are. `ComServerProofs` is
  about any number of them.

## 6. Order of the work

Lifetime came first, since a mistake there takes the host process down; then the
cache, the enumeration that feeds it, registration and logging; then the
composition of the server with its cache, and the parts of log4cpp that are
compiled in. What could follow:

1. An abstract cache, a set of owned imports that `MetadataCache` implements
   when callbacks do not overlap, and an atomic registered / unregistered class
   that `Registration` implements when opposite calls do not.
2. The logger in the composition of the server: constructors set it up, the tail
   of a profiler's `Release` shuts it down while factories are alive.
