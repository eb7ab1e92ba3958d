------------------------------ MODULE LogFile ------------------------------
(***************************************************************************)
(* Where the log file goes: the path of the library that registration      *)
(* stored (RegistryHelper.hpp), as GetCOMClassLocation cuts it, as         *)
(* CComUtils converts it and as the logger's constructor appends to it.    *)
(*                                                                         *)
(* External: GetModuleFileName, which cuts a path that does not fit and    *)
(* ends it with NUL (Windows Vista and later); the registry, which may     *)
(* refuse; and the code page, in which a character may take two bytes or   *)
(* have no equivalent, for which it has "?" or another that looks alike.   *)
(* Data: paths over an alphabet of five characters, an ordinary one, a     *)
(* two-byte one, one outside the code page, "\\" and NUL, and buffer sizes *)
(* scaled down.                                                            *)
(***************************************************************************)
EXTENDS Integers, Sequences, FiniteSetsExt, SequencesExt

CONSTANTS
  MAX_PATH,      \* characters of szModulePath, the final NUL included
  BufferChars,   \* characters of szBuffer in GetStringRegKey (512)
  MaxPathChars,  \* bound: the length of a library's path
  SizeBits,      \* width of size_t
  Replacement    \* what the code page has for a character outside it

ASSUME LogFileAssumption ==
  /\ {MAX_PATH, BufferChars, MaxPathChars, SizeBits} \subseteq Nat \ {0}
  /\ MAX_PATH <= BufferChars
  /\ BufferChars < 2 ^ SizeBits - 1
  /\ Replacement \in {"?", "a"}

NUL == "NUL"
Slash == "\\"
Wide == {"a", "d", "u", Slash}
Paths == BoundedSeq(Wide, MaxPathChars)

LOG_FILENAME == <<"log">>

VARIABLES
  library,  \* the path the library was loaded from
  stored,   \* the value in the registry with its NUL; <<>>: none
  logFile,  \* the name the appender opens; <<>>: not yet
  registered, \* history: the library's path when it was last registered
  answered    \* history: the registry answered the set-up of this process

logFileVars == <<library, stored, logFile, registered, answered>>

LogFileTypeOK ==
  /\ library \in Paths
  /\ Len(stored) <= MAX_PATH
  /\ stored # <<>> => Last(stored) = NUL
  /\ NUL \notin ToSet(logFile)
  /\ registered \in Paths
  /\ answered \in BOOLEAN

LogFileInit ==
  /\ library \in Paths \ {<<>>}
  /\ stored = <<>>
  /\ logFile = <<>>
  /\ registered = <<>>
  /\ answered = FALSE

-----------------------------------------------------------------------------
\* GetModuleFileName, then lstrlen(szModulePath) + 1 characters are stored.
StoredPath(path) ==
  Append(SubSeq(path, 1, Min({Len(path), MAX_PATH - 1})), NUL)

RegisterCOMClass ==
  /\ stored' = StoredPath(library)
  /\ registered' = library
  /\ UNCHANGED <<library, logFile, answered>>

\* External: the library is copied to another place without being registered.
Moves(path) ==
  /\ library' = path
  /\ logFile' = <<>>
  /\ answered' = FALSE
  /\ UNCHANGED <<stored, registered>>

\* A value that does not fit the buffer is not read; one that does ends at
\* its first NUL.
GetStringRegKey(value) ==
  IF value = <<>> \/ Len(value) > BufferChars THEN <<>>
  ELSE SubSeq(value, 1, Min({i \in DOMAIN value : value[i] = NUL}) - 1)

\* Positions are those of std::wstring, counted from 0, in size_t.
npos == 2 ^ SizeBits - 1
find_last_of(s, c) ==
  LET at == {i \in DOMAIN s : s[i] = c} IN
  IF at = {} THEN npos ELSE Max(at) - 1

substr(s, count) == SubSeq(s, 1, Min({count, Len(s)}))

\* Mutant: the last slash itself is left out.
DirectoryBeforeSlash(path) == substr(path, find_last_of(path, Slash))

\* comClassPath.substr(0, indexOfLastSlash + 1)
ClassLocation(path) ==
  substr(path, (find_last_of(path, Slash) + 1) % (2 ^ SizeBits))

Bytes(c) == CASE c = "d" -> <<"d1", "d2">> [] c = "u" -> <<Replacement>> [] OTHER -> <<c>>

\* The text is converted with the NUL that ends it, and the NUL is part of
\* the result.
WStringToString(s) == FlattenSeq([i \in 1 .. Len(s) |-> Bytes(s[i])]) \o <<NUL>>

\* logFilePath.substr(0, logFilePath.length() - 1)
LogFilePath(modulePath) == Front(WStringToString(modulePath))

\* GetCOMClassLocation's failures leave the empty location; the constructor
\* does not look at its result.
SetUp(found) ==
  LET modulePath == IF found THEN ClassLocation(GetStringRegKey(stored))
                    ELSE <<>>
  IN
  /\ logFile = <<>>
  /\ logFile' = LogFilePath(modulePath) \o LOG_FILENAME
  /\ answered' = found
  /\ UNCHANGED <<library, stored, registered>>

\* The process ends; another one loads the library.
Restarts ==
  /\ logFile' = <<>>
  /\ answered' = FALSE
  /\ UNCHANGED <<library, stored, registered>>

LogFileNext ==
  \/ RegisterCOMClass
  \/ \E path \in Paths : Len(path) = 1 /\ Moves(path)
  \/ SetUp(TRUE)
  \/ SetUp(FALSE)
  \/ Restarts

LogFileSpec == LogFileInit /\ [][LogFileNext]_logFileVars

-----------------------------------------------------------------------------
(***************************************************************************)
(* Properties.                                                             *)
(***************************************************************************)
(***************************************************************************)
(* When the registry answers, the log file is opened in the directory the  *)
(* library was in when it was registered, wherever it is now; if its path  *)
(* did not fit MAX_PATH, in the innermost directory of the path that does: *)
(* no directory's name is cut and no last slash lost.  It is opened in the *)
(* current directory when the registry does not answer, when nothing was   *)
(* registered, and when the registered path has no directory that fits,    *)
(* and then only.                                                          *)
(*                                                                         *)
(* Nothing is claimed of a directory whose name has a character outside    *)
(* the code page: the conversion replaces it, and the name that results is *)
(* that of another directory, or of none.                                  *)
(***************************************************************************)
Directories(path) ==
  {d \in Paths : d # <<>> /\ IsPrefix(d, path) /\ Last(d) = Slash}
Fitting(path) == {d \in Directories(path) : Len(d) < MAX_PATH}
Home(path) == {d \in Fitting(path) : \A e \in Fitting(path) : IsPrefix(e, d)}

CurrentDirectory == <<>>
Locations(found) ==
  IF found /\ Home(registered) # {} THEN Home(registered)
  ELSE {CurrentDirectory}

InCodePage(d) == "u" \notin ToSet(d)
InDirectory(d) ==
  FlattenSeq([i \in 1 .. Len(d) |-> Bytes(d[i])]) \o LOG_FILENAME

LogBesideLibrary ==
  [][ logFile = <<>> /\ logFile' # <<>> =>
        \A d \in Locations(answered') :
          InCodePage(d) => logFile' = InDirectory(d) ]_logFileVars

(***************************************************************************)
(* No NUL is left in the name, and the name is that of the right place.    *)
(***************************************************************************)
LogFileSound == []LogFileTypeOK /\ LogBesideLibrary
=============================================================================
