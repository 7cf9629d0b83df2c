--------------------------- MODULE ResourceCache ---------------------------
(***************************************************************************)
(* cache::resource_cache::aquire for one path: small files are kept in     *)
(* memory and read again when their time of last write has grown.  The     *)
(* call asks the file system up to four times (exists, last_write_time     *)
(* twice, the content), and others may write, rename or remove the file    *)
(* between any two of them.  The entries of different paths do not meet,   *)
(* and the loop makes one call at a time.                                  *)
(*                                                                         *)
(* Contents are numbered as they are written; 0 is no content at all.      *)
(* (The specification is MemorySpec, of MemoryInit and MemoryNext, so that *)
(* a module may extend this one and FileDescriptorCache.)                  *)
(***************************************************************************)
EXTENDS Integers

CONSTANTS
    MaxTime,      \* bound: ticks of the file system's clock
    MaxVersion    \* bound: contents written

ASSUME BoundsAssumption == MaxTime \in Nat \ {0} /\ MaxVersion \in Nat

\* Operators named Wrong... are plausible mistakes in the code, kept to show
\* which property each would break; no specification uses them.
WrongEmpty == -1
Empty == 0
Versions == 0..MaxVersion

\* A resource that was never loaded has time 0, before any file's.
Times == 1..MaxTime
File == [version: Versions, mtime: Times]
Resource == [version: Versions, mtime: {0} \cup Times]
NoFileThere == [version |-> -1, mtime |-> -1]
NoEntry == [version |-> -1, mtime |-> -1]
Nothing == -1

VARIABLES
    clock,     \* the time a write is stamped with
    file,      \* what the path leads to
    written,   \* history: number of contents written so far
    stamped,   \* [Versions]: history, the time each content was stamped with
    backdated, \* history: a file was given an older time (rename, touch, copy)
    entry,     \* storage[p]: content and last_write of the resource
    pc,        \* "idle", or the next question: "exists", "changed", "time",
               \* "content"
    seen,      \* _last_write of the resource under construction
    current,   \* history: the contents the file has had during the call
    result     \* what the last call returned

memoryVars == <<clock, file, written, stamped, backdated, entry, pc, seen, current,
                result>>

MemoryTypeOK ==
    /\ clock \in Times
    /\ file \in File \cup {NoFileThere}
    /\ written \in Versions
    /\ stamped \in [Versions -> {0} \cup Times]
    /\ backdated \in BOOLEAN
    /\ entry \in Resource \cup {NoEntry}
    /\ pc \in {"idle", "exists", "changed", "time", "content"}
    /\ seen \in {0} \cup Times
    /\ current \subseteq Versions
    /\ result \in Versions \cup {Nothing}

MemoryInit ==
    /\ clock = 1
    /\ file = NoFileThere
    /\ written = 0
    /\ stamped = [v \in Versions |-> 0]
    /\ backdated = FALSE
    /\ entry = NoEntry
    /\ pc = "idle"
    /\ seen = 0
    /\ current = {}
    /\ result = Nothing

-----------------------------------------------------------------------------
\* The file system.

server == <<entry, pc, seen, result>>

Tick == /\ clock < MaxTime
        /\ clock' = clock + 1
        /\ UNCHANGED <<file, written, stamped, backdated, current, server>>

\* New content, by a write or by a rename over the path.
Write(t) ==
    /\ written < MaxVersion
    /\ t <= clock
    /\ backdated' = (backdated \/ t < clock)
    /\ written' = written + 1
    /\ file' = [version |-> written', mtime |-> t]
    /\ stamped' = [stamped EXCEPT ![written'] = t]
    /\ current' = current \cup {written'}
    /\ UNCHANGED <<clock, server>>

Remove ==
    /\ file # NoFileThere
    /\ file' = NoFileThere
    /\ UNCHANGED <<clock, written, stamped, backdated, current, server>>

-----------------------------------------------------------------------------
\* aquire.

kernel == <<clock, file, written, stamped, backdated>>

Return(r) == pc' = "idle" /\ result' = r

Call ==
    /\ pc = "idle"
    /\ pc' = "exists"
    /\ current' = IF file = NoFileThere THEN {} ELSE {file.version}
    /\ UNCHANGED <<entry, seen, result, kernel>>

\* A file that is gone takes its entry with it; without one, last_write_time
\* throws in what follows.
Exists ==
    /\ pc = "exists"
    /\ UNCHANGED <<seen, current, kernel>>
    /\ \/ /\ file = NoFileThere /\ entry # NoEntry
          /\ entry' = NoEntry
          /\ Return(Nothing)
       \/ /\ file # NoFileThere \/ entry = NoEntry
          /\ pc' = IF entry # NoEntry THEN "changed" ELSE "time"
          /\ UNCHANGED <<entry, result>>

WrongGrown(now, then) == FALSE
Grown(now, then) == now > then

\* last_write_time throws when the file is gone by now.
Changed ==
    /\ pc = "changed"
    /\ UNCHANGED <<entry, seen, current, kernel>>
    /\ \/ file = NoFileThere /\ Return(Nothing)
       \/ /\ file # NoFileThere
          /\ IF Grown(file.mtime, entry.mtime)
             THEN pc' = "time" /\ UNCHANGED result
             ELSE Return(entry.version)

\* resource::resource reads the time before the content.  When the time is
\* not to be had, storage[p] may have been made already, empty.
Time ==
    /\ pc = "time"
    /\ UNCHANGED <<current, kernel>>
    /\ \/ /\ file = NoFileThere
          /\ \/ UNCHANGED entry
             \/ /\ entry = NoEntry
                /\ entry' = [version |-> Empty, mtime |-> 0]
          /\ Return(Nothing)
          /\ UNCHANGED seen
       \/ /\ file # NoFileThere
          /\ seen' = file.mtime
          /\ pc' = "content"
          /\ UNCHANGED <<entry, result>>

WrongStamp(s) == clock
Stamp(s) == s

\* read_file of a path that is gone, or that cannot be opened (its mode, or no
\* descriptor left), yields no bytes and no error.
Readable == IF file = NoFileThere THEN {Empty} ELSE {Empty, file.version}
Content ==
    /\ pc = "content"
    /\ UNCHANGED <<seen, current, kernel>>
    /\ \E version \in Readable :
           /\ entry' = [version |-> version, mtime |-> Stamp(seen)]
           /\ Return(version)

MemoryNext ==
    \/ Tick \/ Remove \/ \E t \in Times : Write(t)
    \/ Call \/ Exists \/ Changed \/ Time \/ Content

MemorySpec == MemoryInit /\ [][MemoryNext]_memoryVars

-----------------------------------------------------------------------------
\* Properties.

\* While no file is given an older time than it was written at, an entry is
\* never stamped later than the content it holds, so what is written while it
\* is read is noticed by the next call (resource::resource asks for the time
\* before the content).
NeverStampedTooLate ==
    ~backdated /\ entry # NoEntry /\ entry.version # Empty =>
        entry.mtime <= stamped[entry.version]

\* A content the file did not have at any time of the call is returned only
\* when it was written within the same tick as the one the file has now, or
\* was found empty in it (aquire reloads only when the time has grown).
StaleOnlyWithinTick ==
    [][~backdated /\ pc # "idle" /\ pc' = "idle" /\ result' \in Versions \ current =>
        \/ result' = Empty
        \/ file # NoFileThere /\ stamped[result'] = file.mtime]_memoryVars
=============================================================================
