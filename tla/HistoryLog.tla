------------------------------ MODULE HistoryLog ------------------------------
(***************************************************************************)
(* The alert history (history/logger.go): a JSONL file that Append extends *)
(* by one line, that rotation trims to maxEntries lines, and whose length  *)
(* the logger tracks in entryCount so that most rotation checks need not   *)
(* read the file.                                                          *)
(*                                                                         *)
(* Every operation holds l.mu, but its file operations are separate steps: *)
(* the process may die between them, and each of them may fail.  A write   *)
(* that fails half way leaves a fragment without newline at the end of the *)
(* file; the next line is glued to it and can no longer be parsed.         *)
(*                                                                         *)
(* log, counted and trimmed are history variables: what was ever written   *)
(* to each file since it was last cleared, whether entryCount was taken    *)
(* from this file, and whether the last rotation check did its work.       *)
(***************************************************************************)
EXTENDS Integers, Sequences

CONSTANTS
  Paths,        \* history file paths
  Limits,       \* values of maxEntries
  RotateEvery,  \* l.rotateEvery
  MaxAppends,   \* bound: calls of Append
  MaxFaults,    \* bound: torn writes and process deaths
  Malformed     \* a line json.Unmarshal refuses

ASSUME HistoryAssumption ==
  /\ RotateEvery \in Nat \ {0}
  /\ Limits \subseteq Nat
  /\ MaxAppends \in Nat /\ MaxFaults \in Nat
  /\ Malformed \notin Nat

VARIABLES
  filePath, maxEntries,     \* l.filePath, l.maxEntries
  appendCount, entryCount,  \* the two atomic counters
  file,         \* the newline-terminated lines of each file
  fragment,     \* an unterminated last line: a sequence of length 0 or 1
  exists,       \* the files that exist
  temp,         \* the lines of the temp file of the rotation in progress
  step,         \* "down" or what the holder of l.mu does next
  written,      \* number of Append calls so far: the next entry's number
  faults,
  log, counted, trimmed

loggerVars == <<filePath, maxEntries, appendCount, entryCount>>
diskVars == <<file, fragment, exists, temp>>
historyVars == <<loggerVars, diskVars, step, written, faults, log, counted, trimmed>>

Line == Nat \cup {Malformed}

HistoryInit ==
  /\ filePath \in Paths /\ maxEntries \in Limits
  /\ appendCount = 0 /\ entryCount = 0
  /\ file = [p \in Paths |-> <<>>] /\ fragment = [p \in Paths |-> <<>>]
  /\ exists = {} /\ temp = <<>>
  /\ step = "idle" /\ written = 0 /\ faults = 0
  /\ log = [p \in Paths |-> <<>>] /\ counted = TRUE /\ trimmed = TRUE
-----------------------------------------------------------------------------
(* A line is glued to the fragment before it.                              *)
NewLine == IF fragment[filePath] = <<>> THEN written ELSE Malformed

AfterAppend == IF appendCount' % RotateEvery = 0 THEN "check" ELSE "idle"

\* Faulty variant: the counter moves before the write is known to succeed.
AppendFailsCounted ==
  /\ step = "idle" /\ written < MaxAppends /\ faults < MaxFaults
  /\ written' = written + 1 /\ entryCount' = entryCount + 1 /\ faults' = faults + 1
  /\ exists' = exists \cup {filePath}
  /\ fragment' = [fragment EXCEPT ![filePath] = <<Malformed>>]
  /\ UNCHANGED <<filePath, maxEntries, appendCount, file, temp, step, log, counted, trimmed>>

(* Append whose write fails: nothing, part of the line, or all but its     *)
(* newline is in the file.  One whose open fails changes nothing.          *)
AppendFails ==
  /\ step = "idle" /\ written < MaxAppends /\ faults < MaxFaults
  /\ written' = written + 1 /\ faults' = faults + 1
  /\ exists' = exists \cup {filePath}
  /\ \E left \in {fragment[filePath], <<Malformed>>, <<NewLine>>} :
       fragment' = [fragment EXCEPT ![filePath] = left]
  /\ UNCHANGED <<loggerVars, file, temp, step, log, counted, trimmed>>

\* Faulty variant: rotation is left to the maintenance tick.
AppendNeverDue ==
  /\ step = "idle" /\ written < MaxAppends
  /\ written' = written + 1
  /\ exists' = exists \cup {filePath}
  /\ file' = [file EXCEPT ![filePath] = Append(@, NewLine)]
  /\ fragment' = [fragment EXCEPT ![filePath] = <<>>]
  /\ appendCount' = appendCount + 1 /\ entryCount' = entryCount + 1
  /\ log' = [log EXCEPT ![filePath] = Append(@, NewLine)]
  /\ UNCHANGED <<filePath, maxEntries, temp, step, faults, counted, trimmed>>

AppendEntry ==
  /\ step = "idle" /\ written < MaxAppends
  /\ written' = written + 1
  /\ exists' = exists \cup {filePath}
  /\ file' = [file EXCEPT ![filePath] = Append(@, NewLine)]
  /\ fragment' = [fragment EXCEPT ![filePath] = <<>>]
  /\ appendCount' = appendCount + 1 /\ entryCount' = entryCount + 1
  /\ step' = AfterAppend
  /\ log' = [log EXCEPT ![filePath] = Append(@, NewLine)]
  /\ UNCHANGED <<filePath, maxEntries, temp, faults, counted, trimmed>>

(* Clear: os.Truncate refuses a file that is not there.                    *)
Clear ==
  /\ step = "idle" /\ filePath \in exists
  /\ file' = [file EXCEPT ![filePath] = <<>>]
  /\ fragment' = [fragment EXCEPT ![filePath] = <<>>]
  /\ appendCount' = 0 /\ entryCount' = 0
  /\ log' = [log EXCEPT ![filePath] = <<>>]
  /\ counted' = TRUE /\ trimmed' = TRUE
  /\ UNCHANGED <<filePath, maxEntries, exists, temp, step, written, faults>>

\* Faulty variant: a tick without appends since the last reset is skipped.
MaintenanceIfAppended ==
  /\ step = "idle" /\ appendCount > 0 /\ step' = "check"
  /\ UNCHANGED <<loggerVars, diskVars, written, faults, log, counted, trimmed>>

(* The maintenance goroutine's tick, rotateIfNeeded.                       *)
Maintenance ==
  /\ step = "idle" /\ step' = "check"
  /\ UNCHANGED <<loggerVars, diskVars, written, faults, log, counted, trimmed>>

(* UpdateConfig, on every reload: entryCount keeps the count of the        *)
(* previous file.                                                          *)
UpdateConfig(p, max) ==
  /\ step = "idle"
  /\ filePath' = p /\ maxEntries' = max /\ appendCount' = 0
  /\ step' = "check"
  /\ counted' = (counted /\ p = filePath) /\ trimmed' = FALSE
  /\ UNCHANGED <<entryCount, diskVars, written, faults, log>>
-----------------------------------------------------------------------------
(* rotateLockedInline up to the decision to copy: the fast path, and the   *)
(* recount.                                                                *)
CheckSkips ==
  /\ step = "check" /\ entryCount <= maxEntries
  /\ step' = "idle" /\ trimmed' = counted
  /\ UNCHANGED <<loggerVars, diskVars, written, faults, log, counted>>

(* countLines returns what it read so far with an error: that is stored.   *)
CheckMiscounts ==
  /\ step = "check" /\ entryCount > maxEntries
  /\ entryCount' \in 0..Len(file[filePath])
  /\ step' = "idle" /\ counted' = FALSE /\ trimmed' = FALSE
  /\ UNCHANGED <<filePath, maxEntries, appendCount, diskVars, written, faults, log>>

CheckCounts ==
  /\ step = "check" /\ entryCount > maxEntries
  /\ IF Len(file[filePath]) <= maxEntries
     THEN /\ entryCount' = Len(file[filePath])
          /\ step' = "idle" /\ counted' = TRUE /\ trimmed' = TRUE
     ELSE /\ step' = "copy"
          /\ UNCHANGED <<entryCount, counted, trimmed>>
  /\ UNCHANGED <<filePath, maxEntries, appendCount, diskVars, written, faults, log>>

\* Faulty variant: the oldest lines are kept.
CopyOldest ==
  /\ step = "copy"
  /\ temp' = SubSeq(file[filePath], 1, maxEntries)
  /\ step' = "rename"
  /\ UNCHANGED <<loggerVars, file, fragment, exists, written, faults, log, counted, trimmed>>

(* The lines after the first `skip`, an unterminated one included, are     *)
(* copied to the temp file.                                                *)
Copy ==
  /\ step = "copy"
  /\ temp' = SubSeq(file[filePath], Len(file[filePath]) - maxEntries + 1, Len(file[filePath]))
               \o fragment[filePath]
  /\ step' = "rename"
  /\ UNCHANGED <<loggerVars, file, fragment, exists, written, faults, log, counted, trimmed>>

(* Opening, reading or writing fails, or the rename does: the file and the *)
(* counter stay.                                                           *)
RotationFails ==
  /\ step \in {"copy", "rename"}
  /\ step' = "idle" /\ temp' = <<>> /\ trimmed' = FALSE
  /\ UNCHANGED <<loggerVars, file, fragment, exists, written, faults, log, counted>>

Rename ==
  /\ step = "rename"
  /\ file' = [file EXCEPT ![filePath] = temp]
  /\ fragment' = [fragment EXCEPT ![filePath] = <<>>]
  /\ log' = [log EXCEPT ![filePath] = @ \o fragment[filePath]]
  /\ entryCount' = Len(temp) /\ temp' = <<>>
  /\ step' = "idle" /\ counted' = TRUE /\ trimmed' = TRUE
  /\ UNCHANGED <<filePath, maxEntries, appendCount, exists, written, faults>>
-----------------------------------------------------------------------------
(* The process dies, whatever it was doing.                                *)
LoggerDies ==
  /\ step # "down" /\ faults < MaxFaults
  /\ faults' = faults + 1
  /\ step' = "down" /\ temp' = <<>>
  /\ counted' = FALSE /\ trimmed' = FALSE
  /\ UNCHANGED <<loggerVars, file, fragment, exists, written, log>>

(* NewLogger: a count that fails leaves the counter at zero.  Nothing is   *)
(* trimmed before the first rotation check.                                *)
NewLogger(p, max) ==
  /\ step = "down"
  /\ filePath' = p /\ maxEntries' = max /\ appendCount' = 0
  /\ \/ entryCount' = Len(file[p]) /\ counted' = TRUE
     \/ entryCount' = 0 /\ counted' = FALSE
  /\ step' = "idle" /\ trimmed' = FALSE
  /\ UNCHANGED <<diskVars, written, faults, log>>

RotationStep == CheckSkips \/ CheckCounts \/ Copy \/ Rename
RotationFault == CheckMiscounts \/ RotationFails

HistoryNext ==
  \/ AppendEntry \/ AppendFails \/ Clear \/ Maintenance
  \/ \E p \in Paths, max \in Limits : UpdateConfig(p, max) \/ NewLogger(p, max)
  \/ RotationStep \/ RotationFault
  \/ LoggerDies

(* The holder of l.mu goes on, ticks come, and the file system stops       *)
(* failing some day.                                                       *)
HistoryFairness ==
  /\ WF_historyVars(Maintenance) /\ WF_historyVars(RotationStep)
  /\ <>[][~RotationFault]_historyVars

HistorySpec == HistoryInit /\ [][HistoryNext]_historyVars
FairHistorySpec == HistorySpec /\ HistoryFairness
-----------------------------------------------------------------------------
HistoryTypeOK ==
  /\ filePath \in Paths /\ maxEntries \in Limits
  /\ appendCount \in Nat /\ entryCount \in Nat /\ written \in Nat /\ faults \in Nat
  /\ file \in [Paths -> Seq(Line)] /\ log \in [Paths -> Seq(Line)]
  /\ fragment \in [Paths -> Seq(Line)] /\ \A p \in Paths : Len(fragment[p]) <= 1
  /\ exists \subseteq Paths /\ temp \in Seq(Line)
  /\ step \in {"idle", "check", "copy", "rename", "down"}
  /\ counted \in BOOLEAN /\ trimmed \in BOOLEAN

(* Whatever fails and wherever the process dies, entryCount is the number  *)
(* of lines of the file, from the moment it was taken from this file: no   *)
(* failed append, failed rotation or cleared file makes it drift           *)
(* (logger.go 111-117, 130-134, 400).                                      *)
CountExact == counted => entryCount = Len(file[filePath])

(* Once a rotation check did its work, the file exceeds the limit by fewer *)
(* than RotateEvery lines between appends, one more when a torn line was   *)
(* kept and one more while the check that is due is under way, until a     *)
(* rotation fails or the configuration changes (logger.go 116-120).        *)
OvershootBounded ==
  counted /\ trimmed =>
    Len(file[filePath]) <= maxEntries + RotateEvery + (IF step = "idle" THEN 0 ELSE 1)

Suffix(s, t) == Len(s) <= Len(t) /\ s = SubSeq(t, Len(t) - Len(s) + 1, Len(t))

(* The file always holds the newest of the lines written to it, in order:  *)
(* rotation drops the oldest lines only, a failed or interrupted rotation  *)
(* drops none (logger.go 303-402).                                         *)
NewestLinesKept == \A p \in Paths : Suffix(file[p], log[p])

(* A step never drops below maxEntries lines what it does not clear: at    *)
(* least the newest maxEntries lines survive every rotation, and files     *)
(* other than the current one are left alone (logger.go 303, 336-360).     *)
RotationKeepsLimit ==
  [][\A p \in Paths :
       \/ Len(file'[p]) >= Len(file[p])
       \/ log'[p] = <<>>
       \/ p = filePath /\ Len(file'[p]) >= maxEntries]_historyVars

(* A file longer than the limit, with a count taken from it, is trimmed    *)
(* some day by the maintenance tick (StartMaintenance), even if nothing is *)
(* appended to it and however many rotations failed before, unless the     *)
(* process dies or loses the count first.                                  *)
LimitApplied ==
  (step # "down" /\ counted /\ Len(file[filePath]) > maxEntries + 1)
    ~> (step = "down" \/ ~counted \/ Len(file[filePath]) <= maxEntries + 1)
=============================================================================
