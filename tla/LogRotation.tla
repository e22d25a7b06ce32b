----------------------------- MODULE LogRotation -----------------------------
(***************************************************************************)
(* LogRotationService: the daily rotation of the two Xray logs by copy and *)
(* truncate, its start-up run, its retry timer, the cleaning of expired    *)
(* archives, and the shutdown hook.                                        *)
(*                                                                         *)
(* Xray appends to its logs at any time; an entry is a number.  A run of   *)
(* rotateAndClean() is a sequence of steps between awaits; its temporary   *)
(* copy is invisible to everybody else and removed by the next run.        *)
(***************************************************************************)
EXTENDS Integers, Sequences, FiniteSets

CONSTANTS
  MaxDay,           \* bound: days that pass
  MaxEntries,       \* bound: log entries written
  RetentionDays,    \* XRAY_LOG_RETENTION_DAYS
  Faults,           \* kinds of fault that happen, see RotationFaults
  MaxFaults         \* bound: faults in a behaviour

RotationFaults ==
  {"io_error",      \* a step of a run throws
   "crash",         \* the process dies
   "long_run"}      \* a run is still working at midnight

ASSUME RotationAssumption ==
  RetentionDays \in Nat \ {0} /\ Faults \subseteq RotationFaults
ASSUME BoundsAssumption == MaxDay \in Nat \ {0} /\ {MaxEntries, MaxFaults} \subseteq Nat

filenames == <<"access", "error">>
Files == {"access", "error"}

VARIABLES
  up,               \* the process runs
  stopping,         \* the shutdown hook was called
  today,            \* the date in the configured time zone
  live,             \* entries in each current log
  archives,         \* the published archives
  rotated,          \* meta logs.rotation.<file>.date, 0 when absent (SQLite)
  run,              \* the pending run of rotateAndClean(), or NoRun (memory)
  retryNeeded,      \* memory
  retryTimer,       \* the one minute timer is set (memory)
  cleanedDate,      \* memory
  written,          \* entries written so far
  faults,           \* faults so far
  dropped,          \* history: entries appended between a copy and its truncate
  expired,          \* history: archives the cleaning removed
  torn              \* history: runs that ended between publish and truncate

memory == <<run, retryNeeded, retryTimer, cleanedDate>>
disk == <<live, archives, rotated>>
history == <<dropped, expired, torn>>
vars == <<up, stopping, today, disk, memory, written, faults, history>>

NoRun == [at |-> "none", date |-> 0, index |-> 0, copy |-> {}]

NewRun(date) == [at |-> "next", date |-> date, index |-> 1, copy |-> {}]

Init ==
  /\ up = FALSE
  /\ stopping = FALSE
  /\ today = 1
  /\ live = [file \in Files |-> {}]
  /\ archives = {}
  /\ rotated = [file \in Files |-> 0]
  /\ run = NoRun
  /\ retryNeeded = FALSE
  /\ retryTimer = FALSE
  /\ cleanedDate = 0
  /\ written = 0
  /\ faults = 0
  /\ dropped = {}
  /\ expired = {}
  /\ torn = 0

Fault(kind) ==
  /\ kind \in Faults
  /\ faults < MaxFaults
  /\ faults' = faults + 1

(***************************************************************************)
(* trigger(): at start-up, at midnight, and when the retry timer fires.    *)
(***************************************************************************)

Trigger(date) ==
  IF stopping \/ run # NoRun
  THEN UNCHANGED memory
  ELSE /\ run' = NewRun(date)
       /\ retryNeeded' = FALSE
       /\ retryTimer' = FALSE
       /\ UNCHANGED cleanedDate

\* Mutant: no run at start-up.
BootstrapWithoutRun ==
  /\ ~up
  /\ up' = TRUE
  /\ UNCHANGED <<stopping, today, disk, memory, written, faults, history>>

Bootstrap ==
  /\ ~up
  /\ up' = TRUE
  /\ Trigger(today)
  /\ UNCHANGED <<stopping, today, disk, written, faults, history>>

\* The CronJob fires only in a running agent.
Midnight ==
  /\ today < MaxDay
  /\ run # NoRun => "long_run" \in Faults
  /\ today' = today + 1
  /\ IF up THEN Trigger(today + 1) ELSE UNCHANGED memory
  /\ UNCHANGED <<up, stopping, disk, written, faults, history>>

RetryFires ==
  /\ up
  /\ retryTimer
  /\ run' = NewRun(today)
  /\ retryTimer' = FALSE
  /\ retryNeeded' = FALSE
  /\ UNCHANGED <<up, stopping, today, disk, cleanedDate, written, faults, history>>

(***************************************************************************)
(* rotateAndClean(): the files in turn, then the archives.                 *)
(***************************************************************************)

File == filenames[run.index]

NextFile == run' = [run EXCEPT !.at = "next", !.index = @ + 1, !.copy = {}]

Rotating == run.at = "next" /\ run.index <= Len(filenames)

\* Rotated for this date already.
SkipFile ==
  /\ Rotating
  /\ rotated[File] >= run.date
  /\ NextFile
  /\ UNCHANGED <<up, stopping, today, disk, retryNeeded, retryTimer, cleanedDate,
                 written, faults, history>>

\* The log is opened, its size read; what is written later is not copied.
Copy ==
  /\ Rotating
  /\ rotated[File] < run.date
  /\ run' = IF live[File] = {} THEN [run EXCEPT !.at = "record"]
            ELSE [run EXCEPT !.at = "publish", !.copy = live[File]]
  /\ UNCHANGED <<up, stopping, today, disk, retryNeeded, retryTimer, cleanedDate,
                 written, faults, history>>

\* publishArchive(): the first name with this date that is free.
Taken(file, date) ==
  {archive.number : archive \in {a \in archives : a.file = file /\ a.date = date}}

FirstFree(numbers) ==
  CHOOSE n \in 0 .. Cardinality(numbers) :
    n \notin numbers /\ \A m \in 0 .. n - 1 : m \in numbers

\* Mutant: an archive of the same date is overwritten.
PublishOverwriting ==
  /\ run.at = "publish"
  /\ archives' = {a \in archives : a.file # File \/ a.date # run.date - 1} \cup
       {[file |-> File, date |-> run.date - 1, number |-> 0, entries |-> run.copy]}
  /\ run' = [run EXCEPT !.at = "truncate"]
  /\ UNCHANGED <<up, stopping, today, live, rotated, retryNeeded, retryTimer,
                 cleanedDate, written, faults, history>>

Publish ==
  /\ run.at = "publish"
  /\ archives' = archives \cup
       {[file |-> File, date |-> run.date - 1,
         number |-> FirstFree(Taken(File, run.date - 1)), entries |-> run.copy]}
  /\ run' = [run EXCEPT !.at = "truncate"]
  /\ UNCHANGED <<up, stopping, today, live, rotated, retryNeeded, retryTimer,
                 cleanedDate, written, faults, history>>

\* Mutant: the log is left as it is.
TruncateNothing ==
  /\ run.at = "truncate"
  /\ run' = [run EXCEPT !.at = "record"]
  /\ UNCHANGED <<up, stopping, today, disk, retryNeeded, retryTimer,
                 cleanedDate, written, faults, history>>

Truncate ==
  /\ run.at = "truncate"
  /\ live' = [live EXCEPT ![File] = {}]
  /\ dropped' = dropped \cup (live[File] \ run.copy)
  /\ run' = [run EXCEPT !.at = "record"]
  /\ UNCHANGED <<up, stopping, today, archives, rotated, retryNeeded, retryTimer,
                 cleanedDate, written, faults, expired, torn>>

Record ==
  /\ run.at = "record"
  /\ rotated' = [rotated EXCEPT ![File] = run.date]
  /\ NextFile
  /\ UNCHANGED <<up, stopping, today, live, archives, retryNeeded, retryTimer,
                 cleanedDate, written, faults, history>>

\* Interrupted between publishing the copy and truncating the log.
Tears == torn' = torn + (IF run.at = "truncate" THEN 1 ELSE 0)

\* A step for a file throws: the next file is rotated, the run is repeated.
FileFails ==
  /\ run # NoRun
  /\ run.index <= Len(filenames)
  /\ rotated[File] < run.date
  /\ Fault("io_error")
  /\ retryNeeded' = TRUE
  /\ NextFile
  /\ Tears
  /\ UNCHANGED <<up, stopping, today, disk, retryTimer, cleanedDate, written,
                 dropped, expired>>

Cleaning == run # NoRun /\ run.index > Len(filenames)

\* Mutant: only a failed cleaning is tried again.
RunEndsForgetting(failed) ==
  /\ run' = NoRun
  /\ retryNeeded' = (retryNeeded \/ failed)
  /\ retryTimer' = (failed /\ ~stopping)

\* A finished run sets the timer when something failed.
RunEnds(failed) ==
  /\ run' = NoRun
  /\ retryNeeded' = (retryNeeded \/ failed)
  /\ retryTimer' = ((retryNeeded \/ failed) /\ ~stopping)

\* The read of the date a file was last rotated for is outside the try: when
\* it throws, the run ends with the other file and the cleaning left out.
ReadFails ==
  /\ Rotating
  /\ Fault("io_error")
  /\ RunEnds(TRUE)
  /\ UNCHANGED <<up, stopping, today, disk, cleanedDate, written, history>>

Expired(archive) == archive.date < run.date - RetentionDays

ExpiredArchives == {archive \in archives : Expired(archive)}

Remove(removed) == archives' = archives \ removed /\ expired' = expired \cup removed

CleanArchives ==
  /\ Cleaning
  /\ IF cleanedDate = run.date THEN UNCHANGED <<archives, expired>> ELSE Remove(ExpiredArchives)
  /\ cleanedDate' = run.date
  /\ RunEnds(FALSE)
  /\ UNCHANGED <<up, stopping, today, live, rotated, written, faults, dropped, torn>>

\* The directory cannot be read, or an archive not be removed after others were.
CleanFails ==
  /\ Cleaning
  /\ cleanedDate # run.date
  /\ Fault("io_error")
  /\ \E removed \in SUBSET ExpiredArchives :
       (removed = {} \/ removed # ExpiredArchives) /\ Remove(removed)
  /\ RunEnds(TRUE)
  /\ UNCHANGED <<up, stopping, today, live, rotated, cleanedDate, written, dropped, torn>>

(***************************************************************************)
(* Shutdown, crash, and Xray.                                              *)
(***************************************************************************)

\* onModuleDestroy() waits for the pending run.
Shutdown ==
  /\ up
  /\ ~stopping
  /\ stopping' = TRUE
  /\ retryTimer' = FALSE
  /\ retryNeeded' = FALSE
  /\ UNCHANGED <<up, today, disk, run, cleanedDate, written, faults, history>>

ForgetMemory ==
  /\ up' = FALSE
  /\ stopping' = FALSE
  /\ run' = NoRun
  /\ retryNeeded' = FALSE
  /\ retryTimer' = FALSE
  /\ cleanedDate' = 0

Exit ==
  /\ up
  /\ stopping
  /\ run = NoRun
  /\ ForgetMemory
  /\ UNCHANGED <<today, disk, written, faults, history>>

\* A crash may leave a cleaning half done, too.
Crash ==
  /\ up
  /\ Fault("crash")
  /\ IF Cleaning /\ cleanedDate # run.date
     THEN \E removed \in SUBSET ExpiredArchives : Remove(removed)
     ELSE UNCHANGED <<archives, expired>>
  /\ ForgetMemory
  /\ Tears
  /\ UNCHANGED <<today, live, rotated, written, dropped>>

\* Xray appends an entry.
Write(file) ==
  /\ written < MaxEntries
  /\ written' = written + 1
  /\ live' = [live EXCEPT ![file] = @ \cup {written + 1}]
  /\ UNCHANGED <<up, stopping, today, archives, rotated, memory, faults, history>>

-----------------------------------------------------------------------------

RunStep ==
  \/ SkipFile \/ Copy \/ Publish \/ Truncate \/ Record \/ FileFails \/ ReadFails
  \/ CleanArchives \/ CleanFails

Next ==
  \/ Bootstrap \/ Midnight \/ RetryFires
  \/ RunStep
  \/ Shutdown \/ Exit \/ Crash
  \/ \E file \in Files : Write(file)

Spec == Init /\ [][Next]_vars

\* PM2 starts the agent, a run takes its steps, timers fire.
Fairness ==
  /\ WF_vars(Bootstrap)
  /\ WF_vars(RunStep)
  /\ WF_vars(RetryFires)
  /\ WF_vars(Exit)

FairSpec == Spec /\ Fairness

-----------------------------------------------------------------------------
(***************************************************************************)
(* Properties.                                                             *)
(***************************************************************************)

Entries == 1 .. MaxEntries

Archive == [file : Files, date : 0 .. MaxDay, number : 0 .. MaxFaults,
            entries : SUBSET Entries]

\* Every variable keeps to its type.
TypeOK ==
  /\ {up, stopping, retryNeeded, retryTimer} \subseteq BOOLEAN
  /\ today \in 1 .. MaxDay
  /\ live \in [Files -> SUBSET Entries]
  /\ archives \subseteq Archive /\ expired \subseteq Archive
  /\ rotated \in [Files -> 0 .. MaxDay]
  /\ run \in [at : {"none", "next", "publish", "truncate", "record"},
              date : 0 .. MaxDay, index : 0 .. Len(filenames) + 1,
              copy : SUBSET Entries]
  /\ cleanedDate \in 0 .. MaxDay
  /\ written \in 0 .. MaxEntries
  /\ faults \in 0 .. MaxFaults
  /\ dropped \subseteq Entries
  /\ torn \in 0 .. MaxFaults

EntriesOf(set) == UNION {archive.entries : archive \in set}

\* Whatever step of a rotation fails or is cut short, an entry of a log is in
\* the log or in an archive, unless it was appended after the copy of a
\* rotation and before its truncate, or its archive has expired.
NothingLost ==
  1 .. written \subseteq (UNION {live[file] : file \in Files}) \cup EntriesOf(archives)
                           \cup dropped \cup EntriesOf(expired)

\* An entry is in two places only when a rotation was cut short between the
\* publication of its copy and the truncate; a retry after any other failure,
\* or a restart on the same day, duplicates nothing.
Copies(entry) ==
  {<<"archive", archive>> : archive \in {a \in archives \cup expired : entry \in a.entries}}
    \cup {<<"live", file>> : file \in {f \in Files : entry \in live[f]}}

DuplicatesOnlyWhenTorn ==
  \A entry \in 1 .. written :
    \/ Cardinality(Copies(entry)) <= 1 + torn
    \/ run.at = "truncate"

\* When the service rests, with no run pending and no retry scheduled, both
\* logs have been rotated for the current day.
RestsOnlyWhenRotated ==
  up /\ ~stopping /\ run = NoRun /\ ~retryTimer
    => \A file \in Files : rotated[file] = today

\* What a process that is down, a pending run, a timer that is set and a
\* shutdown wait for can be taken.  This follows from the guards of those
\* steps; it is the hypothesis about ENABLED of the proof of RotationCatchesUp.
StepsEnabled ==
  /\ ~up => ENABLED <<Bootstrap>>_vars
  /\ run # NoRun => ENABLED <<RunStep>>_vars
  /\ retryTimer => ENABLED <<RetryFires>>_vars
  /\ stopping /\ run = NoRun => ENABLED <<Exit>>_vars

\* Every log is rotated for the last day in the end, whatever failed before.
RotationCatchesUp ==
  \A file \in Files : rotated[file] # today ~> rotated[file] = today

=============================================================================
