-------------------------- MODULE LogRotationProofs --------------------------
(***************************************************************************)
(* Proofs about LogRotation for any number of days, entries, failures and  *)
(* crashes and any retention: no entry is lost, and a service that rests   *)
(* has rotated both logs.                                                  *)
(***************************************************************************)
EXTENDS LogRotation, FiniteSetTheorems, WellFoundedInduction, TLAPS

-----------------------------------------------------------------------------
(***************************************************************************)
(* The inductive invariant.                                                *)
(***************************************************************************)

RotationRun ==
  [at : {"none", "next", "publish", "truncate", "record"}, date : Nat, index : Nat,
   copy : SUBSET Nat]

\* A run is at one of the two logs, or has passed both.
RunWellFormed ==
  /\ live \in [Files -> SUBSET Nat] /\ written \in Nat /\ today \in Nat
  /\ run \in RotationRun
  /\ \/ run = NoRun
     \/ run.at = "next" /\ run.index \in {1, 2, 3}
     \/ run.at \in {"publish", "truncate", "record"} /\ run.index \in {1, 2}

\* What is about to be truncated has been published.
CopyIsPublished == run.at = "truncate" => run.copy \subseteq EntriesOf(archives)

LossInv == RunWellFormed /\ CopyIsPublished /\ NothingLost

\* Where an entry may be.
InLogs == UNION {live[file] : file \in Files}
Kept == InLogs \cup EntriesOf(archives) \cup dropped \cup EntriesOf(expired)

LEMMA FileFacts ==
  ASSUME RunWellFormed, run # NoRun, run.index <= Len(filenames)
  PROVE  run.index \in {1, 2} /\ File \in Files
BY DEF RunWellFormed, File, Files, filenames

\* A step that takes no entry away from anywhere loses none.
LEMMA KeepingLosesNone ==
  ASSUME NothingLost, written' = written, Kept \subseteq Kept'
  PROVE  NothingLost'
<1>1. NothingLost <=> 1 .. written \subseteq Kept
  BY DEF NothingLost, Kept, InLogs
<1>2. NothingLost' <=> 1 .. written' \subseteq Kept'
  BY DEF NothingLost, Kept, InLogs
<1> QED
  BY <1>1, <1>2

LEMMA LossInit == Init => LossInv
<1> SUFFICES ASSUME Init PROVE LossInv
  OBVIOUS
<1>1. RunWellFormed /\ CopyIsPublished
  BY DEF Init, RunWellFormed, CopyIsPublished, NoRun, RotationRun
<1>2. NothingLost
  BY DEF Init, NothingLost
<1> QED
  BY <1>1, <1>2 DEF LossInv

\* The steps of a run take place on one day.
LEMMA RunStepsTyped ==
  ASSUME RunWellFormed, RunStep
  PROVE  run # NoRun /\ run' \in RotationRun /\ UNCHANGED <<up, stopping, today>>
<1> DEFINE moved == [run EXCEPT !.at = "next", !.index = @ + 1, !.copy = {}]
<1>1. UNCHANGED <<up, stopping, today>>
  BY DEF RunStep, SkipFile, Copy, Publish, Truncate, Record, FileFails, ReadFails,
         CleanArchives, CleanFails
<1>2. CASE SkipFile \/ Record \/ FileFails
  <2>1. run' = moved /\ run.index \in Nat /\ run # NoRun
    BY <1>2, FileFacts
    DEF SkipFile, Record, FileFails, NextFile, Rotating, RunWellFormed, RotationRun, NoRun
  <2>2. run' \in RotationRun
    <3>1. run \in RotationRun /\ run.index + 1 \in Nat /\ {} \in SUBSET Nat
      BY <2>1 DEF RunWellFormed
    <3> QED
      BY <2>1, <3>1 DEF RotationRun
  <2> QED
    BY <1>1, <2>1, <2>2
<1>3. CASE Copy \/ Publish \/ Truncate
  <2>1. /\ run # NoRun /\ run.index \in {1, 2}
        /\ \/ run' = [run EXCEPT !.at = "publish", !.copy = live[File]]
           \/ \E at \in {"record", "truncate"} : run' = [run EXCEPT !.at = at]
    BY <1>3, FileFacts DEF Copy, Publish, Truncate, Rotating, RunWellFormed, NoRun
  <2>2. live[File] \in SUBSET Nat
    BY <2>1, FileFacts DEF RunWellFormed, filenames
  <2>3. run' \in RotationRun
    <3>1. CASE run' = [run EXCEPT !.at = "publish", !.copy = live[File]]
      BY <2>2, <3>1 DEF RunWellFormed, RotationRun
    <3>2. CASE \E at \in {"record", "truncate"} : run' = [run EXCEPT !.at = at]
      BY <3>2 DEF RunWellFormed, RotationRun
    <3> QED
      BY <2>1, <3>1, <3>2
  <2> QED
    BY <1>1, <2>1, <2>3
<1>4. CASE CleanArchives \/ CleanFails \/ ReadFails
  <2>1. run # NoRun /\ run' = NoRun
    BY <1>4 DEF CleanArchives, CleanFails, ReadFails, Cleaning, Rotating, RunEnds, NoRun
  <2> QED
    BY <1>1, <2>1 DEF NoRun, RotationRun
<1> QED
  BY <1>2, <1>3, <1>4 DEF RunStep

LEMMA RunPreservesLossInv ==
  ASSUME LossInv, RunStep
  PROVE  LossInv'
<1>1. /\ RunWellFormed /\ CopyIsPublished /\ NothingLost
      /\ run' \in RotationRun /\ today' = today
  BY RunStepsTyped DEF LossInv
<1> DEFINE moved == [run EXCEPT !.at = "next", !.index = @ + 1, !.copy = {}]
<1>2. ASSUME SkipFile \/ FileFails \/ Record PROVE LossInv'
  <2>1. /\ run # NoRun /\ run.index \in {1, 2} /\ run' = moved
        /\ UNCHANGED <<live, archives, written, dropped, expired>>
    BY <1>1, <1>2, FileFacts
    DEF SkipFile, FileFails, Record, Rotating, NextFile, RunWellFormed, NoRun, disk, history
  <2>2. run'.at = "next" /\ run'.index \in {1, 2, 3}
    BY <1>1, <2>1 DEF RunWellFormed, RotationRun
  <2> QED
    BY <1>1, <2>1, <2>2, KeepingLosesNone DEF LossInv, RunWellFormed, CopyIsPublished, Kept, InLogs
<1>3. ASSUME Copy PROVE LossInv'
  <2>1. /\ run # NoRun /\ run.index \in {1, 2}
        /\ UNCHANGED <<live, archives, written, dropped, expired>>
    BY <1>1, <1>3, FileFacts DEF Copy, Rotating, NoRun, disk, history
  <2>2. run'.at \in {"record", "publish"} /\ run'.index = run.index
    <3>1. \/ run' = [run EXCEPT !.at = "record"]
          \/ run' = [run EXCEPT !.at = "publish", !.copy = live[File]]
      BY <1>3 DEF Copy
    <3>2. CASE run' = [run EXCEPT !.at = "record"]
      BY <1>1, <2>1, <3>2 DEF RunWellFormed, RotationRun
    <3>3. CASE run' = [run EXCEPT !.at = "publish", !.copy = live[File]]
      BY <1>1, <2>1, <3>3 DEF RunWellFormed, RotationRun
    <3> QED
      BY <3>1, <3>2, <3>3
  <2> QED
    BY <1>1, <2>1, <2>2, KeepingLosesNone DEF LossInv, RunWellFormed, CopyIsPublished, Kept, InLogs
<1>4. ASSUME Publish PROVE LossInv'
  <2> DEFINE archive == [file |-> File, date |-> run.date - 1,
                         number |-> FirstFree(Taken(File, run.date - 1)),
                         entries |-> run.copy]
  <2>1. /\ run.at = "publish" /\ run.index \in {1, 2}
        /\ run' = [run EXCEPT !.at = "truncate"]
        /\ archives' = archives \cup {archive}
        /\ UNCHANGED <<live, written, dropped, expired>>
    BY <1>1, <1>4 DEF Publish, RunWellFormed, NoRun, history
  <2>2. archive.entries = run.copy
    OBVIOUS
  <2> HIDE DEF archive
  <2>3. run'.at = "truncate" /\ run'.index = run.index /\ run'.copy = run.copy
    BY <1>1, <2>1 DEF RunWellFormed, RotationRun, NoRun
  <2>4. EntriesOf(archives)' = EntriesOf(archives) \cup run.copy
    BY <2>1, <2>2 DEF EntriesOf
  <2>5. Kept \subseteq Kept'
    BY <2>1, <2>4 DEF Kept, InLogs
  <2>6. NothingLost'
    BY <1>1, <2>1, <2>5, KeepingLosesNone
  <2>7. RunWellFormed'
    BY <1>1, <2>1, <2>3 DEF RunWellFormed, NoRun
  <2>8. CopyIsPublished'
    BY <2>3, <2>4 DEF CopyIsPublished
  <2> QED
    BY <2>6, <2>7, <2>8 DEF LossInv
<1>5. ASSUME Truncate PROVE LossInv'
  <2>1. /\ run.at = "truncate" /\ run.index \in {1, 2} /\ File \in Files
        /\ run' = [run EXCEPT !.at = "record"]
        /\ live' = [live EXCEPT ![File] = {}]
        /\ dropped' = dropped \cup (live[File] \ run.copy)
        /\ UNCHANGED <<archives, written, expired>>
    BY <1>1, <1>5 DEF Truncate, RunWellFormed, NoRun, File, Files, filenames
  <2>2. run'.at = "record" /\ run'.index = run.index
    BY <1>1, <2>1 DEF RunWellFormed, RotationRun, NoRun
  <2>3. live' \in [Files -> SUBSET Nat]
    BY <1>1, <2>1 DEF RunWellFormed, RotationRun
  <2>4. live[File] \subseteq dropped' \cup EntriesOf(archives)'
    BY <1>1, <2>1 DEF CopyIsPublished
  <2>5. InLogs \subseteq InLogs' \cup live[File]
    <3>1. \A f \in Files : f # File => live'[f] = live[f]
      BY <1>1, <2>1 DEF RunWellFormed, RotationRun
    <3> SUFFICES ASSUME NEW entry \in InLogs, entry \notin live[File]
                 PROVE  entry \in InLogs'
      OBVIOUS
    <3>2. PICK f \in Files : entry \in live[f]
      BY DEF InLogs
    <3> QED
      BY <3>1, <3>2 DEF InLogs
  <2>6. Kept \subseteq Kept'
    BY <2>1, <2>4, <2>5 DEF Kept
  <2> QED
    BY <1>1, <2>1, <2>2, <2>3, <2>6, KeepingLosesNone DEF LossInv, RunWellFormed, CopyIsPublished
<1>6. ASSUME CleanArchives \/ CleanFails \/ ReadFails PROVE LossInv'
  <2>1. /\ run' = NoRun /\ UNCHANGED <<live, written, dropped>>
        /\ archives \cup expired \subseteq archives' \cup expired'
    BY <1>6 DEF CleanArchives, CleanFails, ReadFails, Remove, ExpiredArchives, RunEnds, disk, history
  <2>2. EntriesOf(archives) \cup EntriesOf(expired)
          \subseteq EntriesOf(archives') \cup EntriesOf(expired')
    BY <2>1 DEF EntriesOf
  <2>3. InLogs' = InLogs
    BY <2>1 DEF InLogs
  <2>4. Kept \subseteq Kept'
    BY <2>1, <2>2, <2>3 DEF Kept
  <2> QED
    BY <1>1, <2>1, <2>4, KeepingLosesNone
    DEF LossInv, RunWellFormed, CopyIsPublished, NoRun, RotationRun
<1> QED
  BY <1>2, <1>3, <1>4, <1>5, <1>6 DEF RunStep

\* Outside of a run no entry moves: a run begins, or is abandoned.
LEMMA OthersPreserveLossInv ==
  ASSUME LossInv, Bootstrap \/ Midnight \/ RetryFires \/ Shutdown \/ Exit \/ Crash
                    \/ UNCHANGED vars
  PROVE  LossInv'
<1>1. /\ UNCHANGED <<live, written, dropped>>
      /\ archives \cup expired \subseteq archives' \cup expired'
      /\ run' = NoRun \/ UNCHANGED <<archives, expired>>
  BY DEF Bootstrap, Midnight, RetryFires, Shutdown, Exit, Crash, ForgetMemory, Remove,
         ExpiredArchives, vars, disk, history
<1>2. today' \in Nat /\ (run' \in {run, NoRun} \/ \E date \in Nat : run' = NewRun(date))
  BY DEF LossInv, RunWellFormed, Bootstrap, Midnight, RetryFires, Shutdown, Exit,
      Crash, Trigger, ForgetMemory,
         vars, memory
<1>3. RunWellFormed' /\ CopyIsPublished'
  BY <1>1, <1>2 DEF LossInv, RunWellFormed, CopyIsPublished, NoRun, NewRun, RotationRun
<1>4. EntriesOf(archives) \cup EntriesOf(expired)
        \subseteq EntriesOf(archives') \cup EntriesOf(expired')
  BY <1>1 DEF EntriesOf
<1>5. Kept \subseteq Kept'
  BY <1>1, <1>4 DEF Kept, InLogs
<1> QED
  BY <1>1, <1>3, <1>5, KeepingLosesNone DEF LossInv

LEMMA WritePreservesLossInv ==
  ASSUME LossInv, NEW file \in Files, Write(file)
  PROVE  LossInv'
<1>1. /\ written \in Nat /\ written' = written + 1
      /\ live \in [Files -> SUBSET Nat]
      /\ live' = [live EXCEPT ![file] = @ \cup {written + 1}]
      /\ UNCHANGED <<run, today, archives, dropped, expired>>
  BY DEF LossInv, RunWellFormed, Write, memory, history
<1>2. /\ live' \in [Files -> SUBSET Nat]
      /\ \A f \in Files : live[f] \subseteq live'[f]
      /\ written + 1 \in live'[file]
  BY <1>1
<1>3. InLogs \subseteq InLogs' /\ written + 1 \in InLogs'
  BY <1>2 DEF InLogs
<1>4. 1 .. written' = 1 .. written \cup {written + 1}
  BY <1>1
<1>5. NothingLost'
  BY <1>1, <1>3, <1>4 DEF LossInv, NothingLost, InLogs
<1> QED
  BY <1>1, <1>2, <1>5 DEF LossInv, RunWellFormed, CopyIsPublished

\* Whatever step of a rotation fails or is cut short, every entry is still in
\* its log or in an archive, was written between a copy and its truncate, or
\* was in an archive that has expired (log-rotation.service.ts).
THEOREM NoEntryIsLost == Spec => []NothingLost
<1>1. ASSUME LossInv, [Next]_vars PROVE LossInv'
  BY <1>1, RunPreservesLossInv, OthersPreserveLossInv, WritePreservesLossInv DEF Next
<1>2. LossInv => NothingLost
  BY DEF LossInv
<1> QED
  BY <1>1, <1>2, LossInit, PTL DEF Spec

-----------------------------------------------------------------------------
(***************************************************************************)
(* A service at rest has rotated, when no run is still working at          *)
(* midnight.                                                               *)
(***************************************************************************)

\* A run rotates for the current day, and what it has passed is rotated or
\* will be tried again.
RunIsForToday ==
  /\ ~up => ~stopping /\ run = NoRun
  /\ run # NoRun => run.date = today
  /\ run # NoRun /\ ~stopping /\ ~retryNeeded =>
       /\ run.index > 1 => rotated["access"] = today
       /\ run.index > 2 => rotated["error"] = today

DatesTyped ==
  /\ today \in Nat
  /\ {up, stopping, retryNeeded, retryTimer} \subseteq BOOLEAN
  /\ rotated \in [Files -> Nat]
  /\ \A file \in Files : rotated[file] <= today

RestInv == DatesTyped /\ RunIsForToday /\ RestsOnlyWhenRotated

LEMMA RestInit == Init => RestInv
<1> SUFFICES ASSUME Init PROVE RestInv
  OBVIOUS
<1>1. DatesTyped
  <2>1. {up, stopping, retryNeeded, retryTimer} \subseteq BOOLEAN
    BY DEF Init
  <2> QED
    BY <2>1 DEF Init, DatesTyped
<1>2. RunIsForToday /\ RestsOnlyWhenRotated
  BY DEF Init, RunIsForToday, RestsOnlyWhenRotated
<1> QED
  BY <1>1, <1>2 DEF RestInv

LEMMA StartsPreserveRestInv ==
  ASSUME RestInv, "long_run" \notin Faults, Bootstrap \/ Midnight \/ RetryFires
  PROVE  RestInv'
<1>1. today' \in {today, today + 1} /\ UNCHANGED rotated /\ stopping' = stopping
  BY DEF Bootstrap, Midnight, RetryFires, disk
<1>2. CASE run' = NewRun(today') /\ up' = TRUE /\ {retryNeeded', retryTimer'} \subseteq BOOLEAN
  <2>1. DatesTyped'
    BY <1>1, <1>2 DEF RestInv, DatesTyped
  <2>2. /\ run' # NoRun /\ run'.date = today' /\ run'.index = 1
    BY <1>2 DEF NewRun, NoRun
  <2> QED
    BY <1>2, <2>1, <2>2 DEF RestInv, RunIsForToday, RestsOnlyWhenRotated
<1>3. CASE stopping /\ UNCHANGED <<up, memory>> /\ (run # NoRun => today' = today)
  BY <1>1, <1>3 DEF RestInv, DatesTyped, RunIsForToday, RestsOnlyWhenRotated, memory
<1>4. CASE ~up /\ UNCHANGED <<up, memory>>
  BY <1>1, <1>4 DEF RestInv, DatesTyped, RunIsForToday, RestsOnlyWhenRotated, memory
<1>5. CASE Bootstrap
  BY <1>2, <1>5 DEF Bootstrap, Trigger, RestInv, RunIsForToday, DatesTyped
<1>6. CASE Midnight
  <2>1. run = NoRun /\ today' = today + 1 /\ UNCHANGED <<up, stopping>>
    BY <1>6 DEF Midnight
  <2> QED
    BY <1>2, <1>3, <1>4, <1>6, <2>1 DEF Midnight, Trigger, RestInv, DatesTyped
<1>7. CASE RetryFires
  BY <1>2, <1>7 DEF RetryFires, RestInv, DatesTyped
<1> QED
  BY <1>5, <1>6, <1>7

LEMMA RunPreservesRestInv ==
  ASSUME LossInv, RestInv, RunStep
  PROVE  RestInv'
<1>0. RunWellFormed /\ run # NoRun /\ UNCHANGED <<up, stopping, today>>
  BY RunStepsTyped DEF LossInv
<1>1. /\ run.index \in {1, 2, 3} /\ run.date = today
      /\ today \in Nat
      /\ rotated \in [Files -> Nat] /\ \A file \in Files : rotated[file] <= today
  BY <1>0 DEF RunWellFormed, RestInv, DatesTyped, RunIsForToday
<1>2. File = IF run.index = 1 THEN "access" ELSE IF run.index = 2 THEN "error" ELSE File
  BY DEF File, filenames
<1> DEFINE moved == [run EXCEPT !.at = "next", !.index = @ + 1, !.copy = {}]
<1>3. ASSUME run' = moved
      PROVE  run' # NoRun /\ run'.date = today /\ run'.index = run.index + 1
  BY <1>0, <1>1, <1>3 DEF RunWellFormed, RotationRun, NoRun
<1>4. ASSUME SkipFile \/ Record \/ FileFails PROVE RestInv'
  <2>1. /\ run' = moved /\ run.index \in {1, 2} /\ UNCHANGED retryTimer
        /\ retryNeeded' \in BOOLEAN
    BY <1>0, <1>1, <1>4, FileFacts
    DEF SkipFile, Record, FileFails, NextFile, Rotating, RunWellFormed,
       NoRun, RestInv, DatesTyped
  <2>2. \/ retryNeeded' /\ UNCHANGED rotated
        \/ UNCHANGED <<rotated, retryNeeded>> /\ rotated[File] = today
        \/ rotated' = [rotated EXCEPT ![File] = today] /\ UNCHANGED retryNeeded
    <3>1. File \in Files
      BY <1>2, <2>1 DEF Files
    <3> QED
      BY <1>0, <1>1, <1>4, <3>1 DEF SkipFile, Record, FileFails, disk
  <2> QED
    BY <1>0, <1>1, <1>2, <1>3, <2>1, <2>2
    DEF RestInv, DatesTyped, RunIsForToday, RestsOnlyWhenRotated, Files
<1>5. ASSUME Copy \/ Publish \/ Truncate PROVE RestInv'
  <2>1. /\ UNCHANGED <<rotated, retryNeeded, retryTimer>>
        /\ run.at # "none"
    BY <1>0, <1>1, <1>5 DEF Copy, Publish, Truncate, disk, Rotating
  <2>2. /\ run'.index = run.index /\ run'.date = run.date /\ run'.at # "none"
    <3>1. CASE run' = [run EXCEPT !.at = "publish", !.copy = live[File]]
      BY <1>0, <1>1, <3>1 DEF RunWellFormed, RotationRun
    <3>2. CASE \E at \in {"record", "truncate"} : run' = [run EXCEPT !.at = at]
      BY <1>0, <1>1, <3>2 DEF RunWellFormed, RotationRun
    <3> QED
      BY <1>5, <3>1, <3>2 DEF Copy, Publish, Truncate
  <2>3. run' # NoRun
    BY <2>2 DEF NoRun
  <2> QED
    BY <1>0, <1>1, <2>1, <2>2, <2>3 DEF RestInv, DatesTyped, RunIsForToday, RestsOnlyWhenRotated
<1>6. ASSUME CleanArchives \/ CleanFails \/ ReadFails PROVE RestInv'
  <2>1. /\ UNCHANGED rotated /\ run' = NoRun
        /\ {retryNeeded', retryTimer'} \subseteq BOOLEAN
        /\ ~stopping /\ (retryNeeded \/ run.index # 3) => retryTimer'
    <3>0. UNCHANGED rotated /\ (run.index = 3 \/ ReadFails)
      <4>1. (run.index > Len(filenames) \/ ReadFails) /\ UNCHANGED rotated
        BY <1>6 DEF CleanArchives, CleanFails, ReadFails, Cleaning, disk
      <4>2. Len(filenames) = 2
        BY DEF filenames
      <4> QED
        BY <1>1, <4>1, <4>2
    <3>1. RunEnds(TRUE) \/ (RunEnds(FALSE) /\ run.index = 3)
      BY <1>6, <3>0 DEF CleanArchives, CleanFails, ReadFails
    <3>2. {stopping, retryNeeded} \subseteq BOOLEAN
      BY DEF RestInv, DatesTyped
    <3> QED
      BY <3>0, <3>1, <3>2 DEF RunEnds
  <2> QED
    BY <1>0, <1>1, <2>1 DEF RestInv, DatesTyped, RunIsForToday, RestsOnlyWhenRotated, Files
<1> QED
  BY <1>4, <1>5, <1>6 DEF RunStep

LEMMA EndsPreserveRestInv ==
  ASSUME RestInv, Shutdown \/ Exit \/ Crash \/ (\E file \in Files : Write(file)) \/ UNCHANGED vars
  PROVE  RestInv'
<1>1. UNCHANGED <<today, rotated>>
  BY DEF Shutdown, Exit, Crash, Write, vars, disk
<1>2. CASE Shutdown
  BY <1>1, <1>2 DEF Shutdown, RestInv, DatesTyped, RunIsForToday, RestsOnlyWhenRotated
<1>3. CASE Exit \/ Crash
  BY <1>1, <1>3
  DEF Exit, Crash, ForgetMemory, RestInv, DatesTyped, RunIsForToday, RestsOnlyWhenRotated
<1>4. CASE (\E file \in Files : Write(file)) \/ UNCHANGED vars
  <2>1. UNCHANGED <<up, stopping, run, retryNeeded, retryTimer>>
    BY <1>4 DEF Write, vars, memory
  <2> QED
    BY <1>1, <2>1 DEF RestInv, DatesTyped, RunIsForToday, RestsOnlyWhenRotated
<1> QED
  BY <1>2, <1>3, <1>4

\* While no run is still working at midnight, a service with no run pending
\* and no retry scheduled has rotated both logs for the day, whatever failed.
THEOREM RestMeansRotated ==
  ASSUME "long_run" \notin Faults
  PROVE  Spec => []RestsOnlyWhenRotated
<1>1. ASSUME LossInv, RestInv, [Next]_vars PROVE LossInv' /\ RestInv'
  <2>1. LossInv'
    BY <1>1, RunPreservesLossInv, OthersPreserveLossInv, WritePreservesLossInv DEF Next
  <2>2. RestInv'
    BY <1>1, StartsPreserveRestInv, RunPreservesRestInv, EndsPreserveRestInv DEF Next
  <2> QED
    BY <2>1, <2>2
<1>2. RestInv => RestsOnlyWhenRotated
  BY DEF RestInv
<1> QED
  BY <1>1, <1>2, LossInit, RestInit, PTL DEF Spec

-----------------------------------------------------------------------------
(***************************************************************************)
(* An entry is in two places only after a rotation that was cut short.     *)
(***************************************************************************)

Published == archives \cup expired

\* What is archived or in a log has been written, and what is about to be
\* published and truncated is in the log.
EntriesPlaced ==
  /\ IsFiniteSet(Published)
  /\ \A archive \in Published : archive.entries \subseteq 1 .. written
  /\ \A file \in Files : live[file] \subseteq 1 .. written
  /\ run.at \in {"publish", "truncate"} => run.copy \subseteq live[File]

\* An entry has one place, one more for each rotation that was cut short, and
\* one more between its publication and the truncate.
Doubled(entry) == IF run.at = "truncate" /\ entry \in run.copy THEN 1 ELSE 0

CopiesCounted ==
  /\ torn \in Nat
  /\ \A entry \in 1 .. written : Cardinality(Copies(entry)) <= 1 + torn + Doubled(entry)

\* The timer of a retry is not set during a run.
TimerAtRest == retryTimer => run = NoRun

DoubleInv == EntriesPlaced /\ CopiesCounted /\ TimerAtRest

LEMMA CopiesAreFinite ==
  ASSUME IsFiniteSet(Published), NEW entry
  PROVE  IsFiniteSet(Copies(entry)) /\ Cardinality(Copies(entry)) \in Nat
<1>1. IsFiniteSet(Files)
  <2>1. Files = {"access"} \cup {"error"}
    BY DEF Files
  <2> QED
    BY <2>1, FS_Singleton, FS_Union
<1>2. IsFiniteSet({"archive"} \X Published) /\ IsFiniteSet({"live"} \X Files)
  BY <1>1, FS_Singleton, FS_Product
<1>3. IsFiniteSet(({"archive"} \X Published) \cup ({"live"} \X Files))
  BY <1>2, FS_Union
<1>4. Copies(entry) \subseteq ({"archive"} \X Published) \cup ({"live"} \X Files)
  BY DEF Copies, Published
<1> QED
  BY <1>3, <1>4, FS_Subset, FS_CardinalityType

\* Steps that neither copy an entry nor remove one.
LEMMA CopiesStay ==
  ASSUME DoubleInv, UNCHANGED <<live, written>>, Published' = Published, torn' \in Nat,
         \A entry : torn + Doubled(entry) <= torn' + Doubled(entry)', TimerAtRest',
         (run.at \in {"publish", "truncate"} => run.copy \subseteq live[File])'
  PROVE  DoubleInv'
<1>1. \A entry : Copies(entry)' = Copies(entry)
  BY DEF Copies, Published
<1>2. \A entry \in 1 .. written : Cardinality(Copies(entry)) \in Nat
  BY CopiesAreFinite DEF DoubleInv, EntriesPlaced
<1>3. \A entry : Doubled(entry) \in Nat /\ Doubled(entry)' \in Nat
  BY DEF Doubled
<1> QED
  BY <1>1, <1>2, <1>3 DEF DoubleInv, EntriesPlaced, CopiesCounted

LEMMA DoubleInit == Init => DoubleInv
<1> SUFFICES ASSUME Init PROVE DoubleInv
  OBVIOUS
<1>1. Published = {} /\ written = 0 /\ torn = 0 /\ run.at = "none"
      /\ \A file \in Files : live[file] = {}
  BY DEF Init, Published, NoRun
<1> QED
  BY <1>1, FS_EmptySet DEF DoubleInv, EntriesPlaced, CopiesCounted, TimerAtRest, Init

LEMMA PublishCounts ==
  ASSUME LossInv, DoubleInv, Publish
  PROVE  DoubleInv'
<1> DEFINE archive == [file |-> File, date |-> run.date - 1,
                       number |-> FirstFree(Taken(File, run.date - 1)),
                       entries |-> run.copy]
<1>1. /\ run \in RotationRun /\ run.at = "publish"
      /\ run' = [run EXCEPT !.at = "truncate"]
      /\ archives' = archives \cup {archive}
      /\ UNCHANGED <<live, written, expired, torn>>
      /\ ~retryTimer'
  BY DEF Publish, LossInv, RunWellFormed, history, DoubleInv, TimerAtRest, NoRun
<1>2. archive.entries = run.copy
  OBVIOUS
<1> HIDE DEF archive
<1>3. Published' = Published \cup {archive}
  BY <1>1 DEF Published
<1>4. run'.at = "truncate" /\ run'.copy = run.copy /\ File' = File
  BY <1>1 DEF RotationRun, File
<1>5. run.copy \subseteq live[File] /\ File \in Files
  BY <1>1 DEF DoubleInv, EntriesPlaced, LossInv, RunWellFormed, File, Files, filenames, NoRun
<1>6. EntriesPlaced'
  BY <1>1, <1>2, <1>3, <1>4, <1>5, FS_AddElement DEF DoubleInv, EntriesPlaced
<1>7. ASSUME NEW entry \in 1 .. written
      PROVE  Cardinality(Copies(entry))' <= 1 + torn' + Doubled(entry)'
  <2>1. /\ Doubled(entry) = 0
        /\ Doubled(entry)' = IF entry \in run.copy THEN 1 ELSE 0
    BY <1>1, <1>4 DEF Doubled
  <2>2. Copies(entry)' = IF entry \in run.copy
                         THEN Copies(entry) \cup {<<"archive", archive>>} ELSE Copies(entry)
    BY <1>1, <1>2 DEF Copies
  <2>3. /\ Cardinality(Copies(entry)) <= 1 + torn /\ torn \in Nat
        /\ IsFiniteSet(Copies(entry)) /\ Cardinality(Copies(entry)) \in Nat
    BY <2>1, CopiesAreFinite DEF DoubleInv, EntriesPlaced, CopiesCounted
  <2>4. CASE entry \in run.copy
    <3>1. Cardinality(Copies(entry) \cup {<<"archive", archive>>})
            \in {Cardinality(Copies(entry)), Cardinality(Copies(entry)) + 1}
      BY <2>3, FS_AddElement
    <3>2. Copies(entry)' = Copies(entry) \cup {<<"archive", archive>>} /\ Doubled(entry)' = 1
      BY <2>1, <2>2, <2>4
    <3> QED
      BY <1>1, <2>3, <3>1, <3>2
  <2>5. CASE entry \notin run.copy
    BY <1>1, <2>1, <2>2, <2>3, <2>5
  <2> QED
    BY <2>4, <2>5
<1> QED
  BY <1>1, <1>6, <1>7 DEF DoubleInv, CopiesCounted, TimerAtRest

LEMMA TruncateCounts ==
  ASSUME LossInv, DoubleInv, Truncate
  PROVE  DoubleInv'
<1>1. /\ run \in RotationRun /\ run.at = "truncate" /\ File \in Files
      /\ live \in [Files -> SUBSET Nat]
      /\ run' = [run EXCEPT !.at = "record"]
      /\ live' = [live EXCEPT ![File] = {}]
      /\ UNCHANGED <<archives, written, expired, torn>>
      /\ ~retryTimer'
  BY DEF Truncate, DoubleInv, TimerAtRest, LossInv, RunWellFormed, File, Files, filenames, NoRun
<1>2. run'.at = "record" /\ Published' = Published
  BY <1>1 DEF RotationRun, Published
<1>3. live'[File] = {} /\ \A file \in Files : file # File => live'[file] = live[file]
  BY <1>1
<1>4. EntriesPlaced'
  BY <1>1, <1>2, <1>3 DEF DoubleInv, EntriesPlaced
<1>5. ASSUME NEW entry \in 1 .. written
      PROVE  Cardinality(Copies(entry))' <= 1 + torn' + Doubled(entry)'
  <2>1. Doubled(entry)' = 0 /\ Doubled(entry) = IF entry \in run.copy THEN 1 ELSE 0
    BY <1>1, <1>2 DEF Doubled
  <2>2. entry \in run.copy => <<"live", File>> \in Copies(entry)
    BY <1>1 DEF Copies, DoubleInv, EntriesPlaced
  <2>3. Copies(entry)' \subseteq Copies(entry) /\ <<"live", File>> \notin Copies(entry)'
    BY <1>1, <1>3 DEF Copies
  <2>4. /\ Cardinality(Copies(entry)) <= 1 + torn + Doubled(entry) /\ torn \in Nat
        /\ IsFiniteSet(Copies(entry)) /\ Cardinality(Copies(entry)) \in Nat
    BY CopiesAreFinite DEF DoubleInv, EntriesPlaced, CopiesCounted
  <2>5. IsFiniteSet(Copies(entry) \ {<<"live", File>>})
        /\ Cardinality(Copies(entry) \ {<<"live", File>>}) <= 1 + torn
    BY <2>1, <2>2, <2>4, FS_RemoveElement
  <2>6. Cardinality(Copies(entry)') <= Cardinality(Copies(entry) \ {<<"live", File>>})
    BY <2>3, <2>5, FS_Subset
  <2>7. Cardinality(Copies(entry)') \in Nat
    BY <1>4, CopiesAreFinite, <2>3, <2>4, FS_Subset, FS_CardinalityType
  <2>8. Cardinality(Copies(entry) \ {<<"live", File>>}) \in Nat
    BY <2>5, FS_CardinalityType
  <2> QED
    BY <1>1, <2>1, <2>4, <2>5, <2>6, <2>7, <2>8
<1> QED
  BY <1>1, <1>4, <1>5 DEF DoubleInv, CopiesCounted, TimerAtRest

LEMMA WriteCounts ==
  ASSUME LossInv, DoubleInv, NEW file \in Files, Write(file)
  PROVE  DoubleInv'
<1>1. /\ run \in RotationRun /\ written \in Nat /\ written' = written + 1
      /\ live \in [Files -> SUBSET Nat]
      /\ live' = [live EXCEPT ![file] = @ \cup {written + 1}]
      /\ UNCHANGED <<archives, expired, torn, run>>
      /\ TimerAtRest'
  BY DEF DoubleInv, TimerAtRest, Write, LossInv, RunWellFormed, memory, history
<1>2. \A f \in Files : live'[f] = live[f] \cup (IF f = file THEN {written + 1} ELSE {})
  BY <1>1
<1>3. Published' = Published /\ File' = File
  BY <1>1 DEF Published, File
<1>4. run.at \in {"publish", "truncate"} => File \in Files
  BY DEF LossInv, RunWellFormed, File, Files, filenames, NoRun
<1>5. 1 .. written' = 1 .. written \cup {written + 1} /\ written + 1 \notin 1 .. written
  BY <1>1
<1>6. EntriesPlaced'
  BY <1>1, <1>2, <1>3, <1>4, <1>5 DEF DoubleInv, EntriesPlaced
<1>7. ASSUME NEW entry \in 1 .. written
      PROVE  Cardinality(Copies(entry))' <= 1 + torn' + Doubled(entry)'
  <2>1. Copies(entry)' = Copies(entry) /\ Doubled(entry)' = Doubled(entry)
    BY <1>1, <1>2, <1>5 DEF Copies, Doubled
  <2> QED
    BY <1>1, <2>1 DEF DoubleInv, CopiesCounted
<1>8. ASSUME NEW entry, entry = written + 1
      PROVE  Cardinality(Copies(entry))' <= 1 + torn' + Doubled(entry)'
  <2>1. /\ \A archive \in archives \cup expired : entry \notin archive.entries
        /\ \A f \in Files : entry \in live'[f] <=> f = file
    BY <1>2, <1>5, <1>8 DEF DoubleInv, EntriesPlaced, Published
  <2>2. Copies(entry)' = {<<"live", file>>}
    <3>1. {a \in archives' \cup expired' : entry \in a.entries} = {}
      BY <1>1, <2>1
    <3>2. {f \in Files : entry \in live'[f]} = {file}
      BY <2>1
    <3>3. Copies(entry)' =
            {<<"archive", archive>> : archive \in {a \in archives' \cup expired' : entry \in a.entries}}
              \cup {<<"live", f>> : f \in {f \in Files : entry \in live'[f]}}
      BY DEF Copies
    <3> HIDE DEF Copies
    <3> QED
      BY <3>1, <3>2, <3>3
  <2>3. Doubled(entry)' \in Nat /\ torn' \in Nat
    BY <1>1 DEF Doubled, DoubleInv, CopiesCounted
  <2>4. Cardinality(Copies(entry)') = 1
    BY <2>2, FS_Singleton
  <2> QED
    BY <2>3, <2>4
<1> QED
  BY <1>1, <1>5, <1>6, <1>7, <1>8 DEF DoubleInv, CopiesCounted, TimerAtRest

LEMMA OthersKeepCopies ==
  ASSUME LossInv, LossInv', DoubleInv,
         \/ SkipFile \/ Copy \/ Record \/ FileFails \/ ReadFails \/ CleanArchives \/ CleanFails
         \/ Bootstrap \/ Midnight \/ RetryFires \/ Shutdown \/ Exit \/ Crash
         \/ UNCHANGED vars
  PROVE  DoubleInv'
<1>1. torn \in Nat /\ run \in RotationRun /\ run' \in RotationRun
  BY DEF DoubleInv, CopiesCounted, LossInv, RunWellFormed
<1>2. UNCHANGED <<live, written>> /\ Published' = Published
  <2>1. CASE CleanArchives \/ CleanFails \/ Crash
    BY <2>1 DEF CleanArchives, CleanFails, Crash, Remove, ExpiredArchives, Published
  <2>2. CASE ~(CleanArchives \/ CleanFails \/ Crash)
    BY <2>2 DEF SkipFile, Copy, Record, FileFails, ReadFails, Bootstrap, Midnight,
                RetryFires, Shutdown, Exit, vars, disk, history, Published
  <2> QED
    BY <2>1, <2>2
<1> DEFINE Moves ==
             /\ torn' \in {torn, torn + 1}
             /\ run.at = "truncate" => run' = run \/ torn' = torn + 1
             /\ \/ run' = run
                \/ run'.at \notin {"publish", "truncate"}
                \/ run'.at = "publish" /\ run'.copy = live[File] /\ File' = File
<1>3. Moves
  <2>1. CASE SkipFile \/ Record \/ FileFails
    <3>1. /\ torn' \in {torn, torn + 1}
          /\ run.at = "truncate" => torn' = torn + 1
          /\ run' = [run EXCEPT !.at = "next", !.index = @ + 1, !.copy = {}]
      BY <1>1, <2>1 DEF SkipFile, Record, FileFails, Rotating, NextFile, Tears, history
    <3>2. run'.at = "next"
      BY <1>1, <3>1 DEF RotationRun
    <3> QED
      BY <3>1, <3>2
  <2>2. CASE Copy
    <3>1. /\ torn' = torn /\ run.at = "next"
          /\ \/ run' = [run EXCEPT !.at = "record"]
             \/ run' = [run EXCEPT !.at = "publish", !.copy = live[File]]
      BY <2>2 DEF Copy, Rotating, history
    <3>2. CASE run' = [run EXCEPT !.at = "record"]
      BY <1>1, <3>1, <3>2 DEF RotationRun
    <3>3. CASE run' = [run EXCEPT !.at = "publish", !.copy = live[File]]
      BY <1>1, <3>1, <3>3 DEF RotationRun, File
    <3> QED
      BY <3>1, <3>2, <3>3
  <2>3. CASE CleanArchives \/ CleanFails \/ ReadFails
    <3>1. (run # NoRun /\ run.index > 2) \/ run.at = "next"
      BY <2>3 DEF CleanArchives, CleanFails, ReadFails, Cleaning, Rotating, filenames
    <3>2. run.at = "next"
      BY <3>1 DEF LossInv, RunWellFormed
    <3> QED
      BY <2>3, <3>2 DEF CleanArchives, CleanFails, ReadFails, RunEnds, NoRun, history
  <2>4. CASE Bootstrap \/ Midnight \/ RetryFires
    <3>1. torn' = torn /\ (run' = run \/ \E date : run' = NewRun(date))
      BY <2>4 DEF Bootstrap, Midnight, RetryFires, Trigger, memory, history
    <3>2. run.at = "truncate" => run # NoRun
      BY DEF NoRun
    <3>3. CASE run # NoRun /\ ~RetryFires
      BY <2>4, <3>1, <3>3 DEF Bootstrap, Midnight, Trigger, memory
    <3>4. CASE run = NoRun
      BY <3>1, <3>2, <3>4 DEF NewRun
    <3>5. CASE RetryFires
      <4>1. run = NoRun /\ torn' = torn /\ run' = NewRun(today)
        BY <3>5 DEF RetryFires, DoubleInv, TimerAtRest, history
      <4> QED
        BY <3>2, <4>1 DEF NewRun
    <3> QED
      BY <3>3, <3>4, <3>5
  <2>5. CASE Shutdown \/ Exit \/ Crash \/ UNCHANGED vars
    BY <1>1, <2>5 DEF Shutdown, Exit, Crash, ForgetMemory, Tears, vars, memory, history, NoRun
  <2> QED
    BY <2>1, <2>2, <2>3, <2>4, <2>5
<1>4. \A entry : Doubled(entry) \in {0, 1} /\ Doubled(entry)' \in {0, 1}
                  /\ (run' = run => Doubled(entry)' = Doubled(entry))
                  /\ (run.at # "truncate" => Doubled(entry) = 0)
  BY DEF Doubled
<1>5. (run.at \in {"publish", "truncate"} => run.copy \subseteq live[File])'
  BY <1>2, <1>3 DEF DoubleInv, EntriesPlaced, File
<1>6. \A entry : torn + Doubled(entry) <= torn' + Doubled(entry)'
  BY <1>1, <1>3, <1>4
<1>7. TimerAtRest'
  <2>1. CASE SkipFile \/ Copy \/ Record \/ FileFails
    <3>1. run # NoRun /\ retryTimer' = retryTimer
      BY <2>1 DEF SkipFile, Copy, Record, FileFails, Rotating, NoRun
    <3> QED
      BY <3>1 DEF DoubleInv, TimerAtRest
  <2>2. CASE CleanArchives \/ CleanFails \/ ReadFails \/ Exit \/ Crash
    BY <2>2 DEF CleanArchives, CleanFails, ReadFails, RunEnds, Exit, Crash, ForgetMemory,
                TimerAtRest
  <2>3. CASE Bootstrap \/ Midnight \/ RetryFires \/ Shutdown \/ UNCHANGED vars
    BY <2>3 DEF Bootstrap, Midnight, RetryFires, Shutdown, Trigger, vars, memory, DoubleInv,
                TimerAtRest
  <2> QED
    BY <2>1, <2>2, <2>3
<1> QED
  BY <1>1, <1>2, <1>3, <1>5, <1>6, <1>7, CopiesStay

\* An entry is in two places only when a rotation was cut short between the
\* publication of its copy and the truncate (log-rotation.service.ts:
\* copyAndTruncate), for any number of failures, crashes and retries.
THEOREM DuplicatesNeedATornRun == Spec => []DuplicatesOnlyWhenTorn
<1>1. ASSUME LossInv, DoubleInv, [Next]_vars PROVE LossInv' /\ DoubleInv'
  <2>1. LossInv'
    BY <1>1, RunPreservesLossInv, OthersPreserveLossInv, WritePreservesLossInv DEF Next
  <2>2. DoubleInv'
    BY <1>1, <2>1, PublishCounts, TruncateCounts, WriteCounts, OthersKeepCopies
    DEF Next, RunStep
  <2> QED
    BY <2>1, <2>2
<1>2. DoubleInv => DuplicatesOnlyWhenTorn
  <2> SUFFICES ASSUME DoubleInv, NEW entry \in 1 .. written, run.at # "truncate"
               PROVE  Cardinality(Copies(entry)) <= 1 + torn
    BY DEF DuplicatesOnlyWhenTorn
  <2>1. Doubled(entry) = 0
    BY DEF Doubled
  <2>2. Cardinality(Copies(entry)) \in Nat
    BY CopiesAreFinite DEF DoubleInv, EntriesPlaced
  <2> QED
    BY <2>1, <2>2 DEF DoubleInv, CopiesCounted
<1> QED
  BY <1>1, <1>2, LossInit, DoubleInit, PTL DEF Spec

-----------------------------------------------------------------------------
(***************************************************************************)
(* Types, with the number of an archive among those of its date.           *)
(***************************************************************************)

LEMMA LeastExists ==
  ASSUME NEW S \in SUBSET Nat, S # {}
  PROVE  \E x \in S : \A y \in S : x <= y
<1> DEFINE T == {0 .. n : n \in S}
<1>1. T \subseteq FiniteSubsetsOf(Nat) /\ T # {}
  <2>1. \A n \in S : 0 .. n \in SUBSET Nat /\ IsFiniteSet(0 .. n)
    BY FS_Interval
  <2> QED
    BY <2>1 DEF FiniteSubsetsOf
<1>2. PICK t \in T : \A u \in T : <<u, t>> \notin StrictSubsetOrdering(Nat)
  <2> HIDE DEF T
  <2> QED
    BY <1>1, WFMin, FS_StrictSubsetOrderingWellFounded
<1>3. PICK x \in S : t = 0 .. x
  OBVIOUS
<1>4. ASSUME NEW y \in S, y < x PROVE FALSE
  <2>1. x \in 0 .. x /\ x \notin 0 .. y
    BY <1>4
  <2>2. 0 .. y \in T /\ 0 .. y \subseteq t /\ 0 .. y # t /\ t \subseteq Nat
    BY <1>3, <1>4, <2>1
  <2>3. <<0 .. y, t>> \in StrictSubsetOrdering(Nat)
    BY <2>2 DEF StrictSubsetOrdering
  <2> QED
    BY <1>2, <2>2, <2>3
<1> QED
  BY <1>4

\* Of as many names as there are archives and one, one is free.
LEMMA FirstFreeIsFree ==
  ASSUME NEW S \in SUBSET Nat, IsFiniteSet(S)
  PROVE  FirstFree(S) \in 0 .. Cardinality(S) /\ FirstFree(S) \notin S
<1> DEFINE n == Cardinality(S)
<1>1. n \in Nat
  BY FS_CardinalityType
<1>2. (0 .. n) \ S # {}
  <2> SUFFICES ASSUME 0 .. n \subseteq S PROVE FALSE
    OBVIOUS
  <2>1. IsFiniteSet(0 .. n) /\ Cardinality(0 .. n) = n + 1
    BY <1>1, FS_Interval
  <2>2. Cardinality(0 .. n) <= n
    BY FS_Subset
  <2> QED
    BY <1>1, <2>1, <2>2
<1> DEFINE Free == (0 .. n) \ S
<1>3. PICK x \in Free : \A y \in Free : x <= y
  <2>1. Free \in SUBSET Nat /\ Free # {}
    BY <1>1, <1>2
  <2> HIDE DEF Free
  <2> QED
    BY <2>1, LeastExists
<1>4. \A m \in 0 .. x - 1 : m \in S
  BY <1>1, <1>3
<1> QED
  BY <1>3, <1>4 DEF FirstFree

\* The dates of a run and of what has been rotated.
DatesInOrder ==
  /\ \A file \in Files : rotated[file] <= today
  /\ run # NoRun => run.date \in 1 .. today
  /\ run.at \in {"publish", "truncate", "record"} => rotated[File] < run.date

\* Before a log is rotated for a day, each archive it has for the day before
\* is due to a failed step, but the one that was just published.
InHand(file, date) ==
  run.at \in {"truncate", "record"} /\ file = File /\ date = run.date - 1

NumbersCounted ==
  /\ torn <= faults
  /\ \A file \in Files, date \in Nat :
       date >= rotated[file] =>
         Cardinality(Taken(file, date)) <= faults + (IF InHand(file, date) THEN 1 ELSE 0)

TypeInv == TypeOK /\ DatesInOrder /\ NumbersCounted

LEMMA TakenIsFinite ==
  ASSUME TypeOK, NEW file, NEW date
  PROVE  /\ Taken(file, date) \in SUBSET Nat /\ IsFiniteSet(Taken(file, date))
         /\ Cardinality(Taken(file, date)) \in Nat
<1>1. Taken(file, date) \subseteq 0 .. MaxFaults
  BY DEF TypeOK, Archive, Taken
<1>2. IsFiniteSet(0 .. MaxFaults)
  BY BoundsAssumption, FS_Interval
<1> QED
  BY <1>1, <1>2, BoundsAssumption, FS_Subset, FS_CardinalityType

LEMMA TypeInit == Init => TypeInv
<1> SUFFICES ASSUME Init PROVE TypeInv
  OBVIOUS
<1>1. TypeOK
  <2>1. /\ 1 \in 1 .. MaxDay /\ 0 \in 0 .. MaxDay /\ 0 \in 0 .. MaxFaults
        /\ 0 \in 0 .. MaxEntries /\ 0 \in 0 .. Len(filenames) + 1
    BY BoundsAssumption DEF filenames
  <2>2. run \in [at : {"none", "next", "publish", "truncate", "record"}, date : 0 .. MaxDay,
                 index : 0 .. Len(filenames) + 1, copy : SUBSET Entries]
    BY <2>1 DEF Init, NoRun
  <2> QED
    BY <2>1, <2>2 DEF Init, TypeOK
<1>2. \A file, date : Taken(file, date) = {}
  BY DEF Init, Taken
<1>3. DatesInOrder /\ NumbersCounted
  BY <1>2, FS_EmptySet DEF Init, DatesInOrder, NumbersCounted, NoRun, InHand
<1> QED
  BY <1>1, <1>3 DEF TypeInv

\* Steps that publish nothing and record no date.
LEMMA NumbersStay ==
  ASSUME TypeInv, TypeOK', archives' \subseteq archives, rotated' = rotated,
         torn' <= faults', faults \in Nat, faults' \in {faults, faults + 1},
         \A file, date : InHand(file, date) => InHand(file, date)' \/ faults' = faults + 1
  PROVE  NumbersCounted'
<1> SUFFICES ASSUME NEW file \in Files, NEW date \in Nat, date >= rotated[file]
             PROVE  Cardinality(Taken(file, date)') <=
                      faults' + (IF InHand(file, date)' THEN 1 ELSE 0)
  BY DEF NumbersCounted
<1>1. Taken(file, date)' \subseteq Taken(file, date)
  BY DEF Taken
<1>2. /\ Cardinality(Taken(file, date)') <= Cardinality(Taken(file, date))
      /\ Cardinality(Taken(file, date)) \in Nat /\ Cardinality(Taken(file, date)') \in Nat
  BY <1>1, TakenIsFinite, FS_Subset, FS_CardinalityType DEF TypeInv
<1>3. Cardinality(Taken(file, date)) <= faults + (IF InHand(file, date) THEN 1 ELSE 0)
  BY DEF TypeInv, NumbersCounted
<1> QED
  BY <1>2, <1>3

LEMMA RunTyped ==
  ASSUME LossInv, TypeInv, RunStep
  PROVE  /\ (run \in [at : {"none", "next", "publish", "truncate", "record"},
                      date : 0 .. MaxDay, index : 0 .. Len(filenames) + 1,
                      copy : SUBSET Entries])'
         /\ run' = NoRun \/ run'.date = run.date
         /\ run'.at \in {"publish", "truncate", "record"} =>
              run.at # "none" /\ File' = File /\ rotated[File] < run.date
         /\ run.at \in {"truncate", "record"} =>
              \/ run'.at \in {"truncate", "record"} /\ run'.date = run.date /\ File' = File
              \/ faults' = faults + 1
              \/ Record
<1> DEFINE Runs == [at : {"none", "next", "publish", "truncate", "record"},
                    date : 0 .. MaxDay, index : 0 .. 3, copy : SUBSET Entries]
<1>1. run \in Runs /\ Len(filenames) = 2
  BY DEF TypeInv, TypeOK, filenames
<1>2. CASE SkipFile \/ Record \/ FileFails
  <2>1. /\ run # NoRun /\ run.index \in {1, 2}
        /\ run' = [run EXCEPT !.at = "next", !.index = @ + 1, !.copy = {}]
    BY <1>2, FileFacts
    DEF SkipFile, Record, FileFails, Rotating, NextFile, LossInv, RunWellFormed, NoRun
  <2>2. run.at \in {"truncate", "record"} => faults' = faults + 1 \/ Record
    BY <1>2 DEF SkipFile, FileFails, Rotating, Fault
  <2>3. run' \in Runs /\ run'.at = "next" /\ run'.date = run.date
    <3>1. run.index + 1 \in 0 .. 3 /\ {} \in SUBSET Entries
      BY <2>1
    <3> QED
      BY <1>1, <2>1, <3>1
  <2> QED
    BY <1>1, <2>2, <2>3
<1>3. CASE Copy
  <2>1. /\ run.at = "next" /\ run.index \in {1, 2} /\ File \in Files /\ rotated[File] < run.date
        /\ \/ run' = [run EXCEPT !.at = "record"]
           \/ run' = [run EXCEPT !.at = "publish", !.copy = live[File]]
    BY <1>3, FileFacts DEF Copy, Rotating, LossInv, NoRun
  <2>2. live[File] \in SUBSET Entries
    BY <2>1 DEF TypeInv, TypeOK
  <2>3. run' \in Runs /\ run'.date = run.date /\ run'.index = run.index
    <3>1. CASE run' = [run EXCEPT !.at = "record"]
      BY <1>1, <3>1
    <3>2. CASE run' = [run EXCEPT !.at = "publish", !.copy = live[File]]
      BY <1>1, <2>2, <3>2
    <3> QED
      BY <2>1, <3>1, <3>2
  <2> QED
    BY <1>1, <2>1, <2>3 DEF File
<1>4. CASE Publish \/ Truncate
  <2>1. /\ run.at \in {"publish", "truncate"}
        /\ \E at \in {"truncate", "record"} : run' = [run EXCEPT !.at = at]
    BY <1>4 DEF Publish, Truncate
  <2>2. /\ run' \in Runs /\ run'.date = run.date /\ run'.index = run.index
        /\ run'.at \in {"truncate", "record"}
    BY <1>1, <2>1
  <2> QED
    BY <1>1, <2>1, <2>2 DEF File, TypeInv, DatesInOrder
<1>5. CASE CleanArchives \/ CleanFails \/ ReadFails
  <2>1. ((run # NoRun /\ run.index > 2) \/ run.at = "next") /\ run' = NoRun
    BY <1>1, <1>5 DEF CleanArchives, CleanFails, ReadFails, Cleaning, Rotating, RunEnds
  <2>2. run.at = "next"
    BY <2>1 DEF LossInv, RunWellFormed
  <2>3. NoRun \in Runs
    BY BoundsAssumption DEF NoRun
  <2> QED
    BY <1>1, <2>1, <2>2, <2>3 DEF NoRun
<1> QED
  BY <1>2, <1>3, <1>4, <1>5 DEF RunStep

LEMMA RunKeepsTypes ==
  ASSUME LossInv, LossInv', TypeInv, RunStep
  PROVE  TypeInv'
<1>1. /\ TypeOK /\ DatesInOrder /\ NumbersCounted
      /\ run \in RotationRun /\ MaxFaults \in Nat /\ MaxDay \in Nat
      /\ faults \in 0 .. MaxFaults /\ torn \in 0 .. MaxFaults /\ torn <= faults
  BY BoundsAssumption DEF TypeInv, NumbersCounted, TypeOK, LossInv, RunWellFormed
<1>2. run # NoRun /\ UNCHANGED <<up, stopping, today, written>>
  BY RunStepsTyped DEF LossInv, RunStep, SkipFile, Copy, Publish, Truncate, Record, FileFails,
     ReadFails, CleanArchives, CleanFails
<1>3. run.date \in 1 .. today /\ today \in 1 .. MaxDay
  BY <1>1, <1>2 DEF DatesInOrder, TypeOK
<1>4. /\ faults' \in {faults, faults + 1} /\ faults' \in 0 .. MaxFaults
      /\ torn' \in {torn, torn + 1} /\ torn' <= faults'
  <2>1. CASE FileFails
    BY <1>1, <2>1 DEF FileFails, Fault, Tears
  <2>2. CASE CleanFails \/ ReadFails
    <3>1. torn' = torn /\ Fault("io_error")
      BY <2>2 DEF CleanFails, ReadFails, history
    <3> QED
      BY <1>1, <3>1 DEF Fault
  <2>3. CASE ~FileFails /\ ~CleanFails /\ ~ReadFails
    BY <1>1, <2>3 DEF RunStep, SkipFile, Copy, Publish, Truncate, Record, CleanArchives, history
  <2> QED
    BY <2>1, <2>2, <2>3
<1>5. /\ {retryNeeded', retryTimer'} \subseteq BOOLEAN
      /\ cleanedDate' \in 0 .. MaxDay
      /\ dropped' \subseteq Entries
      /\ live' \in [Files -> SUBSET Entries]
  <2>1. CASE CleanArchives \/ CleanFails \/ ReadFails
    BY <1>1, <1>3, <2>1
    DEF CleanArchives, CleanFails, ReadFails, RunEnds, TypeOK, disk, history
  <2>2. CASE Truncate
    <3>1. File \in Files
      BY <1>2, <2>2 DEF Truncate, LossInv, RunWellFormed, File, Files, filenames, NoRun
    <3>2. live \in [Files -> SUBSET Entries] /\ live[File] \subseteq Entries
      BY <1>1, <3>1 DEF TypeOK
    <3>3. live' \in [Files -> SUBSET Entries] /\ dropped' \subseteq Entries
      BY <1>1, <2>2, <3>2 DEF Truncate, TypeOK
    <3> QED
      BY <1>1, <2>2, <3>3 DEF Truncate, TypeOK
  <2>3. CASE SkipFile \/ Copy \/ Publish \/ Record \/ FileFails
    BY <1>1, <2>3 DEF SkipFile, Copy, Publish, Record, FileFails, TypeOK, disk, history
  <2> QED
    BY <2>1, <2>2, <2>3 DEF RunStep
<1>6. CASE ~Publish /\ ~Record
  <2>1. /\ archives' \subseteq archives /\ rotated' = rotated
        /\ archives' \subseteq Archive /\ expired' \subseteq Archive
    <3>1. CASE CleanArchives \/ CleanFails
      BY <1>1, <3>1 DEF CleanArchives, CleanFails, Remove, ExpiredArchives, TypeOK
    <3>2. CASE ~(CleanArchives \/ CleanFails)
      BY <1>1, <1>6, <3>2
      DEF RunStep, SkipFile, Copy, Truncate, FileFails, ReadFails, TypeOK, disk, history
    <3> QED
      BY <3>1, <3>2
  <2>2. TypeOK'
    BY <1>1, <1>2, <1>4, <1>5, <2>1, RunTyped DEF TypeOK
  <2>3. DatesInOrder'
    BY <1>2, <1>3, <2>1, RunTyped, <1>1 DEF DatesInOrder, NoRun
  <2>4. \A file, date : InHand(file, date) => InHand(file, date)' \/ faults' = faults + 1
    BY <1>6, RunTyped DEF InHand
  <2> QED
    BY <1>1, <1>4, <2>1, <2>2, <2>3, <2>4, NumbersStay DEF TypeInv
<1>7. CASE Record
  <2>1. /\ run.at = "record" /\ File \in Files
        /\ rotated' = [rotated EXCEPT ![File] = run.date]
        /\ UNCHANGED <<archives, expired, torn, faults>>
        /\ run' = [run EXCEPT !.at = "next", !.index = @ + 1, !.copy = {}]
    BY <1>7, <1>2, FileFacts DEF Record, history, NextFile, LossInv, RunWellFormed, File, Files,
       filenames
  <2>2. /\ rotated' \in [Files -> 0 .. MaxDay] /\ rotated'[File] = run.date
        /\ \A file \in Files : file # File => rotated'[file] = rotated[file]
    BY <1>1, <1>3, <2>1 DEF TypeOK
  <2>3. TypeOK'
    BY <1>1, <1>2, <1>4, <1>5, <2>1, <2>2, RunTyped DEF TypeOK
  <2>4. run'.at = "next" /\ run'.date = run.date
    BY <1>1, <2>1 DEF RotationRun
  <2>5. DatesInOrder'
    BY <1>1, <1>2, <1>3, <2>2, <2>4 DEF DatesInOrder
  <2>6. ASSUME NEW file \in Files, NEW date \in Nat, date >= rotated'[file]
        PROVE  Cardinality(Taken(file, date)') <=
                 faults' + (IF InHand(file, date)' THEN 1 ELSE 0)
    <3>1. Taken(file, date)' = Taken(file, date) /\ ~InHand(file, date)'
      BY <2>1, <2>4 DEF Taken, InHand
    <3>2. date >= rotated[file] /\ ~InHand(file, date)
      BY <1>1, <1>3, <2>1, <2>2, <2>6 DEF InHand, DatesInOrder, TypeOK
    <3> QED
      BY <1>1, <2>1, <3>1, <3>2 DEF NumbersCounted
  <2> QED
    BY <1>4, <2>3, <2>5, <2>6 DEF TypeInv, NumbersCounted
<1>8. CASE Publish
  <2> DEFINE old == run.date - 1
             archive == [file |-> File, date |-> old, number |-> FirstFree(Taken(File, old)),
                         entries |-> run.copy]
  <2>1. /\ run.at = "publish" /\ File \in Files /\ old \in Nat /\ old \in 0 .. MaxDay
        /\ rotated[File] < run.date
        /\ archives' = archives \cup {archive}
        /\ run' = [run EXCEPT !.at = "truncate"]
        /\ UNCHANGED <<rotated, expired, torn, faults>>
    BY <1>1, <1>3, <1>8 DEF Publish, history, LossInv, RunWellFormed, File, Files, filenames, NoRun,
       DatesInOrder
  <2>2. Cardinality(Taken(File, old)) <= faults
    <3>1. old >= rotated[File] /\ ~InHand(File, old)
      BY <1>1, <1>3, <2>1 DEF InHand, TypeOK
    <3> QED
      BY <1>1, <2>1, <3>1 DEF NumbersCounted
  <2>3. /\ Taken(File, old) \in SUBSET Nat /\ IsFiniteSet(Taken(File, old))
        /\ Cardinality(Taken(File, old)) \in Nat
    BY <1>1, TakenIsFinite
  <2>4. archive.number \in 0 .. MaxFaults
    <3>1. FirstFree(Taken(File, old)) \in 0 .. Cardinality(Taken(File, old))
      BY <2>3, FirstFreeIsFree
    <3> QED
      BY <1>1, <2>2, <2>3, <3>1
  <2>5. archive \in Archive /\ archive.file = File /\ archive.date = old
    BY <1>1, <2>1, <2>4 DEF Archive, TypeOK
  <2> HIDE DEF archive
  <2>6. TypeOK'
    BY <1>1, <1>2, <1>4, <1>5, <2>1, <2>5, RunTyped DEF TypeOK
  <2>7. run'.at = "truncate" /\ run'.date = run.date /\ File' = File /\ run' # NoRun
    BY <1>1, <2>1 DEF RotationRun, File, NoRun
  <2>8. DatesInOrder'
    BY <1>1, <1>2, <1>3, <2>1, <2>7 DEF DatesInOrder
  <2>9. ASSUME NEW file \in Files, NEW date \in Nat, date >= rotated'[file]
        PROVE  Cardinality(Taken(file, date)') <=
                 faults' + (IF InHand(file, date)' THEN 1 ELSE 0)
    <3>1. CASE file = File /\ date = old
      <4>1. Taken(file, date)' \subseteq Taken(File, old) \cup {archive.number}
        BY <2>1, <3>1 DEF Taken
      <4>2. IsFiniteSet(Taken(File, old) \cup {archive.number})
            /\ Cardinality(Taken(File, old) \cup {archive.number}) <= faults + 1
        BY <1>1, <2>2, <2>3, FS_AddElement
      <4>3. Cardinality(Taken(file, date)')
              <= Cardinality(Taken(File, old) \cup {archive.number})
        BY <4>1, <4>2, FS_Subset
      <4>4. Cardinality(Taken(File, old) \cup {archive.number}) \in Nat
            /\ Cardinality(Taken(file, date)') \in Nat
        BY <4>1, <4>2, FS_CardinalityType, FS_Subset
      <4>5. InHand(file, date)'
        BY <2>7, <3>1 DEF InHand
      <4> QED
        BY <1>1, <2>1, <4>2, <4>3, <4>4, <4>5
    <3>2. CASE file # File \/ date # old
      <4>1. Taken(file, date)' = Taken(file, date)
        BY <2>1, <2>5, <3>2 DEF Taken
      <4>2. ~InHand(file, date) /\ ~InHand(file, date)'
        BY <2>1, <2>7, <3>2 DEF InHand
      <4> QED
        BY <1>1, <2>1, <2>9, <4>1, <4>2 DEF NumbersCounted
    <3> QED
      BY <3>1, <3>2
  <2> QED
    BY <1>4, <2>6, <2>8, <2>9 DEF TypeInv, NumbersCounted
<1> QED
  BY <1>6, <1>7, <1>8

LEMMA OthersKeepTypes ==
  ASSUME LossInv, LossInv', DoubleInv, TypeInv,
         \/ Bootstrap \/ Midnight \/ RetryFires \/ Shutdown \/ Exit \/ Crash
         \/ (\E file \in Files : Write(file)) \/ UNCHANGED vars
  PROVE  TypeInv'
<1>1. /\ TypeOK /\ DatesInOrder /\ NumbersCounted
      /\ MaxFaults \in Nat /\ MaxDay \in Nat \ {0} /\ MaxEntries \in Nat
      /\ faults \in 0 .. MaxFaults /\ torn \in 0 .. MaxFaults /\ torn <= faults
  BY BoundsAssumption DEF TypeInv, NumbersCounted, TypeOK
<1>2. /\ UNCHANGED <<rotated, dropped>>
      /\ archives' \subseteq archives /\ expired' \subseteq archives \cup expired
      /\ faults' \in {faults, faults + 1} /\ faults' \in 0 .. MaxFaults
      /\ torn' \in {torn, torn + 1} /\ torn' <= faults'
  <2>1. CASE Crash
    BY <1>1, <2>1 DEF Crash, Remove, ExpiredArchives, Fault, Tears
  <2>2. CASE ~Crash
    BY <1>1, <2>2 DEF Bootstrap, Midnight, RetryFires, Shutdown, Exit, Write, vars, disk, history
  <2> QED
    BY <2>1, <2>2
<1>3. /\ today' \in {today, today + 1} /\ today' \in 1 .. MaxDay
      /\ {up', stopping', retryNeeded', retryTimer'} \subseteq BOOLEAN
      /\ cleanedDate' \in 0 .. MaxDay
  <2>1. today' \in {today, today + 1} /\ today' \in 1 .. MaxDay
    BY <1>1 DEF Bootstrap, Midnight, RetryFires, Shutdown, Exit, Crash, Write, vars, TypeOK
  <2>2. /\ up' \in {up, TRUE, FALSE} /\ stopping' \in {stopping, TRUE, FALSE}
        /\ retryNeeded' \in {retryNeeded, FALSE} /\ retryTimer' \in {retryTimer, FALSE}
        /\ cleanedDate' \in {cleanedDate, 0}
    BY DEF Bootstrap, Midnight, RetryFires, Shutdown, Exit, Crash, Write, vars, memory, Trigger,
       ForgetMemory
  <2>3. 0 \in 0 .. MaxDay /\ {up, stopping, retryNeeded, retryTimer} \subseteq BOOLEAN
        /\ cleanedDate \in 0 .. MaxDay
    BY <1>1 DEF TypeOK
  <2> QED
    BY <2>1, <2>2, <2>3
<1>4. \/ run' = run
      \/ run' = NoRun /\ (run = NoRun \/ faults' = faults + 1)
      \/ run' = NewRun(today') /\ run = NoRun
  BY DEF DoubleInv, TimerAtRest, Bootstrap, Midnight, RetryFires, Shutdown, Exit, Crash, Write, vars, memory, Trigger,
     ForgetMemory, Fault, NoRun
<1>5. written' \in 0 .. MaxEntries /\ live' \in [Files -> SUBSET Entries]
  <2>1. CASE \E file \in Files : Write(file)
    <3>1. PICK file \in Files : Write(file)
      BY <2>1
    <3>2. written + 1 \in Entries /\ written' = written + 1 /\ written + 1 \in 0 .. MaxEntries
      BY <1>1, <3>1 DEF Write, TypeOK, Entries
    <3>3. live' = [live EXCEPT ![file] = @ \cup {written + 1}]
      BY <3>1 DEF Write
    <3> QED
      BY <1>1, <3>2, <3>3 DEF TypeOK
  <2>2. CASE ~\E file \in Files : Write(file)
    BY <1>1, <2>2 DEF Bootstrap, Midnight, RetryFires, Shutdown, Exit, Crash, vars, disk, TypeOK
  <2> QED
    BY <2>1, <2>2
<1>6. run' \in [at : {"none", "next", "publish", "truncate", "record"}, date : 0 .. MaxDay,
                index : 0 .. Len(filenames) + 1, copy : SUBSET Entries]
  BY <1>1, <1>3, <1>4 DEF TypeOK, NoRun, NewRun, filenames
<1>7. TypeOK'
  <2>1. torn' \in 0 .. MaxFaults
    BY <1>1, <1>2
  <2>2. /\ archives' \subseteq Archive /\ expired' \subseteq Archive /\ dropped' \subseteq Entries
        /\ rotated' \in [Files -> 0 .. MaxDay]
    BY <1>1, <1>2 DEF TypeOK
  <2> QED
    BY <1>2, <1>3, <1>5, <1>6, <2>1, <2>2 DEF TypeOK
<1>8. DatesInOrder'
  BY <1>1, <1>2, <1>3, <1>4 DEF DatesInOrder, TypeOK, NoRun, NewRun, File
<1>9. \A file, date : InHand(file, date) => InHand(file, date)' \/ faults' = faults + 1
  BY <1>4 DEF InHand, NoRun, File
<1>10. faults \in Nat /\ archives' \subseteq archives /\ rotated' = rotated
  BY <1>1, <1>2
<1> QED
  BY <1>1, <1>2, <1>7, <1>8, <1>9, <1>10, NumbersStay DEF TypeInv

\* Every variable keeps to its type; the number of an archive among those of
\* its date is at most that of the failures (log-rotation.service.ts:
\* publishArchive), so that the search for a free name ends.
THEOREM TypeCorrect == Spec => []TypeOK
<1>1. ASSUME LossInv, DoubleInv, TypeInv, [Next]_vars PROVE LossInv' /\ DoubleInv' /\ TypeInv'
  <2>1. LossInv'
    BY <1>1, RunPreservesLossInv, OthersPreserveLossInv, WritePreservesLossInv DEF Next
  <2>2. DoubleInv'
    BY <1>1, <2>1, PublishCounts, TruncateCounts, WriteCounts, OthersKeepCopies
    DEF Next, RunStep
  <2>3. TypeInv'
    BY <1>1, <2>1, RunKeepsTypes, OthersKeepTypes DEF Next
  <2> QED
    BY <2>1, <2>2, <2>3
<1>2. TypeInv => TypeOK
  BY DEF TypeInv
<1> QED
  BY <1>1, <1>2, LossInit, DoubleInit, TypeInit, PTL DEF Spec

-----------------------------------------------------------------------------
(***************************************************************************)
(* Every log is rotated in the end, once nothing fails any more and the    *)
(* day is over.  A log that is late is in one of five places: a run is on  *)
(* its way to it, a run has passed it, the retry timer is set, the process *)
(* is to exit, or it is down.  They follow each other, and only a run on   *)
(* its way, whose steps are counted, is left for the log being rotated.    *)
(***************************************************************************)

\* No midnight and no failure: the steps a service takes when it is left to
\* itself.
Undisturbed == UNCHANGED <<today, faults>>

Late(file) == rotated[file] # today

IndexOf(file) == IF file = "access" THEN 1 ELSE 2

\* The steps the pending run has left.
StepsAtFile ==
  IF run.at = "next" THEN 4
  ELSE IF run.at = "publish" THEN 3
  ELSE IF run.at = "truncate" THEN 2
  ELSE 1

StepsOfRun ==
  IF run.index = 1 THEN 5 + StepsAtFile
  ELSE IF run.index = 2 THEN 1 + StepsAtFile
  ELSE 1

Resting == run = NoRun
Running(n) == run # NoRun /\ StepsOfRun <= n

Reaching(file) == Late(file) /\ run # NoRun /\ run.index <= IndexOf(file)
Passed(file) == Late(file) /\ run # NoRun /\ run.index > IndexOf(file)
Retrying(file) == Late(file) /\ up /\ run = NoRun /\ retryTimer
Leaving(file) == Late(file) /\ up /\ run = NoRun /\ stopping
Dead(file) == Late(file) /\ ~up

RotationInv == LossInv /\ RestInv /\ TimerAtRest /\ faults \in Nat

\* A service left to itself, from any reachable state on.
LeftAlone ==
  /\ []RotationInv /\ [][Next]_vars /\ [][Undisturbed]_vars
  /\ Fairness /\ []StepsEnabled

LEMMA RotationInvariance ==
  ASSUME "long_run" \notin Faults
  PROVE  Spec => []RotationInv
<1>1. ASSUME LossInv, RestInv, DoubleInv, [Next]_vars
      PROVE  LossInv' /\ RestInv' /\ DoubleInv'
  <2>1. LossInv'
    BY <1>1, RunPreservesLossInv, OthersPreserveLossInv, WritePreservesLossInv DEF Next
  <2>2. RestInv'
    BY <1>1, StartsPreserveRestInv, RunPreservesRestInv, EndsPreserveRestInv DEF Next
  <2>3. DoubleInv'
    BY <1>1, <2>1, PublishCounts, TruncateCounts, WriteCounts, OthersKeepCopies
    DEF Next, RunStep
  <2> QED
    BY <2>1, <2>2, <2>3
<1>2. LossInv /\ RestInv /\ DoubleInv /\ TypeOK => RotationInv
  BY BoundsAssumption DEF RotationInv, DoubleInv, TypeOK
<1>3. Spec => []TypeOK
  BY TypeCorrect
<1> QED
  BY <1>1, <1>2, <1>3, LossInit, RestInit, DoubleInit, PTL DEF Spec

LEMMA StepsCounted ==
  ASSUME RotationInv, run # NoRun
  PROVE  /\ up /\ run.index \in {1, 2, 3} /\ run.date = today
         /\ StepsOfRun \in 1 .. 9
         /\ run.index = 1 => File = "access"
         /\ run.index = 2 => File = "error"
BY DEF RotationInv, LossInv, RunWellFormed, RestInv, RunIsForToday, StepsOfRun, StepsAtFile,
       File, filenames

\* A step of an undisturbed run brings it nearer to its end, and leaves a log
\* only when it is rotated.
LEMMA RunAdvances ==
  ASSUME RotationInv, RunStep, Undisturbed
  PROVE  /\ run' # NoRun => StepsOfRun' < StepsOfRun
         /\ run' # NoRun /\ run'.index # run.index =>
              run'.index = run.index + 1 /\ rotated'[File] = today
         /\ run' = NoRun => run.index = 3
         /\ today' = today /\ up' = up
<1>1. /\ run # NoRun /\ run' \in RotationRun /\ UNCHANGED <<up, stopping, today>>
      /\ run \in RotationRun /\ RunWellFormed
  BY RunStepsTyped DEF RotationInv, LossInv, RunWellFormed
<1>2. /\ run.index \in {1, 2, 3} /\ run.date = today /\ today \in Nat
      /\ rotated \in [Files -> Nat] /\ \A file \in Files : rotated[file] <= today
      /\ run.index \in {1, 2} => File \in Files
  BY <1>1, StepsCounted DEF RotationInv, RestInv, DatesTyped, Files
<1>3. ~FileFails /\ ~CleanFails /\ ~ReadFails
  <2>1. \A kind : ~Fault(kind)
    BY DEF Fault, Undisturbed, RotationInv
  <2> QED
    BY <2>1 DEF FileFails, CleanFails, ReadFails
<1> DEFINE moved == [run EXCEPT !.at = "next", !.index = @ + 1, !.copy = {}]
<1>4. CASE SkipFile \/ Record
  <2>1. run' = moved /\ run.index \in {1, 2} /\ rotated'[File] = today
    BY <1>1, <1>2, <1>4
    DEF SkipFile, Record, NextFile, Rotating, RunWellFormed, filenames, disk
  <2>2. run'.at = "next" /\ run'.index = run.index + 1
    BY <1>1, <2>1 DEF RotationRun
  <2>3. StepsOfRun' < StepsOfRun
    BY <2>1, <2>2 DEF StepsOfRun, StepsAtFile
  <2>4. run' # NoRun
    BY <2>2 DEF NoRun
  <2> QED
    BY <1>1, <2>1, <2>2, <2>3, <2>4
<1>5. CASE Copy \/ Publish \/ Truncate
  <2>1. /\ run.index \in {1, 2}
        /\ \/ run.at = "next" /\ run' = [run EXCEPT !.at = "publish", !.copy = live[File]]
           \/ run.at = "next" /\ run' = [run EXCEPT !.at = "record"]
           \/ run.at = "publish" /\ run' = [run EXCEPT !.at = "truncate"]
           \/ run.at = "truncate" /\ run' = [run EXCEPT !.at = "record"]
    BY <1>1, <1>2, <1>5 DEF Copy, Publish, Truncate, Rotating, RunWellFormed, NoRun, filenames
  <2>2. /\ run'.index = run.index
        /\ \/ run.at = "next" /\ run'.at \in {"publish", "record"}
           \/ run.at = "publish" /\ run'.at = "truncate"
           \/ run.at = "truncate" /\ run'.at = "record"
    BY <1>1, <2>1 DEF RotationRun
  <2>3. StepsOfRun' < StepsOfRun
    BY <2>1, <2>2 DEF StepsOfRun, StepsAtFile
  <2>4. run' # NoRun
    BY <2>2 DEF NoRun
  <2> QED
    BY <1>1, <2>2, <2>3, <2>4
<1>6. CASE CleanArchives
  <2>1. run' = NoRun /\ run.index > Len(filenames)
    BY <1>6 DEF CleanArchives, Cleaning, RunEnds
  <2> QED
    BY <1>1, <1>2, <2>1 DEF filenames
<1> QED
  BY <1>3, <1>4, <1>5, <1>6 DEF RunStep

\* Nothing but its own steps moves a pending run; without one, the service
\* starts one, or is on its way to a restart.
LEMMA UndisturbedStep ==
  ASSUME RotationInv, Undisturbed, [Next]_vars
  PROVE  /\ UNCHANGED <<today, faults>>
         /\ run # NoRun => RunStep \/ UNCHANGED <<up, run, rotated>>
         /\ run = NoRun =>
              \/ UNCHANGED <<up, stopping, run, retryTimer, rotated>>
              \/ up' /\ run' = NewRun(today) /\ UNCHANGED rotated
              \/ up /\ up' /\ run' = NoRun /\ stopping' /\ UNCHANGED rotated
              \/ stopping /\ ~up' /\ UNCHANGED rotated
<1>1. today \in Nat /\ faults \in Nat /\ UNCHANGED <<today, faults>>
  BY DEF RotationInv, RestInv, DatesTyped, Undisturbed
<1>2. ~Midnight /\ ~Crash
  BY <1>1 DEF Midnight, Crash, Fault
<1>3. CASE RunStep
  <2>1. run # NoRun
    BY <1>3, RunStepsTyped DEF RotationInv, LossInv
  <2> QED
    BY <1>1, <1>3, <2>1
<1>4. CASE Bootstrap
  BY <1>1, <1>4 DEF Bootstrap, Trigger, disk, RotationInv, RestInv, RunIsForToday
<1>5. CASE RetryFires
  BY <1>1, <1>5 DEF RetryFires, disk, RotationInv, TimerAtRest
<1>6. CASE Shutdown \/ Exit
  BY <1>1, <1>6 DEF Shutdown, Exit, ForgetMemory, disk
<1>7. CASE (\E file \in Files : Write(file)) \/ UNCHANGED vars
  BY <1>1, <1>7 DEF Write, vars, memory, disk
<1> QED
  BY <1>2, <1>3, <1>4, <1>5, <1>6, <1>7 DEF Next

\* The places of a late log, and how they follow each other.
LEMMA LateSomewhere ==
  ASSUME NEW file \in Files
  PROVE  RotationInv /\ Late(file) =>
           \/ Reaching(file) \/ Passed(file)
           \/ Retrying(file) \/ Leaving(file) \/ Dead(file)
<1> SUFFICES ASSUME RotationInv, Late(file)
             PROVE  \/ Reaching(file) \/ Passed(file)
                    \/ Retrying(file) \/ Leaving(file) \/ Dead(file)
  OBVIOUS
<1>1. CASE run # NoRun
  <2>1. run.index \in {1, 2, 3} /\ IndexOf(file) \in {1, 2}
    BY <1>1, StepsCounted DEF IndexOf
  <2> QED
    BY <1>1, <2>1 DEF Reaching, Passed
<1>2. CASE run = NoRun
  BY <1>2 DEF RotationInv, RestInv, RestsOnlyWhenRotated, DatesTyped, Late, Retrying,
              Leaving, Dead
<1> QED
  BY <1>1, <1>2

\* A run does not lose a log on its way to it, and one that has passed it
\* ends with something left to start another.
LEMMA ReachingStep ==
  ASSUME NEW file \in Files
  PROVE  RotationInv /\ Reaching(file) /\ [Next]_vars /\ [Undisturbed]_vars =>
           Reaching(file)' \/ ~Late(file)'
<1>u. [Undisturbed]_vars => Undisturbed
  BY DEF Undisturbed, vars
<1>1. ASSUME RotationInv, Reaching(file), RunStep, Undisturbed, Late(file)'
      PROVE  Reaching(file)'
  <2>1. /\ run # NoRun /\ run.index <= IndexOf(file) /\ run.index \in {1, 2, 3}
        /\ file = IF IndexOf(file) = 1 THEN "access" ELSE "error"
        /\ IndexOf(file) \in {1, 2}
    BY <1>1, StepsCounted DEF Reaching, IndexOf, Files
  <2>2. run' # NoRun
    BY <1>1, <2>1, RunAdvances
  <2>3. run'.index <= IndexOf(file)
    <3>1. CASE run'.index = run.index
      BY <2>1, <3>1
    <3>2. CASE run'.index # run.index
      <4>1. run'.index = run.index + 1 /\ rotated'[File] = today /\ today' = today
        BY <1>1, <2>2, <3>2, RunAdvances
      <4>2. File # file
        BY <1>1, <4>1 DEF Late
      <4>3. run.index = 1 => File = "access"
        BY <1>1, <2>1, StepsCounted
      <4>4. run.index = 2 => File = "error"
        BY <1>1, <2>1, StepsCounted
      <4> QED
        BY <2>1, <4>1, <4>2, <4>3, <4>4
    <3> QED
      BY <3>1, <3>2
  <2> QED
    BY <1>1, <2>2, <2>3 DEF Reaching
<1>2. ASSUME RotationInv, Reaching(file), UNCHANGED <<up, run, rotated>>, Undisturbed
      PROVE  Reaching(file)'
  BY <1>2 DEF Reaching, Late, Undisturbed
<1>3. RotationInv /\ Undisturbed /\ [Next]_vars /\ run # NoRun =>
        RunStep \/ UNCHANGED <<up, run, rotated>>
  BY UndisturbedStep
<1> QED
  BY <1>u, <1>1, <1>2, <1>3 DEF Reaching

LEMMA PassedStep ==
  ASSUME NEW file \in Files
  PROVE  RotationInv /\ RotationInv' /\ Passed(file) /\ [Next]_vars /\ [Undisturbed]_vars =>
           Passed(file)' \/ Retrying(file)' \/ Leaving(file)' \/ ~Late(file)'
<1>u. [Undisturbed]_vars => Undisturbed
  BY DEF Undisturbed, vars
<1>1. ASSUME RotationInv, RotationInv', Passed(file), RunStep, Undisturbed, Late(file)'
      PROVE  Passed(file)' \/ Retrying(file)' \/ Leaving(file)'
  <2>1. /\ run # NoRun /\ run.index > IndexOf(file) /\ up
        /\ run.index \in {1, 2, 3} /\ IndexOf(file) \in {1, 2}
    BY <1>1, StepsCounted DEF Passed, IndexOf
  <2>2. today' = today /\ up'
    BY <1>1, <2>1, RunAdvances
  <2>3. CASE run' = NoRun
    <3>1. stopping' \/ retryTimer'
      BY <1>1, <2>2, <2>3 DEF RotationInv, RestInv, RestsOnlyWhenRotated, Late
    <3> QED
      BY <1>1, <2>2, <2>3, <3>1 DEF Retrying, Leaving
  <2>4. CASE run' # NoRun
    <3>1. run'.index \in {run.index, run.index + 1}
      BY <1>1, <2>4, RunAdvances
    <3> QED
      BY <1>1, <2>1, <2>4, <3>1 DEF Passed
  <2> QED
    BY <2>3, <2>4
<1>2. ASSUME RotationInv, Passed(file), UNCHANGED <<up, run, rotated>>, Undisturbed
      PROVE  Passed(file)'
  BY <1>2 DEF Passed, Late, Undisturbed
<1>3. RotationInv /\ Undisturbed /\ [Next]_vars /\ run # NoRun =>
        RunStep \/ UNCHANGED <<up, run, rotated>>
  BY UndisturbedStep
<1> QED
  BY <1>u, <1>1, <1>2, <1>3 DEF Passed

\* Without a run, the timer, the exit and the restart take their turns, and
\* the run that comes of them has every log ahead of it.
LEMMA RestingStep ==
  ASSUME NEW file \in Files
  PROVE  /\ RotationInv /\ Retrying(file) /\ [Next]_vars /\ [Undisturbed]_vars =>
              \/ Retrying(file)' \/ Leaving(file)' \/ Dead(file)' \/ Reaching(file)'
         /\ RotationInv /\ Retrying(file) /\ <<RetryFires>>_vars /\ [Undisturbed]_vars =>
              Reaching(file)'
         /\ RotationInv /\ Leaving(file) /\ [Next]_vars /\ [Undisturbed]_vars =>
              Leaving(file)' \/ Dead(file)' \/ Reaching(file)'
         /\ RotationInv /\ Leaving(file) /\ <<Exit>>_vars /\ [Undisturbed]_vars =>
              Dead(file)'
         /\ RotationInv /\ Dead(file) /\ [Next]_vars /\ [Undisturbed]_vars =>
              Dead(file)' \/ Reaching(file)'
         /\ RotationInv /\ Dead(file) /\ <<Bootstrap>>_vars /\ [Undisturbed]_vars =>
              Reaching(file)'
<1>u. [Undisturbed]_vars => Undisturbed
  BY DEF Undisturbed, vars
<1>1. ASSUME run' = NewRun(today), UNCHANGED rotated, Undisturbed, Late(file)
      PROVE  Reaching(file)'
  BY <1>1 DEF Reaching, Late, NewRun, NoRun, StepsOfRun, StepsAtFile, IndexOf, Undisturbed
<1>2. RotationInv /\ ~up => run = NoRun /\ ~stopping
  BY DEF RotationInv, RestInv, RunIsForToday
<1>3. ASSUME RotationInv, Retrying(file), [Next]_vars, Undisturbed
      PROVE  Retrying(file)' \/ Leaving(file)' \/ Dead(file)' \/ Reaching(file)'
  BY <1>1, <1>3, UndisturbedStep DEF Retrying, Leaving, Dead, Late
<1>4. ASSUME RotationInv, Leaving(file), [Next]_vars, Undisturbed
      PROVE  Leaving(file)' \/ Dead(file)' \/ Reaching(file)'
  BY <1>1, <1>4, UndisturbedStep DEF Leaving, Dead, Late
<1>5. ASSUME RotationInv, Dead(file), [Next]_vars, Undisturbed
      PROVE  Dead(file)' \/ Reaching(file)'
  BY <1>1, <1>2, <1>5, UndisturbedStep DEF Dead, Late
<1>6. ASSUME RotationInv, Late(file), RetryFires, Undisturbed
      PROVE  Reaching(file)'
  BY <1>1, <1>6 DEF RetryFires, disk
<1>7. ASSUME RotationInv, Leaving(file), Exit, Undisturbed
      PROVE  Dead(file)'
  BY <1>7 DEF Leaving, Dead, Late, Exit, ForgetMemory, disk, Undisturbed
<1>8. ASSUME RotationInv, Dead(file), Bootstrap, Undisturbed
      PROVE  Reaching(file)'
  BY <1>1, <1>2, <1>8 DEF Bootstrap, Trigger, Dead, disk
<1> QED
  BY <1>u, <1>3, <1>4, <1>5, <1>6, <1>7, <1>8 DEF Retrying

\* Where the fairness of the service applies, it can act.
LEMMA HelpfulStepEnabled ==
  ASSUME NEW file \in Files
  PROVE  StepsEnabled =>
           /\ ~Resting => ENABLED <<RunStep>>_vars
           /\ Retrying(file) => ENABLED <<RetryFires>>_vars
           /\ Leaving(file) => ENABLED <<Exit>>_vars
           /\ Dead(file) => ENABLED <<Bootstrap>>_vars
BY DEF StepsEnabled, Resting, Retrying, Leaving, Dead

\* A run ends: every step it takes is one of the nine it had at most.
LEMMA RunningStep ==
  ASSUME NEW n \in Nat
  PROVE  /\ RotationInv /\ Running(n + 1) /\ [Next]_vars /\ [Undisturbed]_vars =>
              Running(n + 1)' \/ Resting'
         /\ RotationInv /\ Running(n + 1) /\ <<RunStep>>_vars /\ [Undisturbed]_vars =>
              Running(n)' \/ Resting'
<1>u. [Undisturbed]_vars => Undisturbed
  BY DEF Undisturbed, vars
<1>1. ASSUME RotationInv, Running(n + 1), RunStep, Undisturbed
      PROVE  Running(n)' \/ Resting'
  <2>1. StepsOfRun <= n + 1 /\ StepsOfRun \in 1 .. 9
    BY <1>1, StepsCounted DEF Running
  <2>2. StepsOfRun' \in Int
    BY <1>1, RunStepsTyped DEF RotationInv, LossInv, StepsOfRun, StepsAtFile
  <2>3. run' # NoRun => StepsOfRun' < StepsOfRun
    BY <1>1, RunAdvances
  <2> QED
    BY <2>1, <2>2, <2>3 DEF Running, Resting
<1>2. ASSUME RotationInv, Running(n + 1), [Next]_vars, Undisturbed
      PROVE  Running(n + 1)' \/ Resting'
  <2>1. CASE RunStep
    <3>1. Running(n)' \/ Resting'
      BY <1>1, <1>2, <2>1
    <3>2. StepsOfRun' \in Int
      BY <1>2, <2>1, RunStepsTyped DEF RotationInv, LossInv, StepsOfRun, StepsAtFile
    <3> QED
      BY <3>1, <3>2 DEF Running
  <2>2. CASE UNCHANGED <<up, run, rotated>>
    BY <1>2, <2>2 DEF Running, StepsOfRun, StepsAtFile
  <2> QED
    BY <1>2, <2>1, <2>2, UndisturbedStep DEF Running
<1> QED
  BY <1>u, <1>1, <1>2

LEMMA RunEndsInTheEnd == LeftAlone => (~Resting ~> Resting)
<1>0. /\ RotationInv /\ ~Resting => Running(9)
      /\ RotationInv => ~Running(0)
  BY StepsCounted DEF Resting, Running
<1>e. StepsEnabled /\ ~Resting => ENABLED <<RunStep>>_vars
  BY DEF StepsEnabled, Resting
<1>1. LeftAlone => (Running(1) ~> (Running(0) \/ Resting))
  <2>1. /\ RotationInv /\ Running(1) /\ [Next]_vars /\ [Undisturbed]_vars =>
             Running(1)' \/ Resting'
        /\ RotationInv /\ Running(1) /\ <<RunStep>>_vars /\ [Undisturbed]_vars =>
             Running(0)' \/ Resting'
    BY RunningStep, 1 = 0 + 1
  <2> QED
    BY <1>e, <2>1, PTL DEF LeftAlone, Fairness
<1>2. LeftAlone => (Running(2) ~> (Running(1) \/ Resting))
  <2>1. /\ RotationInv /\ Running(2) /\ [Next]_vars /\ [Undisturbed]_vars =>
             Running(2)' \/ Resting'
        /\ RotationInv /\ Running(2) /\ <<RunStep>>_vars /\ [Undisturbed]_vars =>
             Running(1)' \/ Resting'
    BY RunningStep, 2 = 1 + 1
  <2> QED
    BY <1>e, <2>1, PTL DEF LeftAlone, Fairness
<1>3. LeftAlone => (Running(3) ~> (Running(2) \/ Resting))
  <2>1. /\ RotationInv /\ Running(3) /\ [Next]_vars /\ [Undisturbed]_vars =>
             Running(3)' \/ Resting'
        /\ RotationInv /\ Running(3) /\ <<RunStep>>_vars /\ [Undisturbed]_vars =>
             Running(2)' \/ Resting'
    BY RunningStep, 3 = 2 + 1
  <2> QED
    BY <1>e, <2>1, PTL DEF LeftAlone, Fairness
<1>4. LeftAlone => (Running(4) ~> (Running(3) \/ Resting))
  <2>1. /\ RotationInv /\ Running(4) /\ [Next]_vars /\ [Undisturbed]_vars =>
             Running(4)' \/ Resting'
        /\ RotationInv /\ Running(4) /\ <<RunStep>>_vars /\ [Undisturbed]_vars =>
             Running(3)' \/ Resting'
    BY RunningStep, 4 = 3 + 1
  <2> QED
    BY <1>e, <2>1, PTL DEF LeftAlone, Fairness
<1>5. LeftAlone => (Running(5) ~> (Running(4) \/ Resting))
  <2>1. /\ RotationInv /\ Running(5) /\ [Next]_vars /\ [Undisturbed]_vars =>
             Running(5)' \/ Resting'
        /\ RotationInv /\ Running(5) /\ <<RunStep>>_vars /\ [Undisturbed]_vars =>
             Running(4)' \/ Resting'
    BY RunningStep, 5 = 4 + 1
  <2> QED
    BY <1>e, <2>1, PTL DEF LeftAlone, Fairness
<1>6. LeftAlone => (Running(6) ~> (Running(5) \/ Resting))
  <2>1. /\ RotationInv /\ Running(6) /\ [Next]_vars /\ [Undisturbed]_vars =>
             Running(6)' \/ Resting'
        /\ RotationInv /\ Running(6) /\ <<RunStep>>_vars /\ [Undisturbed]_vars =>
             Running(5)' \/ Resting'
    BY RunningStep, 6 = 5 + 1
  <2> QED
    BY <1>e, <2>1, PTL DEF LeftAlone, Fairness
<1>7. LeftAlone => (Running(7) ~> (Running(6) \/ Resting))
  <2>1. /\ RotationInv /\ Running(7) /\ [Next]_vars /\ [Undisturbed]_vars =>
             Running(7)' \/ Resting'
        /\ RotationInv /\ Running(7) /\ <<RunStep>>_vars /\ [Undisturbed]_vars =>
             Running(6)' \/ Resting'
    BY RunningStep, 7 = 6 + 1
  <2> QED
    BY <1>e, <2>1, PTL DEF LeftAlone, Fairness
<1>8. LeftAlone => (Running(8) ~> (Running(7) \/ Resting))
  <2>1. /\ RotationInv /\ Running(8) /\ [Next]_vars /\ [Undisturbed]_vars =>
             Running(8)' \/ Resting'
        /\ RotationInv /\ Running(8) /\ <<RunStep>>_vars /\ [Undisturbed]_vars =>
             Running(7)' \/ Resting'
    BY RunningStep, 8 = 7 + 1
  <2> QED
    BY <1>e, <2>1, PTL DEF LeftAlone, Fairness
<1>9. LeftAlone => (Running(9) ~> (Running(8) \/ Resting))
  <2>1. /\ RotationInv /\ Running(9) /\ [Next]_vars /\ [Undisturbed]_vars =>
             Running(9)' \/ Resting'
        /\ RotationInv /\ Running(9) /\ <<RunStep>>_vars /\ [Undisturbed]_vars =>
             Running(8)' \/ Resting'
    BY RunningStep, 9 = 8 + 1
  <2> QED
    BY <1>e, <2>1, PTL DEF LeftAlone, Fairness
<1> QED
  BY <1>0, <1>1, <1>2, <1>3, <1>4, <1>5, <1>6, <1>7, <1>8, <1>9, PTL DEF LeftAlone

LEMMA LeftAloneCatchesUp ==
  ASSUME NEW file \in Files
  PROVE  LeftAlone => (Late(file) ~> ~Late(file))
<1>1. RotationInv /\ Late(file) =>
        \/ Reaching(file) \/ Passed(file)
        \/ Retrying(file) \/ Leaving(file) \/ Dead(file)
  BY LateSomewhere
<1>2. LeftAlone => (Reaching(file) ~> ~Late(file))
  <2>1. RotationInv /\ Reaching(file) /\ [Next]_vars /\ [Undisturbed]_vars =>
          Reaching(file)' \/ ~Late(file)'
    BY ReachingStep
  <2>2. Reaching(file) => ~Resting
    BY DEF Reaching, Resting
  <2> QED
    BY <2>1, <2>2, RunEndsInTheEnd, PTL DEF LeftAlone
<1>3. LeftAlone => (Passed(file) ~> (Retrying(file) \/ Leaving(file) \/ ~Late(file)))
  <2>1. RotationInv /\ RotationInv' /\ Passed(file) /\ [Next]_vars /\ [Undisturbed]_vars =>
          Passed(file)' \/ Retrying(file)' \/ Leaving(file)' \/ ~Late(file)'
    BY PassedStep
  <2>2. Passed(file) => ~Resting
    BY DEF Passed, Resting
  <2> QED
    BY <2>1, <2>2, RunEndsInTheEnd, PTL DEF LeftAlone
<1>4. LeftAlone => (Dead(file) ~> Reaching(file))
  <2>1. StepsEnabled /\ Dead(file) => ENABLED <<Bootstrap>>_vars
    BY HelpfulStepEnabled
  <2>2. RotationInv /\ Dead(file) /\ [Next]_vars /\ [Undisturbed]_vars =>
          Dead(file)' \/ Reaching(file)'
    BY RestingStep
  <2>3. RotationInv /\ Dead(file) /\ <<Bootstrap>>_vars /\ [Undisturbed]_vars =>
          Reaching(file)'
    BY RestingStep
  <2> QED
    BY <2>1, <2>2, <2>3, PTL DEF LeftAlone, Fairness
<1>5. LeftAlone => (Leaving(file) ~> (Dead(file) \/ Reaching(file)))
  <2>1. StepsEnabled /\ Leaving(file) => ENABLED <<Exit>>_vars
    BY HelpfulStepEnabled
  <2>2. RotationInv /\ Leaving(file) /\ [Next]_vars /\ [Undisturbed]_vars =>
          Leaving(file)' \/ Dead(file)' \/ Reaching(file)'
    BY RestingStep
  <2>3. RotationInv /\ Leaving(file) /\ <<Exit>>_vars /\ [Undisturbed]_vars =>
          Dead(file)'
    BY RestingStep
  <2> QED
    BY <2>1, <2>2, <2>3, PTL DEF LeftAlone, Fairness
<1>6. LeftAlone =>
        (Retrying(file) ~> (Leaving(file) \/ Dead(file) \/ Reaching(file)))
  <2>1. StepsEnabled /\ Retrying(file) => ENABLED <<RetryFires>>_vars
    BY HelpfulStepEnabled
  <2>2. RotationInv /\ Retrying(file) /\ [Next]_vars /\ [Undisturbed]_vars =>
          Retrying(file)' \/ Leaving(file)' \/ Dead(file)' \/ Reaching(file)'
    BY RestingStep
  <2>3. RotationInv /\ Retrying(file) /\ <<RetryFires>>_vars /\ [Undisturbed]_vars =>
          Reaching(file)'
    BY RestingStep
  <2> QED
    BY <2>1, <2>2, <2>3, PTL DEF LeftAlone, Fairness
<1>7. LeftAlone => []RotationInv
  BY PTL DEF LeftAlone
<1> QED
  BY <1>1, <1>2, <1>3, <1>4, <1>5, <1>6, <1>7, PTL

\* Once nothing fails any more and no day ends, every log that is late is
\* rotated: by the run at hand, by its retry, or by the run of the next
\* process.
THEOREM RotationAlwaysCatchesUp ==
  ASSUME "long_run" \notin Faults
  PROVE  FairSpec /\ []StepsEnabled /\ <>[][Undisturbed]_vars => RotationCatchesUp
<1>1. Spec => []RotationInv
  BY RotationInvariance
<1>2. FairSpec /\ []StepsEnabled /\ <>[][Undisturbed]_vars => <>[]LeftAlone
  BY <1>1, PTL DEF FairSpec, Spec, LeftAlone, Fairness
<1>3. ASSUME NEW file \in Files
      PROVE  LeftAlone => (Late(file) ~> ~Late(file))
  BY LeftAloneCatchesUp
<1>4. ASSUME NEW file \in Files
      PROVE  FairSpec /\ []StepsEnabled /\ <>[][Undisturbed]_vars =>
               (Late(file) ~> ~Late(file))
  <2>1. LeftAlone => (Late(file) ~> ~Late(file))
    BY <1>3
  <2> QED
    BY <1>2, <2>1, PTL
<1>5. ASSUME NEW file \in Files
      PROVE  (Late(file) ~> ~Late(file)) <=> (rotated[file] # today ~> rotated[file] = today)
  <2>1. /\ Late(file) <=> rotated[file] # today
        /\ ~Late(file) <=> rotated[file] = today
    BY DEF Late
  <2> QED
    BY <2>1, PTL
<1> SUFFICES ASSUME NEW file \in Files, FairSpec, []StepsEnabled, <>[][Undisturbed]_vars
             PROVE  rotated[file] # today ~> rotated[file] = today
  BY DEF RotationCatchesUp
<1>6. FairSpec /\ []StepsEnabled /\ <>[][Undisturbed]_vars => (Late(file) ~> ~Late(file))
  BY <1>4
<1>7. (Late(file) ~> ~Late(file)) <=> (rotated[file] # today ~> rotated[file] = today)
  BY <1>5
<1> QED
  BY <1>6, <1>7, PTL

=============================================================================
