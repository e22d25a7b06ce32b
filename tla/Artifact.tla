------------------------------- MODULE Artifact -------------------------------
(***************************************************************************)
(* How the helper gets the Xray binary: the cache of release archives, the *)
(* download with its attempts (artifact-downloader.ts), the extraction and *)
(* the copy (install in helper.ts), up to the test run before the service  *)
(* is started.  Contents are told apart as far as the code does: the       *)
(* archive of the pinned checksum and what is in it, anything else, and a  *)
(* file that was written in part.                                          *)
(***************************************************************************)
EXTENDS Integers, FiniteSets

CONSTANTS
  Attempts,         \* of one download: 3
  MaxRuns,          \* bound: runs of the helper
  MaxFaults         \* bound: kills, and temporary files that cannot be removed

ASSUME AttemptsAssumption == Attempts \in Nat \ {0}

VARIABLES
  archive,          \* in the cache: none, release or other
  temporaries,      \* files beside it, by the number of the attempt that made them
  extract,          \* the binary in the directory of the extraction
  binary,           \* the binary the service is started with
  at,               \* step of the run
  attempt,          \* of the download
  failure,          \* of the last attempt: none, transient or permanent
  downloads,        \* attempts of all runs: each names its file anew
  runs, faults

progress == <<attempt, failure, downloads>>
vars == <<archive, temporaries, extract, binary, at, progress, runs, faults>>

Init ==
  /\ archive = "none"
  /\ temporaries = {}
  /\ extract = "none"
  /\ binary = "none"
  /\ at = "idle"
  /\ attempt = 0
  /\ failure = "none"
  /\ downloads = 0
  /\ runs = 0
  /\ faults = 0

-----------------------------------------------------------------------------
(***************************************************************************)
(* The download.                                                           *)
(***************************************************************************)

\* Mutant: an archive of that name is taken as it is.
CachedByName == archive # "none"

Cached == archive = "release"

Begin ==
  /\ at = "idle"
  /\ runs < MaxRuns
  /\ runs' = runs + 1
  /\ attempt' = 1
  /\ failure' = "none"
  /\ IF Cached
     THEN at' = "clearing" /\ UNCHANGED downloads
     ELSE at' = "fetching" /\ downloads' = downloads + 1
  /\ UNCHANGED <<archive, temporaries, extract, binary, faults>>

\* What follows a failure: after a delay another attempt, or the end.  The
\* temporary file is still there meanwhile.
AttemptFails(how) ==
  /\ failure' = how
  /\ at' = IF how = "transient" /\ attempt < Attempts THEN "retrying" ELSE "stopping"
  /\ UNCHANGED <<archive, temporaries, extract, binary, attempt, downloads, runs, faults>>

\* Timeouts, network errors and the statuses 408, 429 and 5xx are transient,
\* other statuses, a redirect outside HTTPS, a length over the limit and an
\* error of the file system permanent.
FetchFails ==
  /\ at = "fetching"
  /\ \E how \in {"transient", "permanent"} : AttemptFails(how)

Receive ==
  /\ at = "fetching"
  /\ temporaries' = temporaries \cup {downloads}
  /\ at' = "receiving"
  /\ UNCHANGED <<archive, extract, binary, progress, runs, faults>>

\* The stream breaks, a write fails, or more arrives than is allowed.
StreamFails ==
  /\ at = "receiving"
  /\ \E how \in {"transient", "permanent"} : AttemptFails(how)

\* Only the expected checksum is renamed to the name of the cache.
Verify(content) ==
  /\ at = "receiving"
  /\ IF content = "release"
     THEN /\ at' = "promoting"
          /\ UNCHANGED <<archive, temporaries, extract, binary, progress, runs, faults>>
     ELSE AttemptFails("transient")

Promote ==
  /\ at = "promoting"
  /\ archive' = "release"
  /\ temporaries' = temporaries \ {downloads}
  /\ failure' = "none"
  /\ at' = "clearing"
  /\ UNCHANGED <<extract, binary, attempt, downloads, runs, faults>>

PromoteFails ==
  /\ at = "promoting"
  /\ \E how \in {"transient", "permanent"} : AttemptFails(how)

\* Mutant: the file of the last attempt is left.
RemoveWhenRetrying ==
  /\ at \in {"retrying", "stopping"}
  /\ temporaries' = IF at = "retrying" THEN temporaries \ {downloads} ELSE temporaries
  /\ IF at = "retrying"
     THEN at' = "fetching" /\ attempt' = attempt + 1 /\ downloads' = downloads + 1
     ELSE at' = "failed" /\ UNCHANGED <<attempt, downloads>>
  /\ UNCHANGED <<archive, extract, binary, failure, runs, faults>>

\* The finally clause, which an attempt that never got a file runs as well.
RemoveTemporary ==
  /\ at \in {"retrying", "stopping"}
  /\ temporaries' = temporaries \ {downloads}
  /\ IF at = "retrying"
     THEN at' = "fetching" /\ attempt' = attempt + 1 /\ downloads' = downloads + 1
     ELSE at' = "failed" /\ UNCHANGED <<attempt, downloads>>
  /\ UNCHANGED <<archive, extract, binary, failure, runs, faults>>

\* An error in the finally clause ends the loop.
RemoveFails ==
  /\ at \in {"retrying", "stopping"}
  /\ downloads \in temporaries
  /\ faults < MaxFaults
  /\ faults' = faults + 1
  /\ failure' = "permanent"
  /\ at' = "failed"
  /\ UNCHANGED <<archive, temporaries, extract, binary, attempt, downloads, runs>>

(***************************************************************************)
(* The binary.                                                             *)
(***************************************************************************)

Clear ==
  /\ at = "clearing"
  /\ extract' = "none"
  /\ at' = "unzipping"
  /\ UNCHANGED <<archive, temporaries, binary, progress, runs, faults>>

\* The first unzip looks for the binary in a directory and its status is not
\* asked for: it may stop half-way.  What it wrote is copied.
Unzip(found) ==
  /\ at = "unzipping"
  /\ extract' = found
  /\ at' = IF found = "none" THEN "unzippingFlat" ELSE "copying"
  /\ UNCHANGED <<archive, temporaries, binary, progress, runs, faults>>

UnzipFlat ==
  /\ at = "unzippingFlat"
  /\ extract' = archive
  /\ at' = "copying"
  /\ UNCHANGED <<archive, temporaries, binary, progress, runs, faults>>

\* copyFileSync writes in place.
StartCopy ==
  /\ at = "copying"
  /\ binary' = "torn"
  /\ at' = "copied"
  /\ UNCHANGED <<archive, temporaries, extract, progress, runs, faults>>

FinishCopy ==
  /\ at = "copied"
  /\ binary' = extract
  /\ at' = "testing"
  /\ UNCHANGED <<archive, temporaries, extract, progress, runs, faults>>

\* `xray run -test` before the service is started; half a binary does not run.
Test ==
  /\ at = "testing"
  /\ at' = IF binary = "torn" THEN "failed" ELSE "ok"
  /\ UNCHANGED <<archive, temporaries, extract, binary, progress, runs, faults>>

(***************************************************************************)
(* Failures, and what happens between runs.                                *)
(***************************************************************************)

Working ==
  {"fetching", "receiving", "promoting", "retrying", "stopping", "clearing", "unzipping",
   "unzippingFlat", "copying", "copied", "testing"}

Extracting == {"clearing", "unzippingFlat", "copying", "copied"}

\* A command or a write of the extraction fails and ends the run.
Fails ==
  /\ at \in Extracting
  /\ at' = "failed"
  /\ UNCHANGED <<archive, temporaries, extract, binary, progress, runs, faults>>

Killed ==
  /\ at \in Working
  /\ faults < MaxFaults
  /\ faults' = faults + 1
  /\ at' = "idle"
  /\ UNCHANGED <<archive, temporaries, extract, binary, progress, runs>>

\* The rest of the run; if it succeeds, it removes what was extracted.
Exit ==
  /\ at \in {"ok", "failed"}
  /\ at' = "idle"
  /\ extract' \in IF at = "ok" THEN {extract, "none"} ELSE {extract}
  /\ UNCHANGED <<archive, temporaries, binary, progress, runs, faults>>

Uninstall ==
  /\ at = "idle"
  /\ binary' = "none"
  /\ UNCHANGED <<archive, temporaries, extract, at, progress, runs, faults>>

\* The archive is renamed without being synced to the disk: after a loss of
\* power its name may lead to something else.
PowerLoss ==
  /\ at \in Working \cup {"idle"}
  /\ archive # "none"
  /\ faults < MaxFaults
  /\ faults' = faults + 1
  /\ archive' = "other"
  /\ at' = "idle"
  /\ UNCHANGED <<temporaries, extract, binary, progress, runs>>

Next ==
  \/ Begin \/ FetchFails \/ Receive \/ StreamFails \/ Promote \/ PromoteFails
  \/ (\E content \in {"release", "other"} : Verify(content))
  \/ RemoveTemporary \/ RemoveFails
  \/ Clear \/ (\E found \in {"none", "torn", archive} : Unzip(found)) \/ UnzipFlat
  \/ StartCopy \/ FinishCopy \/ Test
  \/ Fails \/ Killed \/ Exit \/ Uninstall \/ PowerLoss

Spec == Init /\ [][Next]_vars

-----------------------------------------------------------------------------
(***************************************************************************)
(* Properties.                                                             *)
(***************************************************************************)

\* A run that gets as far as starting the service has put the binary of the
\* pinned release in place, whatever was in the cache or was sent, and
\* wherever an earlier run was killed.
OnlyTheReleaseStarts == at = "ok" => binary = "release"

\* The number of a temporary file its attempt is still going to remove.
InUse == IF at \in {"receiving", "promoting", "retrying", "stopping"} THEN {downloads} ELSE {}

\* A download gives up only for a permanent error or after its last attempt,
\* and every attempt takes its temporary file away, whether it is repeated or
\* not: the files that stay are those of killed runs and of failed removals.
DownloadsEndClean ==
  /\ at = "failed" /\ failure = "transient" => attempt = Attempts
  /\ attempt <= Attempts
  /\ Cardinality(temporaries \ InUse) <= faults

=============================================================================
