---------------------------- MODULE ArtifactProofs ----------------------------
(***************************************************************************)
(* Theorems about Artifact.                                                *)
(***************************************************************************)
EXTENDS Artifact, FiniteSetTheorems, TLAPS

Installing == {"clearing", "unzipping", "unzippingFlat", "copying", "copied", "testing"}

Typed ==
  /\ archive \in {"none", "release", "other"}
  /\ at \in Working \cup {"idle", "ok", "failed"}
  /\ {downloads, faults, attempt} \subseteq Nat

\* From the cache on, only the release is at hand.
ReleaseAtHand ==
  /\ at \in Installing => archive = "release"
  /\ at \in {"copying", "copied"} => extract \in {"release", "torn"}
  /\ at = "testing" => binary \in {"release", "torn"}

\* An attempt has a name no file has yet.
NamesAreFresh ==
  /\ IsFiniteSet(temporaries)
  /\ temporaries \subseteq 1 .. downloads
  /\ at = "fetching" => downloads > 0 /\ downloads \notin temporaries

AttemptsCounted ==
  /\ attempt <= Attempts
  /\ at = "retrying" => attempt < Attempts
  /\ at = "stopping" /\ failure = "transient" => attempt = Attempts
  /\ at \in Installing \cup {"ok"} => failure = "none"

IInv ==
  Typed /\ ReleaseAtHand /\ NamesAreFresh /\ AttemptsCounted
    /\ OnlyTheReleaseStarts /\ DownloadsEndClean

LEMMA InitEstablishes == Init => IInv
<1> SUFFICES ASSUME Init PROVE IInv
  OBVIOUS
<1>1. IsFiniteSet({}) /\ Cardinality({}) = 0
  BY FS_EmptySet
<1>2. temporaries \ InUse = {}
  BY DEF Init
<1> QED
  BY <1>1, <1>2, AttemptsAssumption DEF Init, IInv, Typed, ReleaseAtHand, NamesAreFresh, AttemptsCounted,
     OnlyTheReleaseStarts, DownloadsEndClean, Installing

\* The sets of files a step leaves.
LEMMA Leftovers ==
  ASSUME NEW files, IsFiniteSet(files), NEW more, more \subseteq files
  PROVE  /\ IsFiniteSet(more)
         /\ Cardinality(more) \in Nat
         /\ Cardinality(more) <= Cardinality(files)
BY FS_Subset, FS_CardinalityType

LEMMA OneMore ==
  ASSUME NEW files, IsFiniteSet(files), NEW x
  PROVE  /\ IsFiniteSet(files \cup {x})
         /\ Cardinality(files \cup {x}) <= Cardinality(files) + 1
<1>1. Cardinality(files) \in Nat
  BY FS_CardinalityType
<1>2. /\ IsFiniteSet(files \cup {x})
      /\ Cardinality(files \cup {x}) =
           IF x \in files THEN Cardinality(files) ELSE Cardinality(files) + 1
  BY FS_AddElement
<1> QED
  BY <1>1, <1>2

\* What a step does to the files: it makes one and holds it, keeps what is
\* held, removes it, or ends with one more left at the price of a fault.
LEMMA FilesKept ==
  ASSUME IInv, [Next]_vars
  PROVE  NamesAreFresh' /\ Cardinality(temporaries' \ InUse') <= faults'
<1> USE DEF IInv, NamesAreFresh, DownloadsEndClean, InUse
<1> DEFINE left == temporaries \ InUse
<1>0. /\ IsFiniteSet(left) /\ Cardinality(left) \in Nat /\ Cardinality(left) <= faults
      /\ downloads \in Nat /\ faults \in Nat
  BY Leftovers, FS_CardinalityType DEF Typed
<1>1. CASE Receive
  <2>1. temporaries' \ InUse' = left
    BY <1>1 DEF Receive, progress
  <2>2. IsFiniteSet(temporaries') /\ temporaries' \subseteq 1 .. downloads
    <3>1. temporaries' = temporaries \cup {downloads} /\ at = "fetching"
      BY <1>1 DEF Receive
    <3>2. downloads \in 1 .. downloads
      BY <1>0, <3>1
    <3> QED
      BY <1>0, <3>1, <3>2, OneMore
  <2> QED
    BY <1>0, <1>1, <2>1, <2>2 DEF Receive, progress
<1>2. CASE RemoveTemporary \/ Promote
  <2>1. temporaries' = left /\ temporaries' \ InUse' = left
    BY <1>0, <1>2 DEF RemoveTemporary, Promote
  <2>2. downloads' = IF at = "retrying" THEN downloads + 1 ELSE downloads
    BY <1>2 DEF RemoveTemporary, Promote
  <2>3. left \subseteq 1 .. downloads' /\ faults' = faults
    BY <1>0, <1>2, <2>2 DEF RemoveTemporary, Promote
  <2>4. at' = "fetching" => downloads' = downloads + 1
    BY <1>2, <2>2 DEF RemoveTemporary, Promote
  <2>5. downloads + 1 \notin 1 .. downloads
    BY <1>0
  <2> QED
    BY <1>0, <2>1, <2>3, <2>4, <2>5
<1>3. CASE Begin
  <2>1. temporaries' = temporaries /\ temporaries' \ InUse' = left
    BY <1>3 DEF Begin
  <2>2. downloads' \in {downloads, downloads + 1} /\ faults' = faults
    BY <1>3 DEF Begin
  <2>3. temporaries \subseteq 1 .. downloads'
    BY <1>0, <2>2
  <2>4. at' = "fetching" => downloads' = downloads + 1
    BY <1>3 DEF Begin
  <2>5. downloads + 1 \notin 1 .. downloads
    BY <1>0
  <2> QED
    BY <1>0, <2>1, <2>2, <2>3, <2>4, <2>5
<1>4. CASE RemoveFails \/ Killed \/ PowerLoss
  <2>1. temporaries' = temporaries /\ downloads' = downloads /\ faults' = faults + 1
    BY <1>4 DEF RemoveFails, Killed, PowerLoss, progress
  <2>2. at' \in {"failed", "idle"} /\ temporaries' \ InUse' \subseteq left \cup {downloads}
    BY <1>4 DEF RemoveFails, Killed, PowerLoss
  <2>3. Cardinality(temporaries' \ InUse') <= Cardinality(left) + 1
    <3>1. /\ IsFiniteSet(left \cup {downloads})
          /\ Cardinality(left \cup {downloads}) <= Cardinality(left) + 1
      BY <1>0, OneMore
    <3>2. /\ Cardinality(temporaries' \ InUse') \in Nat
          /\ Cardinality(temporaries' \ InUse') <= Cardinality(left \cup {downloads})
      BY <2>2, <3>1, Leftovers
    <3> QED
      BY <1>0, <3>1, <3>2, FS_CardinalityType
  <2> QED
    BY <1>0, <2>1, <2>2, <2>3, Leftovers, FS_CardinalityType
<1>5. CASE \/ FetchFails \/ StreamFails \/ PromoteFails \/ (\E c \in {"release", "other"} : Verify(c))
           \/ Clear \/ (\E found \in {"none", "torn", archive} : Unzip(found)) \/ UnzipFlat
           \/ StartCopy \/ FinishCopy \/ Test \/ Fails \/ Exit \/ Uninstall \/ UNCHANGED vars
  <2>1. UNCHANGED <<temporaries, downloads, faults>> /\ (at' = "fetching" => at = "fetching")
    BY <1>5 DEF FetchFails, StreamFails, PromoteFails, Verify, AttemptFails, Clear, Unzip,
       UnzipFlat, StartCopy, FinishCopy, Test, Fails, Exit, Uninstall, vars, progress
  <2>2. temporaries \ InUse' = left
    BY <1>5, <2>1 DEF FetchFails, StreamFails, PromoteFails, Verify, AttemptFails, Clear, Unzip,
       UnzipFlat, StartCopy, FinishCopy, Test, Fails, Extracting, Exit, Uninstall, vars, progress
  <2> QED
    BY <1>0, <2>1, <2>2
<1> QED
  BY <1>1, <1>2, <1>3, <1>4, <1>5 DEF Next

LEMMA StepPreserves == IInv /\ [Next]_vars => IInv'
<1> SUFFICES ASSUME IInv, [Next]_vars PROVE IInv'
  OBVIOUS
<1>1. NamesAreFresh' /\ Cardinality(temporaries' \ InUse') <= faults'
  BY FilesKept
<1>2. Typed' /\ ReleaseAtHand' /\ OnlyTheReleaseStarts'
  <2> USE DEF IInv, Typed, ReleaseAtHand, OnlyTheReleaseStarts, Installing, Working
  <2>1. CASE Begin \/ FetchFails \/ Receive \/ StreamFails \/ Promote \/ PromoteFails
             \/ (\E c \in {"release", "other"} : Verify(c)) \/ RemoveTemporary \/ RemoveFails
    BY <2>1 DEF Begin, Cached, FetchFails, Receive, StreamFails, Promote, PromoteFails, Verify,
       AttemptFails, RemoveTemporary, RemoveFails, progress
  <2>2. CASE Clear \/ (\E found \in {"none", "torn", archive} : Unzip(found)) \/ UnzipFlat
             \/ StartCopy \/ FinishCopy \/ Test
    BY <2>2 DEF Clear, Unzip, UnzipFlat, StartCopy, FinishCopy, Test, progress
  <2>3. CASE Fails \/ Killed \/ Exit \/ Uninstall \/ PowerLoss \/ UNCHANGED vars
    BY <2>3 DEF Fails, Extracting, Killed, Exit, Uninstall, PowerLoss, vars, progress
  <2> QED
    BY <2>1, <2>2, <2>3 DEF Next
<1>3. AttemptsCounted' /\ (at' = "failed" /\ failure' = "transient" => attempt' = Attempts)
  <2> USE AttemptsAssumption DEF IInv, AttemptsCounted, DownloadsEndClean, Typed, Installing, Working
  <2>1. CASE Begin \/ FetchFails \/ Receive \/ StreamFails \/ Promote \/ PromoteFails
             \/ (\E c \in {"release", "other"} : Verify(c)) \/ RemoveTemporary \/ RemoveFails
    BY <2>1 DEF Begin, FetchFails, Receive, StreamFails, Promote, PromoteFails, Verify,
       AttemptFails, RemoveTemporary, RemoveFails, progress
  <2>2. CASE Clear \/ (\E found \in {"none", "torn", archive} : Unzip(found)) \/ UnzipFlat
             \/ StartCopy \/ FinishCopy \/ Test
    BY <2>2 DEF Clear, Unzip, UnzipFlat, StartCopy, FinishCopy, Test, progress
  <2>3. CASE Fails \/ Killed \/ Exit \/ Uninstall \/ PowerLoss \/ UNCHANGED vars
    BY <2>3 DEF Fails, Extracting, Killed, Exit, Uninstall, PowerLoss, vars, progress
  <2> QED
    BY <2>1, <2>2, <2>3 DEF Next
<1> QED
  BY <1>1, <1>2, <1>3 DEF IInv, AttemptsCounted, DownloadsEndClean

\* The invariant holds in every behaviour, wherever a run fails or is killed.
THEOREM Invariance == Spec => []IInv
BY InitEstablishes, StepPreserves, PTL DEF Spec

\* No run gets to starting the service with another binary than the one of
\* the pinned release (install in helper.ts, downloadVerifiedArtifact).
THEOREM OnlyTheRelease == Spec => []OnlyTheReleaseStarts
<1>1. IInv => OnlyTheReleaseStarts
  BY DEF IInv
<1> QED
  BY Invariance, <1>1, PTL

\* However many attempts there are, a download gives up after the last one or
\* for a permanent error, and leaves no file but those of kills and of failed
\* removals (downloadVerifiedArtifact).
THEOREM CleanDownloads == Spec => []DownloadsEndClean
<1>1. IInv => DownloadsEndClean
  BY DEF IInv
<1> QED
  BY Invariance, <1>1, PTL

=============================================================================
