--------------------------- MODULE HelperRunProofs ---------------------------
(***************************************************************************)
(* Proofs about HelperRun for every set of plans, every firewall there was *)
(* before, and any number of runs, failures, kills and acts of the         *)
(* administrator: the helper removes no rule of others, forgets none of    *)
(* its own, keeps the port of the running service open, and implements     *)
(* HostHelper, the abstraction the agent is modelled against.              *)
(***************************************************************************)
EXTENDS HelperRun, TLAPS

-----------------------------------------------------------------------------
(***************************************************************************)
(* The inductive invariant.                                                *)
(***************************************************************************)

\* Steps that only install and apply-config take.
Changing ==
  Guarded \cup {"marking", "fetching", "restarting", "rollingBack", "restoring"}

Removing == {"removingUnit", "removingBinary", "removingCertFiles"}

\* A run that goes on knows its command and its plan.
RunsInOrder ==
  /\ run.at = "idle" => run = NoRun
  /\ run.at \in Changing => run.command \in {"install", "apply"}
  /\ run.command \in {"install", "apply"} => run.plan \in Plans

\* What is about to be opened: rules for one port that nobody has.
OpensTheClosed ==
  run.at \in {"opening", "recording"} =>
    /\ run.todo # {}
    /\ run.todo \cap foreign = {}
    /\ \E p \in Ports : run.todo \subseteq Layers(manager) \X {p}

\* A rule of others is in the helper's lists only when it may be.
MayBeListed(e) == e \in contested \/ (e[1] = "runtime" /\ reloaded)
ListsOwn ==
  \A e \in foreign :
    e \in manifest \cup run.prior \cup run.todo => MayBeListed(e)

\* The rules of the helper are in the manifest, and those that the manifest is
\* about to lose are still to be closed.
Known == opened \ forgotten
Books ==
  /\ Known \subseteq manifest \cup Unrecorded
  /\ run.at = "reconciling" => Known \cap Obsolete \subseteq run.todo
  /\ run.at = "restoring" => Known \cap Added \subseteq run.todo
  /\ run.at = "withdrawing" => Known \subseteq run.todo
  /\ run.at \in Removing => manifest = {}

\* The marker is the first thing that is made and the last that is removed.
Marks ==
  /\ ~marker => /\ manifest = {} /\ opened \subseteq forgotten
                /\ owned = {} /\ ~binary /\ ~unit
  /\ run.at \in Working \ {"started", "marking"} => marker
  /\ run.at \in {"removingBinary", "removingCertFiles"} => ~unit
  /\ run.at = "removingCertFiles" => ~binary
  /\ At("uninstall", "ok") => ~marker

IInv == TypeOK /\ RunsInOrder /\ OpensTheClosed /\ ListsOwn /\ Books /\ Marks

-----------------------------------------------------------------------------
(***************************************************************************)
(* Lemmas.                                                                 *)
(***************************************************************************)

RunRecord ==
  [command : {"none", "install", "apply", "uninstall", "start", "stop"},
   plan : Plans \cup {NoConfig}, at : Working \cup {"idle", "ok", "failed"},
   prior : SUBSET Entries, ports : SUBSET Ports, todo : SUBSET Entries,
   backup : Plans \cup {NoConfig}]

\* Of the rules of one port, the helper opens one.
LEMMA NextOneIsOne ==
  ASSUME NEW m \in Managers, NEW p \in Ports,
         NEW rules \in SUBSET (Layers(m) \X {p}), rules # {}
  PROVE  Next1(rules) \in rules
<1> DEFINE First(e) == e[1] = "runtime" => rules = {e}
<1>1. \E e \in rules : First(e)
  BY DEF Layers, Managers
<1> QED
  BY <1>1 DEF Next1

\* A run that opens rules opens one that is nobody's.
LEMMA OpensOne ==
  ASSUME IInv, run.at \in {"opening", "recording"}
  PROVE  Next1(run.todo) \in run.todo /\ Next1(run.todo) \in Entries \ foreign
<1>1. PICK p \in Ports : run.todo \subseteq Layers(manager) \X {p}
  BY DEF IInv, OpensTheClosed
<1>2. Next1(run.todo) \in run.todo
  BY <1>1, NextOneIsOne DEF IInv, TypeOK, OpensTheClosed
<1> QED
  BY <1>2 DEF IInv, TypeOK, OpensTheClosed

\* Outside of the step between a rule and the manifest, the rules of the
\* helper are in the manifest.
LEMMA KnownAreListed ==
  ASSUME IInv, run.at # "recording"
  PROVE  Known \subseteq manifest
BY DEF IInv, Books, Unrecorded

\* A step that changes no rule and no list but those of the run keeps what is
\* said about them, when the run takes from the manifest what it has to close.
LEMMA ListsStay ==
  ASSUME IInv, UNCHANGED <<foreign, manifest, contested, reloaded>>,
         Known' \subseteq manifest,
         run'.prior \subseteq run.prior \cup manifest,
         run'.todo \subseteq run.todo \cup manifest,
         run'.at \notin {"opening", "recording"},
         run'.at = "reconciling" => run'.todo = Obsolete',
         run'.at = "restoring" => run'.todo = Added',
         run'.at = "withdrawing" => run'.todo = manifest,
         run'.at \in Removing => manifest = {}
  PROVE  OpensTheClosed' /\ ListsOwn' /\ Books'
<1>1. OpensTheClosed'
  BY DEF OpensTheClosed
<1>2. ListsOwn'
  BY DEF IInv, ListsOwn, MayBeListed
<1>3. Books'
  BY DEF Books
<1> QED
  BY <1>1, <1>2, <1>3

\* What a run is after a step that moves it on, and one that also sets what
\* there is to close.
LEMMA RunGoes ==
  ASSUME run \in RunRecord, NEW at \in Working \cup {"ok", "failed"}, Goes(at)
  PROVE  /\ run' \in RunRecord /\ run'.at = at /\ run'.command = run.command /\ run'.plan = run.plan
         /\ run'.prior = run.prior /\ run'.todo = run.todo /\ run'.backup = run.backup
BY DEF RunRecord, Goes

LEMMA RunCloses ==
  ASSUME run \in RunRecord, NEW at \in Working \cup {"ok", "failed"},
         NEW todo \in SUBSET Entries, run' = [run EXCEPT !.at = at, !.todo = todo]
  PROVE  /\ run' \in RunRecord /\ run'.at = at /\ run'.command = run.command /\ run'.plan = run.plan
         /\ run'.prior = run.prior /\ run'.todo = todo /\ run'.backup = run.backup
BY DEF RunRecord

-----------------------------------------------------------------------------
(***************************************************************************)
(* The steps.                                                              *)
(***************************************************************************)

LEMMA InitEstablishes == Init => IInv
<1> SUFFICES ASSUME Init PROVE IInv
  OBVIOUS
<1>1. run \in RunRecord
  BY DEF Init, NoRun, RunRecord, Working, Guarded
<1>2. PICK f \in Foreigns : manager = f.manager /\ foreign = f.rules /\ taken = f.files
  BY DEF Init
<1>3. foreign \subseteq Entries /\ manager \in Managers
  BY <1>2, ForeignsAssumption DEF Managers, Layers, Entries
<1>4. TypeOK
  <2>1. {enabled, dir, marker, binary, unit, reloaded, excused} \subseteq BOOLEAN
    BY DEF Init
  <2> QED
    BY <1>1, <1>3, <2>1 DEF Init, TypeOK, RunRecord
<1>5. RunsInOrder /\ OpensTheClosed
  BY DEF Init, RunsInOrder, OpensTheClosed, NoRun, Changing, Guarded
<1>6. ListsOwn /\ Books
  BY DEF Init, ListsOwn, Books, Known, NoRun, Removing
<1>7. Marks
  BY DEF Init, Marks, NoRun, Working, Guarded, At
<1> QED
  BY <1>4, <1>5, <1>6, <1>7 DEF IInv

LEMMA BeginPreserves ==
  ASSUME IInv, NEW command \in {"install", "apply", "uninstall", "start", "stop"},
         NEW plan \in Plans \cup {NoConfig}, Begin(command, plan),
         command \in {"install", "apply"} => plan \in Plans
  PROVE  IInv'
<1> USE DEF Begin
<1>1. /\ NoRun \in RunRecord /\ NoRun.prior = {} /\ NoRun.todo = {} /\ NoRun.at = "idle"
  BY DEF NoRun, RunRecord, Working, Guarded
<1>2. /\ run' \in RunRecord /\ run'.at = "started" /\ run'.command = command
      /\ run'.plan = plan /\ run'.prior = {} /\ run'.todo = {}
  BY <1>1 DEF RunRecord, Working
<1>3. TypeOK'
  BY <1>2 DEF IInv, TypeOK, RunRecord, firewall, files, certs, Reaches
<1>4. RunsInOrder'
  BY <1>2 DEF RunsInOrder, Changing, Guarded
<1>5. OpensTheClosed' /\ ListsOwn' /\ Books'
  BY <1>2, ListsStay, KnownAreListed DEF Known, firewall, Reaches, Removing
<1>6. Marks'
  BY <1>2 DEF IInv, Marks, At, firewall, files, certs, Reaches
<1> QED
  BY <1>3, <1>4, <1>5, <1>6 DEF IInv

LEMMA ExitPreserves ==
  ASSUME IInv, Exit
  PROVE  IInv'
<1> USE DEF Exit
<1>1. /\ NoRun \in RunRecord /\ NoRun.at = "idle" /\ NoRun.prior = {} /\ NoRun.todo = {}
      /\ NoRun.command = "none"
  BY DEF NoRun, RunRecord, Working, Guarded
<1>2. TypeOK'
  BY <1>1 DEF IInv, TypeOK, RunRecord, firewall, files, certs, bounds, history
<1>3. RunsInOrder'
  BY <1>1 DEF RunsInOrder, Changing, Guarded
<1>4. OpensTheClosed' /\ ListsOwn' /\ Books'
  BY <1>1, ListsStay, KnownAreListed DEF Known, firewall, history, Removing
<1>5. Marks'
  BY <1>1 DEF IInv, Marks, At, firewall, files, certs, history, Working, Guarded
<1> QED
  BY <1>2, <1>3, <1>4, <1>5 DEF IInv

LEMMA ExaminePreserves ==
  ASSUME IInv, NEW p \in Ports, Examine(p)
  PROVE  IInv'
<1> DEFINE missing == {e \in Layers(manager) \X {p} : ~IsOpen(e)}
           next == IF missing = {} THEN "examining" ELSE "opening"
<1>1. /\ run \in RunRecord /\ manager \in Managers /\ run.at = "examining"
      /\ run.command \in {"install", "apply"} /\ marker
  BY DEF IInv, TypeOK, RunRecord, RunsInOrder, Changing, Guarded, Marks, Working, Examine
<1>2. /\ missing \subseteq Entries /\ missing \cap foreign = {}
      /\ missing \subseteq Layers(manager) \X {p}
      /\ Adopted(p) \subseteq opened
  BY <1>1 DEF Layers, Managers, Entries, IsOpen, Adopted
<1>3. /\ run' = [run EXCEPT !.at = next, !.ports = @ \ {p}, !.todo = missing]
      /\ manifest' = manifest \cup Adopted(p)
      /\ forgotten' = forgotten \ Adopted(p)
      /\ UNCHANGED <<firewall, files, serving, bounds, phase, failures, contested,
                     reloaded, excused>>
  BY DEF Examine
<1>4. /\ next \in {"examining", "opening"} /\ (next = "opening" => missing # {})
  OBVIOUS
<1> HIDE DEF missing, next
<1>5. /\ run'.at = next /\ run'.todo = missing /\ run'.prior = run.prior
      /\ run'.command = run.command /\ run'.plan = run.plan
      /\ run' \in RunRecord
  BY <1>1, <1>2, <1>3, <1>4 DEF RunRecord, Working, Guarded
<1>6. TypeOK'
  BY <1>2, <1>3, <1>5 DEF IInv, TypeOK, RunRecord, firewall, files, certs, bounds
<1>7. RunsInOrder' /\ Marks'
  BY <1>1, <1>3, <1>4, <1>5 DEF IInv, RunsInOrder, Marks, At, Working, files, certs
<1>8. OpensTheClosed'
  BY <1>2, <1>3, <1>4, <1>5 DEF OpensTheClosed, firewall
<1>9. ListsOwn'
  BY <1>2, <1>3, <1>5 DEF IInv, TypeOK, ListsOwn, MayBeListed, firewall
<1>10. Books'
  BY <1>1, <1>3, <1>4, <1>5, KnownAreListed DEF Books, Known, Removing, firewall
<1> QED
  BY <1>6, <1>7, <1>8, <1>9, <1>10 DEF IInv

LEMMA OpenPreserves ==
  ASSUME IInv, Open
  PROVE  IInv'
<1> USE DEF Open
<1> DEFINE one == Next1(run.todo)
<1>1. /\ run \in RunRecord /\ run.command \in {"install", "apply"} /\ marker
  BY DEF IInv, TypeOK, RunRecord, RunsInOrder, Changing, Guarded, Marks, Working
<1>2. one \in run.todo /\ one \in Entries \ foreign
  BY OpensOne
<1>3. /\ run'.at = "recording" /\ run'.todo = run.todo /\ run'.prior = run.prior
      /\ run'.command = run.command /\ run'.plan = run.plan
      /\ run' \in RunRecord
  BY <1>1 DEF Goes, RunRecord, Working, Guarded
<1> HIDE DEF one
<1>4. opened' = opened \cup {one} /\ Unrecorded' = {one}
  BY <1>3 DEF one, Unrecorded
<1>5. TypeOK'
  BY <1>2, <1>3, <1>4 DEF IInv, TypeOK, RunRecord, files, certs, bounds, history
<1>6. RunsInOrder' /\ Marks'
  BY <1>1, <1>3 DEF IInv, RunsInOrder, Marks, At, files, certs
<1>7. OpensTheClosed'
  BY <1>3 DEF IInv, OpensTheClosed
<1>8. ListsOwn'
  BY <1>3 DEF IInv, ListsOwn, MayBeListed, history
<1>9. Books'
  BY <1>3, <1>4, KnownAreListed DEF Books, Known, Removing, history
<1> QED
  BY <1>5, <1>6, <1>7, <1>8, <1>9 DEF IInv

LEMMA RecordPreserves ==
  ASSUME IInv, Record
  PROVE  IInv'
<1> USE DEF Record
<1> DEFINE one == Next1(run.todo)
           rest == run.todo \ {one}
<1>1. /\ run \in RunRecord /\ run.command \in {"install", "apply"} /\ marker
  BY DEF IInv, TypeOK, RunRecord, RunsInOrder, Changing, Guarded, Marks, Working
<1>2. one \in run.todo /\ one \in Entries \ foreign
  BY OpensOne
<1>3. Known \subseteq manifest \cup {one}
  BY DEF IInv, Books, Unrecorded
<1>4. /\ run'.at = IF rest = {} THEN "examining" ELSE "opening"
      /\ run'.todo = rest /\ run'.prior = run.prior
      /\ run'.command = run.command /\ run'.plan = run.plan
      /\ run' \in RunRecord
  <2>1. run' = [run EXCEPT !.at = IF rest = {} THEN "examining" ELSE "opening",
                           !.todo = rest]
    OBVIOUS
  <2>2. rest \in SUBSET Entries
    BY <1>1 DEF RunRecord
  <2> HIDE DEF rest
  <2> QED
    BY <1>1, <2>1, <2>2 DEF RunRecord, Working, Guarded
<1>5. manifest' = manifest \cup {one} /\ forgotten' = forgotten \ {one}
  OBVIOUS
<1> HIDE DEF one, Record
<1>6. /\ run.at = "recording"
      /\ UNCHANGED <<firewall, files, serving, bounds, phase, failures, contested,
                     reloaded, excused>>
  BY DEF Record
<1>7. TypeOK'
  BY <1>2, <1>4, <1>5, <1>6 DEF IInv, TypeOK, RunRecord, firewall, files, certs, bounds
<1>8. RunsInOrder' /\ Marks'
  BY <1>1, <1>4, <1>6 DEF IInv, RunsInOrder, Marks, At, files, certs, Working
<1>9. OpensTheClosed'
  BY <1>4, <1>6 DEF IInv, OpensTheClosed, firewall
<1>10. ListsOwn'
  BY <1>2, <1>4, <1>5, <1>6 DEF IInv, ListsOwn, MayBeListed, firewall
<1>11. Books'
  BY <1>3, <1>4, <1>5, <1>6 DEF Books, Known, Removing, firewall
<1> QED
  BY <1>7, <1>8, <1>9, <1>10, <1>11 DEF IInv

LEMMA ClosePreserves ==
  ASSUME IInv, NEW e \in Entries, Close(e),
         run.at \in {"reconciling", "restoring", "withdrawing"}
  PROVE  IInv'
<1>1. /\ run \in RunRecord /\ marker
      /\ run.at \in {"reconciling", "restoring"} => run.command \in {"install", "apply"}
  BY DEF IInv, TypeOK, RunRecord, RunsInOrder, Changing, Guarded, Marks, Working
<1>2. /\ run' = [run EXCEPT !.todo = @ \ {e}]
      /\ foreign' \subseteq foreign
      /\ UNCHANGED <<manager, enabled, manifest, files, serving, bounds,
                     phase, failures, contested, reloaded, excused>>
  BY DEF Close
<1>3. /\ opened' \subseteq opened /\ forgotten' \subseteq Entries
      /\ Known' \subseteq Known \ {e}
  <2>1. CASE opened' = opened \ {e} /\ UNCHANGED forgotten
    BY <2>1 DEF IInv, TypeOK, Known
  <2>2. CASE forgotten' = forgotten \cup (opened \cap {e}) /\ UNCHANGED opened
    BY <2>2 DEF IInv, TypeOK, Known
  <2> QED
    BY <2>1, <2>2 DEF Close
<1>4. /\ run'.todo = run.todo \ {e} /\ run'.at = run.at /\ run'.prior = run.prior
      /\ run'.command = run.command /\ run'.plan = run.plan /\ run' \in RunRecord
  BY <1>1, <1>2 DEF RunRecord
<1>5. TypeOK'
  BY <1>2, <1>3, <1>4 DEF IInv, TypeOK, RunRecord, files, certs, bounds
<1>6. RunsInOrder'
  BY <1>1, <1>4 DEF IInv, RunsInOrder, Changing, Guarded
<1>7. Marks'
  BY <1>1, <1>2, <1>4 DEF IInv, Marks, At, Working, files, certs
<1>8. OpensTheClosed'
  BY <1>4 DEF OpensTheClosed
<1>9. ListsOwn'
  BY <1>2, <1>4 DEF IInv, ListsOwn, MayBeListed
<1>10. Books'
  BY <1>2, <1>3, <1>4, KnownAreListed
  DEF IInv, Books, Obsolete, Required, Added, Removing
<1> QED
  BY <1>5, <1>6, <1>7, <1>8, <1>9, <1>10 DEF IInv

\* The ends of the three loops: what the manifest loses is closed.
LEMMA ClosedPreserves ==
  ASSUME IInv, ReconcileEnds \/ RestoreEnds \/ WithdrawEnds
  PROVE  IInv'
<1>1. /\ run \in RunRecord /\ marker /\ run.todo = {}
      /\ run.at \in {"reconciling", "restoring"} => run.command \in {"install", "apply"}
  BY DEF IInv, TypeOK, RunRecord, RunsInOrder, Changing, Guarded, Marks, Working,
         ReconcileEnds, RestoreEnds, WithdrawEnds
<1>2. /\ run.at \in {"reconciling", "restoring", "withdrawing"}
      /\ UNCHANGED <<firewall, files, serving, bounds, failures, forgotten,
                     contested, reloaded>>
  BY DEF ReconcileEnds, RestoreEnds, WithdrawEnds, history
<1>3. Known \subseteq manifest'
  <2>1. CASE ReconcileEnds
    BY <1>1, <2>1, KnownAreListed DEF IInv, Books, ReconcileEnds
  <2>2. CASE RestoreEnds
    BY <1>1, <2>2, KnownAreListed DEF IInv, Books, RestoreEnds, Added
  <2>3. CASE WithdrawEnds
    BY <1>1, <2>3 DEF IInv, Books, WithdrawEnds
  <2> QED
    BY <2>1, <2>2, <2>3
<1>4. /\ manifest' \subseteq manifest \cup run.prior
      /\ \/ run'.at \in {"ok", "failed"} /\ run.at # "withdrawing"
         \/ run'.at = "removingUnit" /\ run.at = "withdrawing" /\ manifest' = {}
      /\ run'.todo = {} /\ run'.prior = run.prior
      /\ run'.command = run.command /\ run'.plan = run.plan
      /\ run' \in RunRecord
  BY <1>1 DEF ReconcileEnds, RestoreEnds, WithdrawEnds, Goes, RunRecord, Working
<1>5. TypeOK'
  <2>1. phase' = phase' /\ excused' \in BOOLEAN
    BY DEF ReconcileEnds, RestoreEnds, WithdrawEnds, history, IInv, TypeOK
  <2>2. manifest' \subseteq Entries
    BY <1>1, <1>4 DEF IInv, TypeOK, RunRecord
  <2> QED
    BY <1>2, <1>4, <2>1, <2>2 DEF IInv, TypeOK, RunRecord, firewall, files, certs, bounds
<1>6. RunsInOrder' /\ Marks'
  <2>1. RunsInOrder'
    BY <1>1, <1>2, <1>4 DEF IInv, RunsInOrder, Changing, Guarded
  <2>2. ~At("uninstall", "ok")'
    BY <1>1, <1>2, <1>4 DEF At
  <2> QED
    BY <1>1, <1>2, <1>4, <2>1, <2>2 DEF IInv, Marks, files, certs
<1>7. OpensTheClosed'
  BY <1>4 DEF OpensTheClosed
<1>8. ListsOwn'
  BY <1>1, <1>2, <1>4 DEF IInv, ListsOwn, MayBeListed, firewall
<1>9. Books'
  BY <1>2, <1>3, <1>4 DEF Books, Known, firewall, Removing
<1> QED
  BY <1>5, <1>6, <1>7, <1>8, <1>9 DEF IInv

\* The certificate, and what the firewall answers.
LEMMA CertPreserves ==
  ASSUME IInv, FindManager \/ AllExamined \/ CertStep
  PROVE  IInv'
<1> DEFINE onward == {"examining", "certifying", "hosting", "issuing", "hooking",
                      "configuring", "switching"}
           before == {"ensuring", "examining", "certifying", "hosting", "issuing", "hooking"}
           FirewallStays == UNCHANGED <<firewall, manifest, serving, bounds, forgotten,
                                        contested, reloaded>>
           FilesStay == UNCHANGED <<dir, marker, binary, unit, config, taken>>
           Facts == /\ FirewallStays /\ FilesStay
                    /\ run.at \in before
                    /\ owned' \subseteq CertFiles \ taken
                    /\ certificate' \in {"none", "panel", "issued"}
                    /\ excused' \in BOOLEAN /\ failures' \in Nat
                    /\ run' \in RunRecord /\ run'.command = run.command /\ run'.plan = run.plan
                    /\ run'.prior = run.prior
                    /\ \/ run'.todo = run.todo /\ run'.at \in onward
                       \/ run'.todo = Added /\ run'.at = "restoring"
<1>1. /\ run \in RunRecord /\ Added \in SUBSET Entries
      /\ owned \subseteq CertFiles \ taken /\ certificate \in {"none", "panel", "issued"}
      /\ excused \in BOOLEAN /\ enabled \in BOOLEAN /\ failures \in Nat
  BY DEF IInv, TypeOK, RunRecord, Added
<1>2. onward \cup {"restoring"} \subseteq Working
  BY DEF Working, Guarded
<1>3. ASSUME FindManager PROVE Facts
  <2>1. /\ FirewallStays /\ FilesStay /\ run.at \in before
        /\ UNCHANGED <<owned, certificate, failures>>
        /\ excused' = (excused \/ ~enabled)
    BY <1>3 DEF FindManager, files, certs
  <2>2. /\ run' \in RunRecord /\ run'.command = run.command /\ run'.plan = run.plan
      /\ run'.prior = run.prior
        /\ run'.todo = run.todo /\ run'.at \in {"examining", "certifying"}
    <3>1. PICK at \in {"examining", "certifying"} :
            run' = [run EXCEPT !.at = at, !.ports = Required(run.plan)]
      BY <1>3 DEF FindManager
    <3>2. run.plan \in Plans
      BY <2>1 DEF IInv, RunsInOrder, Changing, Guarded
    <3> QED
      BY <1>1, <1>2, <3>1, <3>2 DEF RunRecord, Required, Ports
  <2> QED
    BY <1>1, <2>1, <2>2
<1>4. ASSUME AllExamined PROVE Facts
  BY <1>1, <1>2, <1>4, RunGoes DEF AllExamined, files, certs, history
<1>5. ASSUME Certify PROVE Facts
  BY <1>1, <1>2, <1>5, RunGoes DEF Certify, Certified, files, certs, history
<1>6. ASSUME PlaceVhost PROVE Facts
  BY <1>1, <1>2, <1>6, RunGoes DEF PlaceVhost, Keep, CertFiles, files, certs, history
<1>7. ASSUME PlaceHook PROVE Facts
  BY <1>1, <1>2, <1>7, RunGoes DEF PlaceHook, Keep, Certified, CertFiles, files, certs, history
<1>8. ASSUME CertFileTaken PROVE Facts
  <2>1. /\ run' = [run EXCEPT !.at = "restoring", !.todo = Added]
        /\ run.at \in before /\ failures' = failures + 1
        /\ UNCHANGED <<firewall, manifest, files, serving, bounds, forgotten, contested,
                       reloaded, excused>>
    BY <1>8 DEF CertFileTaken
  <2>2. run' \in RunRecord /\ run'.at = "restoring" /\ run'.todo = Added
        /\ run'.command = run.command /\ run'.plan = run.plan /\ run'.prior = run.prior
    BY <1>1, <1>2, <2>1, RunCloses
  <2> QED
    BY <1>1, <2>1, <2>2 DEF files, certs
<1>9. ASSUME Issue PROVE Facts
  BY <1>1, <1>2, <1>9, RunGoes DEF Issue, files, certs, history
<1>10. Facts
  BY <1>3, <1>4, <1>5, <1>6, <1>7, <1>8, <1>9 DEF CertStep
<1>11. run.command \in {"install", "apply"} /\ marker
  BY <1>10 DEF IInv, RunsInOrder, Changing, Guarded, Marks, Working
<1>12. TypeOK'
  BY <1>10 DEF IInv, TypeOK, RunRecord, firewall, files, certs, bounds
<1>13. RunsInOrder' /\ Marks'
  BY <1>10, <1>11 DEF IInv, RunsInOrder, Marks, At, firewall
<1>14. OpensTheClosed' /\ ListsOwn' /\ Books'
  BY <1>10, ListsStay, KnownAreListed DEF Known, firewall, Removing, Added
<1> QED
  BY <1>12, <1>13, <1>14 DEF IInv

LEMMA InstallPreserves ==
  ASSUME IInv, InstallStep
  PROVE  IInv'
<1> DEFINE FirewallStays == UNCHANGED <<firewall, manifest, serving, bounds, forgotten,
                                        contested, reloaded, certs, excused>>
           Facts == /\ FirewallStays
                    /\ {dir', marker', binary', unit'} \subseteq BOOLEAN
                    /\ config' \in Plans \cup {NoConfig} /\ failures' \in Nat
                    /\ run.command \in {"install", "apply"}
                    /\ run' \in RunRecord /\ run'.command = run.command /\ run'.plan = run.plan
                    /\ run'.prior \subseteq run.prior \cup manifest
                    /\ run'.todo = run.todo
                    /\ \/ run'.at = "marking" /\ UNCHANGED <<marker, binary, unit>>
                       \/ run'.at = "failed" /\ UNCHANGED <<marker, binary, unit>>
                       \/ /\ run'.at \in {"fetching", "ensuring", "placing", "restarting"}
                          /\ marker'
                    /\ run.at # "recording"
<1>1. /\ run \in RunRecord /\ {dir, marker, binary, unit} \subseteq BOOLEAN
      /\ config \in Plans \cup {NoConfig} /\ failures \in Nat /\ manifest \in SUBSET Entries
      /\ run.at \in Changing => run.command \in {"install", "apply"} /\ run.plan \in Plans
      /\ run.at \in {"fetching", "configuring", "placing"} => marker
      /\ {"marking", "fetching", "configuring", "placing"} \subseteq Changing
  BY DEF IInv, TypeOK, RunRecord, RunsInOrder, Marks, Changing, Guarded, Working
<1>2. {"marking", "fetching", "ensuring", "placing", "restarting", "failed"}
        \subseteq Working \cup {"ok", "failed"}
  BY DEF Working, Guarded
<1>3. ASSUME InstallChecks PROVE Facts
  <2>1. Goes("marking") \/ Goes("failed")
    BY <1>3 DEF InstallChecks
  <2>2. /\ run.command = "install" /\ run.at = "started"
        /\ UNCHANGED <<firewall, manifest, marker, binary, unit, config, certs, serving,
                       bounds, forgotten, contested, reloaded, excused>>
    BY <1>3 DEF InstallChecks, At
  <2>3. dir' \in BOOLEAN /\ failures' \in Nat
    <3>1. dir \in BOOLEAN /\ failures \in Nat
      BY <1>1
    <3>2. dir' \in BOOLEAN
      BY <1>3, <3>1 DEF InstallChecks
    <3>3. failures' \in Nat
      BY <1>3, <3>1 DEF InstallChecks
    <3> QED
      BY <3>2, <3>3
  <2>4. /\ run' \in RunRecord /\ run'.at \in {"marking", "failed"}
        /\ run'.command = run.command /\ run'.plan = run.plan
        /\ run'.prior = run.prior /\ run'.todo = run.todo
    BY <1>1, <1>2, <2>1, RunGoes
  <2> QED
    BY <1>1, <2>2, <2>3, <2>4
<1>4. ASSUME InstallMarks PROVE Facts
  BY <1>1, <1>2, <1>4, RunGoes DEF InstallMarks, Reaches
<1>5. ASSUME PlaceBinary PROVE Facts
  <2>1. run' = [run EXCEPT !.at = "ensuring", !.prior = manifest]
    BY <1>5 DEF PlaceBinary
  <2>2. /\ run' \in RunRecord /\ run'.at = "ensuring" /\ run'.prior = manifest
        /\ run'.todo = run.todo /\ run'.command = run.command /\ run'.plan = run.plan
    BY <1>1, <1>2, <2>1 DEF RunRecord
  <2> QED
    BY <1>1, <1>5, <2>2 DEF PlaceBinary, history
<1>6. ASSUME Configure PROVE Facts
  BY <1>1, <1>2, <1>6, RunGoes DEF Configure, Reaches
<1>7. ASSUME PlaceUnit PROVE Facts
  BY <1>1, <1>2, <1>7, RunGoes DEF PlaceUnit, Reaches
<1>8. Facts
  BY <1>3, <1>4, <1>5, <1>6, <1>7 DEF InstallStep
<1>9. TypeOK'
  BY <1>8 DEF IInv, TypeOK, RunRecord, firewall, certs, bounds
<1>10. RunsInOrder'
  BY <1>8 DEF IInv, RunsInOrder
<1>11. Marks'
  BY <1>8 DEF IInv, Marks, At, firewall, certs, Working, Guarded
<1>12. OpensTheClosed' /\ ListsOwn' /\ Books'
  BY <1>8, ListsStay, KnownAreListed DEF Known, firewall, Removing
<1> QED
  BY <1>9, <1>10, <1>11, <1>12 DEF IInv

LEMMA ApplyPreserves ==
  ASSUME IInv, ApplyStep
  PROVE  IInv'
<1> DEFINE FirewallStays == UNCHANGED <<firewall, manifest, dir, marker, binary, unit, certs,
                                        runs, edits, forgotten, contested, reloaded>>
           Facts == /\ FirewallStays
                    /\ {config', serving'} \subseteq Plans \cup {NoConfig}
                    /\ excused' \in BOOLEAN /\ {failures', faults'} \subseteq Nat
                    /\ run.command \in {"install", "apply"}
                    /\ run' \in RunRecord /\ run'.command = run.command /\ run'.plan = run.plan
                    /\ run'.prior \subseteq run.prior \cup manifest
                    /\ \/ run'.at \in {"failed", "ensuring", "restarting", "rollingBack"}
                          /\ run'.todo \subseteq run.todo \cup manifest
                       \/ run'.at = "reconciling" /\ run'.todo = Obsolete
                       \/ run'.at = "restoring" /\ run'.todo = Added /\ run'.prior = run.prior
                    /\ run'.at # "failed" => marker
                    /\ run.at # "recording"
<1>1. /\ run \in RunRecord /\ manifest \in SUBSET Entries
      /\ {config, serving} \subseteq Plans \cup {NoConfig} /\ excused \in BOOLEAN
      /\ {failures, faults} \subseteq Nat
      /\ Added \in SUBSET Entries /\ Added \subseteq manifest
      /\ Obsolete \in SUBSET Entries /\ Obsolete \subseteq manifest
  BY DEF IInv, TypeOK, RunRecord, Added, Obsolete
<1>2. {"ensuring", "restarting", "rollingBack", "restoring", "reconciling", "failed"}
        \subseteq Working \cup {"ok", "failed"}
  BY DEF Working, Guarded
<1>3. ASSUME run.at \in {"switching", "restarting", "rollingBack"}
      PROVE  run.command \in {"install", "apply"} /\ run.plan \in Plans /\ marker
  BY <1>3 DEF IInv, RunsInOrder, Changing, Guarded, Marks, Working
<1>4. ASSUME ApplyChecks PROVE Facts
  <2>1. /\ run.command = "apply" /\ run.at = "started"
        /\ UNCHANGED <<firewall, manifest, files, serving, bounds, failures, forgotten,
                       contested, reloaded, excused>>
    BY <1>4 DEF ApplyChecks, At, Reaches
  <2>2. CASE run' = [run EXCEPT !.at = "ensuring", !.prior = manifest] /\ marker
    <3>1. /\ run' \in RunRecord /\ run'.at = "ensuring" /\ run'.prior = manifest
          /\ run'.todo = run.todo /\ run'.command = run.command /\ run'.plan = run.plan
      BY <1>1, <1>2, <2>2 DEF RunRecord
    <3> QED
      BY <1>1, <2>1, <2>2, <3>1 DEF files, bounds
  <2>3. CASE Goes("failed")
    BY <1>1, <1>2, <2>1, <2>3, RunGoes DEF files, bounds
  <2> QED
    BY <1>4, <2>2, <2>3 DEF ApplyChecks
<1>5. ASSUME Switch PROVE Facts
  <2>1. PICK at \in {"restarting", "reconciling"} :
          run' = [run EXCEPT !.at = at, !.todo = Obsolete, !.backup = config]
    BY <1>5 DEF Switch
  <2>2. /\ run' \in RunRecord /\ run'.at = at /\ run'.todo = Obsolete
        /\ run'.prior = run.prior /\ run'.command = run.command /\ run'.plan = run.plan
    BY <1>1, <1>2, <2>1 DEF RunRecord
  <2>3. /\ run.at = "switching" /\ config' = run.plan
        /\ UNCHANGED <<firewall, manifest, dir, marker, binary, unit, certs, serving, bounds,
                       failures, forgotten, contested, reloaded, excused>>
    BY <1>5 DEF Switch, Reaches
  <2> QED
    BY <1>1, <1>3, <2>2, <2>3 DEF bounds
<1>6. ASSUME SwitchRefused \/ RollBack PROVE Facts
  <2>1. /\ run.at \in {"switching", "rollingBack"}
        /\ run' = [run EXCEPT !.at = "restoring", !.todo = Added]
        /\ UNCHANGED <<firewall, manifest, dir, marker, binary, unit, certs, bounds,
                       failures, forgotten, contested, reloaded, excused>>
    BY <1>6 DEF SwitchRefused, RollBack, Reaches, files
  <2>2. config' \in {config, run.backup} /\ serving' \in {serving, run.backup, NoConfig}
    BY <1>6 DEF SwitchRefused, RollBack, files
  <2>3. run.backup \in Plans \cup {NoConfig}
    BY <1>1 DEF RunRecord
  <2>4. /\ run' \in RunRecord /\ run'.at = "restoring" /\ run'.todo = Added
        /\ run'.command = run.command /\ run'.plan = run.plan /\ run'.prior = run.prior
    BY <1>1, <1>2, <2>1, RunCloses
  <2> QED
    BY <1>1, <1>3, <2>1, <2>2, <2>3, <2>4 DEF bounds
<1>7. ASSUME Restart PROVE Facts
  <2>1. /\ run.at = "restarting" /\ serving' = config
        /\ run' = [run EXCEPT !.at = "reconciling", !.todo = Obsolete]
        /\ UNCHANGED <<firewall, manifest, files, bounds, failures, forgotten, contested,
                       reloaded, excused>>
    BY <1>7 DEF Restart, Reaches
  <2>2. /\ run' \in RunRecord /\ run'.at = "reconciling" /\ run'.todo = Obsolete
        /\ run'.command = run.command /\ run'.plan = run.plan /\ run'.prior = run.prior
    BY <1>1, <1>2, <2>1, RunCloses
  <2> QED
    BY <1>1, <1>3, <2>1, <2>2 DEF files, bounds
<1>8. ASSUME RestartFails PROVE Facts
  <2>1. /\ run.at = "restarting" /\ serving' = NoConfig /\ failures' = failures + 1
        /\ faults' = faults + 1
        /\ UNCHANGED <<firewall, manifest, files, runs, edits, forgotten, contested, reloaded>>
    BY <1>8 DEF RestartFails, CountFault
  <2>0. excused' \in BOOLEAN
    BY <1>1, <1>8 DEF RestartFails
  <2>2. CASE run' = [run EXCEPT !.at = "restoring", !.todo = Added]
    <3>1. /\ run' \in RunRecord /\ run'.at = "restoring" /\ run'.todo = Added
          /\ run'.command = run.command /\ run'.plan = run.plan /\ run'.prior = run.prior
      BY <1>1, <1>2, <2>2, RunCloses
    <3> QED
      BY <1>1, <1>3, <2>0, <2>1, <3>1 DEF files
  <2>3. CASE Goes("rollingBack")
    <3>1. /\ run' \in RunRecord /\ run'.at = "rollingBack" /\ run'.todo = run.todo
          /\ run'.command = run.command /\ run'.plan = run.plan /\ run'.prior = run.prior
      BY <1>1, <1>2, <2>3, RunGoes
    <3> QED
      BY <1>1, <1>3, <2>0, <2>1, <3>1 DEF files
  <2> QED
    BY <1>8, <2>2, <2>3 DEF RestartFails
<1>0. ASSUME RestartRefused PROVE Facts
  <2>1. /\ run.at = "restarting" /\ Goes("rollingBack")
        /\ UNCHANGED <<firewall, manifest, files, serving, bounds, failures, forgotten,
                       contested, reloaded, excused>>
    BY <1>0 DEF RestartRefused, Reaches
  <2>2. /\ run' \in RunRecord /\ run'.at = "rollingBack" /\ run'.todo = run.todo
        /\ run'.command = run.command /\ run'.plan = run.plan /\ run'.prior = run.prior
    BY <1>1, <1>2, <2>1, RunGoes
  <2> QED
    BY <1>1, <1>3, <2>1, <2>2 DEF files, bounds
<1>9. Facts
  BY <1>0, <1>4, <1>5, <1>6, <1>7, <1>8 DEF ApplyStep
<1>10. TypeOK'
  BY <1>9 DEF IInv, TypeOK, RunRecord, firewall, certs
<1>11. RunsInOrder'
  BY <1>9 DEF IInv, RunsInOrder
<1>12. Marks'
  BY <1>9 DEF IInv, Marks, At, Working, Guarded, firewall, certs
<1>13. OpensTheClosed' /\ ListsOwn' /\ Books'
  BY <1>9, ListsStay, KnownAreListed
  DEF Known, firewall, Removing, Obsolete, Added
<1> QED
  BY <1>10, <1>11, <1>12, <1>13 DEF IInv

LEMMA UninstallPreserves ==
  ASSUME IInv, \/ UninstallStops \/ StopIgnored
               \/ RemoveUnit \/ RemoveBinary \/ RemoveDirectory
  PROVE  IInv'
<1>1. /\ run \in RunRecord /\ manifest \in SUBSET Entries
  BY DEF IInv, TypeOK, RunRecord
<1>2. {"removingUnit", "removingBinary", "removingCertFiles", "withdrawing", "ok"}
        \subseteq Working \cup {"ok", "failed"}
  BY DEF Working, Guarded
<1>3. ASSUME UninstallStops \/ StopIgnored PROVE IInv'
  <2>1. /\ run.command = "uninstall" /\ run.at = "started" /\ serving' \in {serving, NoConfig}
        /\ UNCHANGED <<firewall, manifest, files, runs, edits, forgotten, contested, reloaded>>
    BY <1>3 DEF UninstallStops, StopIgnored, At, Reaches, bounds
  <2>0. {faults', failures'} \subseteq Nat /\ excused' \in BOOLEAN
    <3>1. CASE UninstallStops
      BY <3>1 DEF UninstallStops, Reaches, bounds, IInv, TypeOK
    <3>2. CASE StopIgnored
      BY <3>2 DEF StopIgnored, CountFault, IInv, TypeOK
    <3> QED
      BY <1>3, <3>1, <3>2
  <2>2. /\ run' \in RunRecord /\ run'.command = "uninstall" /\ run'.prior = run.prior
        /\ \/ marker /\ run'.at = "withdrawing" /\ run'.todo = manifest
           \/ ~marker /\ run'.at = "ok" /\ run'.todo = run.todo
    <3>1. CASE marker /\ run' = [run EXCEPT !.at = "withdrawing", !.todo = manifest]
      BY <1>1, <1>2, <2>1, <3>1, RunCloses
    <3>2. CASE ~marker /\ Goes("ok")
      BY <1>1, <1>2, <2>1, <3>2, RunGoes
    <3> QED
      BY <1>3, <3>1, <3>2 DEF UninstallStops, StopIgnored
  <2>3. TypeOK'
    BY <2>0, <2>1, <2>2 DEF IInv, TypeOK, RunRecord, firewall, files, certs
  <2>4. RunsInOrder'
    BY <2>2 DEF RunsInOrder, Changing, Guarded
  <2>5. Marks'
    BY <2>1, <2>2 DEF IInv, Marks, At, firewall, files, certs, Working, Guarded
  <2>6. OpensTheClosed' /\ ListsOwn' /\ Books'
    BY <2>1, <2>2, ListsStay, KnownAreListed DEF Known, firewall, Removing
  <2> QED
    BY <2>3, <2>4, <2>5, <2>6 DEF IInv
<1>4. ASSUME RemoveUnit \/ RemoveBinary \/ RemoveDirectory PROVE IInv'
  <2>1. /\ run.at \in Removing /\ manifest = {} /\ marker
        /\ manifest' = {}
        /\ {dir', marker', binary', unit'} \subseteq BOOLEAN
        /\ config' \in {config, NoConfig}
        /\ UNCHANGED <<firewall, certs, serving, bounds, failures, forgotten, contested,
                       reloaded, excused>>
    BY <1>4 DEF IInv, TypeOK, Books, Marks, Removing, Working, RemoveUnit, RemoveBinary,
                RemoveDirectory, Reaches, history
  <2>2. Known = {}
    BY <2>1, KnownAreListed DEF Removing
  <2>3. /\ run' \in RunRecord /\ run'.command = run.command /\ run'.plan = run.plan
        /\ run'.prior = run.prior /\ run'.todo = run.todo
        /\ \/ run'.at = "removingBinary" /\ marker' /\ ~unit'
           \/ run'.at = "removingCertFiles" /\ marker' /\ ~unit' /\ ~binary'
           \/ run'.at = "ok" /\ ~marker' /\ ~unit' /\ ~binary' /\ owned = {}
    <3>1. CASE RemoveUnit
      BY <1>1, <1>2, <2>1, <3>1, RunGoes DEF RemoveUnit
    <3>2. CASE RemoveBinary
      BY <1>1, <1>2, <2>1, <3>2, RunGoes DEF RemoveBinary, IInv, Marks
    <3>3. CASE RemoveDirectory
      BY <1>1, <1>2, <2>1, <3>3, RunGoes DEF RemoveDirectory, IInv, Marks
    <3> QED
      BY <1>4, <3>1, <3>2, <3>3
  <2>4. TypeOK'
    BY <2>1, <2>3 DEF IInv, TypeOK, RunRecord, firewall, certs, bounds
  <2>5. RunsInOrder'
    BY <2>3 DEF IInv, RunsInOrder, Changing, Guarded
  <2>6. Marks'
    BY <2>1, <2>2, <2>3 DEF Marks, Known, At, Working, Guarded, firewall, certs
  <2>7. OpensTheClosed' /\ ListsOwn' /\ Books'
    BY <2>1, <2>2, <2>3, ListsStay DEF Known, firewall
  <2> QED
    BY <2>4, <2>5, <2>6, <2>7 DEF IInv
<1> QED
  BY <1>3, <1>4

LEMMA RemoveCertFilePreserves ==
  ASSUME IInv, NEW file \in CertFiles, RemoveCertFile(file)
  PROVE  IInv'
<1>1. /\ run.at = "removingCertFiles" /\ owned' = owned \ {file}
      /\ UNCHANGED <<firewall, manifest, dir, marker, binary, unit, config, certificate, taken,
                     serving, run, bounds, history>>
  BY DEF RemoveCertFile
<1>2. TypeOK'
  BY <1>1 DEF IInv, TypeOK, firewall, bounds, history
<1>3. RunsInOrder' /\ Marks'
  BY <1>1 DEF IInv, RunsInOrder, Marks, At, firewall, history
<1>4. OpensTheClosed' /\ ListsOwn' /\ Books'
  BY <1>1 DEF IInv, OpensTheClosed, ListsOwn, MayBeListed, Books, Known, Unrecorded,
              firewall, history
<1> QED
  BY <1>2, <1>3, <1>4 DEF IInv

LEMMA ServicePreserves ==
  ASSUME IInv, ServiceCommand
  PROVE  IInv'
<1>1. /\ run \in RunRecord /\ run.command \in {"start", "stop"} /\ run.at = "started"
      /\ UNCHANGED <<firewall, manifest, files, bounds, failures, forgotten, contested,
                     reloaded, excused>>
      /\ serving' \in {serving, config, NoConfig}
      /\ Goes("ok") \/ Goes("failed")
  BY DEF IInv, TypeOK, RunRecord, ServiceCommand, Reaches
<1>2. /\ run' \in RunRecord /\ run'.at \in {"ok", "failed"} /\ run'.command = run.command
      /\ run'.plan = run.plan /\ run'.prior = run.prior /\ run'.todo = run.todo
  BY <1>1, RunGoes
<1>3. TypeOK'
  BY <1>1, <1>2 DEF IInv, TypeOK, RunRecord, firewall, files, certs, bounds
<1>4. RunsInOrder' /\ Marks'
  BY <1>1, <1>2
  DEF IInv, RunsInOrder, Marks, At, Changing, Working, Guarded, firewall, files, certs
<1>5. OpensTheClosed' /\ ListsOwn' /\ Books'
  BY <1>1, <1>2, ListsStay, KnownAreListed DEF Known, firewall, Removing
<1> QED
  BY <1>3, <1>4, <1>5 DEF IInv

\* A failure and a kill: what is not in the manifest is forgotten.
LEMMA EndsPreserves ==
  ASSUME IInv, excused' \in BOOLEAN,
         \/ run.at \in Guarded /\ Ends("restoring", Added)
         \/ run.at \in Working /\ Ends("failed", {})
  PROVE  IInv'
<1>1. /\ run \in RunRecord /\ Added \in SUBSET Entries /\ failures \in Nat /\ faults \in Nat
  BY DEF IInv, TypeOK, RunRecord, Added
<1>2. /\ UNCHANGED <<firewall, manifest, files, serving, runs, edits, contested, reloaded>>
      /\ faults' = faults + 1
      /\ forgotten' = forgotten \cup Unrecorded
  BY DEF Ends, CountFault
<1>3. failures' \in Nat
  BY <1>1 DEF Ends
<1>4. /\ run' \in RunRecord
      /\ run'.command = run.command /\ run'.plan = run.plan /\ run'.prior = run.prior
      /\ \/ run.at \in Guarded /\ run'.at = "restoring" /\ run'.todo = Added
         \/ run'.at = "failed" /\ run'.todo = {}
  <2>1. CASE run.at \in Guarded /\ run' = [run EXCEPT !.at = "restoring", !.todo = Added]
    BY <1>1, <2>1, RunCloses DEF Working
  <2>2. CASE run' = [run EXCEPT !.at = "failed", !.todo = {}]
    <3>1. {} \in SUBSET Entries
      OBVIOUS
    <3> QED
      BY <1>1, <2>2, <3>1, RunCloses
  <2> QED
    BY <2>1, <2>2 DEF Ends
<1>5. Unrecorded \subseteq Entries
  BY OpensOne DEF Unrecorded
<1>6. Known' \subseteq manifest
  BY <1>2 DEF IInv, Books, Known, firewall
<1>7. run.at \in Guarded => run.command \in {"install", "apply"} /\ marker
  BY DEF IInv, RunsInOrder, Changing, Guarded, Marks, Working
<1>8. TypeOK'
  BY <1>2, <1>3, <1>4, <1>5 DEF IInv, TypeOK, RunRecord, firewall, files, certs
<1>9. RunsInOrder'
  BY <1>4, <1>7 DEF IInv, RunsInOrder, Changing, Guarded
<1>10. Marks'
  BY <1>2, <1>4, <1>7 DEF IInv, Marks, At, Working, Guarded, firewall, files, certs
<1>11. OpensTheClosed' /\ ListsOwn' /\ Books'
  BY <1>2, <1>4, <1>6, ListsStay DEF firewall, Removing, Added
<1> QED
  BY <1>8, <1>9, <1>10, <1>11 DEF IInv

LEMMA FaultsPreserve ==
  ASSUME IInv, Fails \/ Killed
  PROVE  IInv'
<1>1. excused' \in BOOLEAN
  BY DEF IInv, TypeOK, Fails, Killed
<1> QED
  BY <1>1, EndsPreserves DEF Fails, Killed

\* Between two runs the lists of the run are empty.
LEMMA AdminPreserves ==
  ASSUME IInv, AdminActs,
         foreign' \cup opened' \subseteq Entries, foreign' \cap opened' = {},
         enabled' \in BOOLEAN, reloaded' \in BOOLEAN,
         forgotten \subseteq forgotten', forgotten' \subseteq Entries,
         contested \subseteq contested', contested' \subseteq Entries,
         reloaded => reloaded',
         opened' \ forgotten' \subseteq manifest,
         ~marker => opened' \subseteq forgotten',
         \A e \in foreign' \cap manifest :
           e \in foreign \/ e \in contested' \/ (e[1] = "runtime" /\ reloaded')
  PROVE  IInv'
<1>1. /\ run.at = "idle" /\ edits' = edits + 1
      /\ UNCHANGED <<manager, manifest, files, serving, run, runs, faults,
                     phase, failures, excused>>
  BY DEF AdminActs
<1>2. run.prior = {} /\ run.todo = {}
  BY <1>1 DEF IInv, RunsInOrder, NoRun
<1>3. TypeOK'
  BY <1>1 DEF IInv, TypeOK, files, certs
<1>4. RunsInOrder' /\ OpensTheClosed'
  BY <1>1 DEF IInv, RunsInOrder, OpensTheClosed
<1>5. ListsOwn'
  BY <1>1, <1>2 DEF IInv, ListsOwn, MayBeListed
<1>6. Books'
  BY <1>1 DEF Books, Known, Removing
<1>7. Marks'
  BY <1>1 DEF IInv, Marks, At, Working, Guarded, files, certs
<1> QED
  BY <1>3, <1>4, <1>5, <1>6, <1>7 DEF IInv

LEMMA AdminOpensPreserves ==
  ASSUME IInv, NEW e \in Entries, AdminOpens(e)
  PROVE  IInv'
<1>1. /\ AdminActs /\ foreign' = foreign \cup {e} /\ e \notin opened
      /\ contested' = contested \cup ({e} \cap manifest)
      /\ UNCHANGED <<enabled, opened, forgotten, reloaded>>
  BY DEF AdminOpens, IsOpen
<1>2. run.at = "idle"
  BY <1>1 DEF AdminActs
<1> QED
  BY <1>1, <1>2, AdminPreserves, KnownAreListed DEF IInv, TypeOK, Known, Marks

\* Loading firewalld copies every permanent rule for its owner.
LEMMA LoadedRules ==
  ASSUME IInv
  PROVE  /\ Loaded(foreign) \cup Loaded(opened) \subseteq Entries
         /\ Loaded(foreign) \cap Loaded(opened) = {}
         /\ \A e \in Loaded(foreign) : e \in foreign \/ e[1] = "runtime"
         /\ \A e \in Loaded(opened) : e \in opened \/ e[1] = "runtime"
<1>1. /\ foreign \subseteq {"ufw", "permanent", "runtime"} \X Ports
      /\ opened \subseteq {"ufw", "permanent", "runtime"} \X Ports
      /\ foreign \cap opened = {}
  BY DEF IInv, TypeOK, Entries
<1> QED
  BY <1>1 DEF Loaded, Entries

LEMMA ReloadsPreserves ==
  ASSUME IInv, AdminActs, Reloads, enabled' \in BOOLEAN, UNCHANGED contested
  PROVE  IInv'
<1>1. /\ opened' = Loaded(opened) /\ foreign' = Loaded(foreign) /\ reloaded' = TRUE
      /\ forgotten' = forgotten \cup {e \in opened' \ manifest : e[1] = "runtime"}
  BY DEF Reloads
<1>2. run.at = "idle"
  BY DEF AdminActs
<1>3. opened' \ forgotten' \subseteq manifest
  BY <1>1, <1>2, LoadedRules, KnownAreListed DEF Known
<1>4. ~marker => opened' \subseteq forgotten'
  BY <1>3 DEF IInv, Marks
<1> QED
  BY <1>1, <1>3, <1>4, AdminPreserves, LoadedRules DEF IInv, TypeOK

LEMMA SwitchesPreserves ==
  ASSUME IInv, AdminReloads \/ AdminSwitches
  PROVE  IInv'
<1>1. CASE AdminReloads
  BY <1>1, ReloadsPreserves DEF AdminReloads, IInv, TypeOK
<1>2. CASE AdminSwitches
  <2>1. AdminActs /\ enabled' \in BOOLEAN /\ UNCHANGED contested
    BY <1>2 DEF AdminSwitches, IInv, TypeOK
  <2>2. run.at = "idle"
    BY <2>1 DEF AdminActs
  <2>3. CASE Reloads
    BY <2>1, <2>3, ReloadsPreserves
  <2>4. CASE /\ opened' \subseteq opened /\ foreign' \subseteq foreign
             /\ reloaded' \in BOOLEAN /\ (reloaded => reloaded')
             /\ UNCHANGED forgotten
    BY <2>1, <2>2, <2>4, AdminPreserves, KnownAreListed DEF IInv, TypeOK, Known, Marks
  <2> QED
    BY <1>2, <2>3, <2>4 DEF AdminSwitches, IInv, TypeOK
<1> QED
  BY <1>1, <1>2

LEMMA NextPreserves == IInv /\ [Next]_vars => IInv'
<1> SUFFICES ASSUME IInv, [Next]_vars PROVE IInv'
  OBVIOUS
<1>1. CASE UNCHANGED vars
  <2>1. UNCHANGED <<manager, enabled, foreign, opened, manifest, dir, marker, binary, unit, config,
                    certificate, taken, owned, serving, run, runs, faults, edits, failures,
                    forgotten, contested, reloaded, excused>>
    BY <1>1 DEF vars, firewall, files, certs, bounds, history
  <2> QED
    BY <2>1 DEF IInv, TypeOK, RunsInOrder, OpensTheClosed, ListsOwn, MayBeListed, Books, Known,
                Unrecorded, Obsolete, Required, Added, Marks, At
<1>2. CASE \E plan \in Plans : Begin("install", plan) \/ Begin("apply", plan)
  BY <1>2, BeginPreserves
<1>3. CASE \E command \in {"uninstall", "start", "stop"} : Begin(command, NoConfig)
  BY <1>3, BeginPreserves
<1>4. CASE FirewallStep
  <2>1. CASE \E e \in Entries : CloseObsolete(e) \/ CloseAdded(e) \/ CloseManaged(e)
    BY <2>1, ClosePreserves DEF CloseObsolete, CloseAdded, CloseManaged
  <2>2. CASE WithdrawEnds \/ ReconcileEnds \/ RestoreEnds
    BY <2>2, ClosedPreserves
  <2> QED
    BY <1>4, <2>1, <2>2, CertPreserves, OpenPreserves, RecordPreserves, ExaminePreserves
    DEF FirewallStep
<1>5. CASE CertStep
  BY <1>5, CertPreserves
<1>6. CASE InstallStep
  BY <1>6, InstallPreserves
<1>7. CASE ApplyStep
  BY <1>7, ApplyPreserves
<1>8. CASE UninstallStep
  BY <1>8, UninstallPreserves, ClosedPreserves, RemoveCertFilePreserves DEF UninstallStep
<1>9. CASE ServiceCommand \/ Exit
  BY <1>9, ServicePreserves, ExitPreserves
<1>10. CASE Fails \/ Killed
  BY <1>10, FaultsPreserve
<1>11. CASE AdminReloads \/ AdminSwitches
  BY <1>11, SwitchesPreserves
<1>12. CASE \E e \in Entries : AdminOpens(e)
  BY <1>12, AdminOpensPreserves
<1> QED
  BY <1>1, <1>2, <1>3, <1>4, <1>5, <1>6, <1>7, <1>8, <1>9, <1>10, <1>11, <1>12 DEF Next

-----------------------------------------------------------------------------
(***************************************************************************)
(* The theorems.                                                           *)
(***************************************************************************)

\* In every reachable state the inductive invariant holds.
THEOREM InductiveInvariant == Spec => []IInv
<1> QED
  BY InitEstablishes, NextPreserves, PTL DEF Spec

\* Every variable of a helper keeps to its type, and no rule of the firewall
\* has two owners, whatever runs, fails, is killed or is reloaded (helper.ts).
THEOREM TypeCorrect == Spec => []TypeOK
<1>1. IInv => TypeOK
  BY DEF IInv
<1> QED
  BY <1>1, InductiveInvariant, PTL

\* Between runs the manifest lists every rule the helper made, but for the
\* named gaps, and an uninstall that reports success leaves none, nor a file.
THEOREM RulesAreNotForgotten == Spec => []NothingForgotten
<1>1. ASSUME IInv PROVE NothingForgotten
  <2>1. run.at = "idle" => opened \ forgotten \subseteq manifest
    BY <1>1, KnownAreListed DEF Known
  <2>2. At("uninstall", "ok") => opened \subseteq forgotten /\ owned = {} /\ ~(binary \/ unit)
    BY <1>1 DEF IInv, Marks
  <2> QED
    BY <2>1, <2>2 DEF NothingForgotten
<1> QED
  BY <1>1, InductiveInvariant, PTL

\* No step of the helper removes a rule that others made, but for one that
\* the manifest came to list because of a reload, or of an act of the
\* administrator on a rule that was still listed.
THEOREM OthersKeepTheirRules == Spec => ForeignRulesStay
<1> DEFINE Kept == \A e \in foreign \ foreign' :
                     e \in contested \/ (e[1] = "runtime" /\ reloaded')
<1>1. ASSUME IInv, [Next]_vars PROVE [Kept]_vars
  <2>1. CASE UNCHANGED foreign
    BY <2>1
  <2>2. CASE \E e \in Entries : Close(e)
    <3>1. PICK e \in Entries : Close(e)
      BY <2>2
    <3>2. /\ foreign \ foreign' \subseteq {e} /\ e \in run.todo /\ reloaded' = reloaded
      BY <3>1 DEF Close
    <3> QED
      BY <1>1, <3>2 DEF IInv, ListsOwn, MayBeListed
  <2>3. CASE Reloads
    BY <2>3 DEF Reloads, Loaded
  <2>4. CASE foreign' = {e \in foreign : e[1] # "runtime"} /\ reloaded' = TRUE
    BY <2>4
  <2>5. CASE \E e \in Entries : AdminOpens(e)
    BY <2>5 DEF AdminOpens
  <2>6. CASE AdminReloads \/ AdminSwitches
    BY <2>1, <2>3, <2>4, <2>6 DEF AdminReloads, AdminSwitches
  <2>7. CASE FirewallStep
    BY <2>1, <2>2, <2>7
    DEF FirewallStep, FindManager, AllExamined, Open, Record, Examine, ReconcileEnds, RestoreEnds,
        CloseObsolete, CloseAdded, CloseManaged, firewall
  <2>8. CASE CertStep \/ InstallStep
    BY <2>1, <2>8
    DEF CertStep, Certify, PlaceVhost, PlaceHook, Keep, CertFileTaken, Issue, InstallStep,
        InstallChecks, InstallMarks, PlaceBinary, Configure, PlaceUnit, firewall
  <2>9. CASE ApplyStep \/ UninstallStep \/ ServiceCommand
    BY <2>1, <2>9
    DEF ApplyStep, ApplyChecks, Switch, SwitchRefused, Restart, RestartRefused, RestartFails,
        RollBack, UninstallStep, UninstallStops, StopIgnored, WithdrawEnds, RemoveUnit, RemoveBinary, RemoveDirectory,
        RemoveCertFile, ServiceCommand, firewall
  <2>10. CASE \/ \E plan \in Plans : Begin("install", plan) \/ Begin("apply", plan)
              \/ \E command \in {"uninstall", "start", "stop"} : Begin(command, NoConfig)
              \/ Fails \/ Killed \/ Exit \/ UNCHANGED vars
    BY <2>1, <2>10 DEF Begin, Fails, Killed, Ends, Exit, vars, firewall
  <2> QED
    BY <1>1, <2>5, <2>6, <2>7, <2>8, <2>9, <2>10 DEF Next
<1> QED
  BY <1>1, InductiveInvariant, PTL DEF Spec, ForeignRulesStay

-----------------------------------------------------------------------------
(***************************************************************************)
(* The port of the running service.  That it is open follows from what     *)
(* holds of all ports in use while a run changes over to another one.      *)
(***************************************************************************)

\* Of the rules of firewalld, those it is loaded from.
Lasting == IF manager = "ufw" THEN "ufw" ELSE "permanent"

\* The port is open, now and after a reload, and the manifest knows the rule
\* that a run would else adopt as its own.
KeptOpen(port) ==
  /\ IsOpen(<<Lasting, port>>)
  /\ enabled => IsOpen(<<EffectiveLayer, port>>)
  /\ <<"ufw", port>> \in opened => <<"ufw", port>> \in manifest

\* What is served, and what would be after a start of the service.
Served == IF serving = NoConfig THEN {} ELSE {serving}
Startable ==
  IF config # NoConfig /\ unit /\ run.at \notin {"withdrawing", "removingUnit"}
  THEN {config} ELSE {}
InUse == Served \cup Startable

\* Putting the firewall back does not close the port.
Untouched(port) == \A e \in Added : e[2] # port

Opening == {"opening", "recording"}
Examining == Opening \cup {"examining"}
Certifying == {"certifying", "hosting", "issuing", "hooking", "configuring", "switching"}
Settling == {"placing", "restarting", "rollingBack", "reconciling"}
Restored == Examining \cup Certifying \cup {"ensuring", "restoring"}

\* The ports in use are open, and a run that is put back leaves them so.
UsedAreKept == \A port \in InUse : KeptOpen(port)
UsedAreUntouched ==
  /\ run.at \in Restored => \A port \in InUse : Untouched(port)
  /\ run.at \in Opening => \A e \in run.todo : e[2] \notin InUse
BackupIsKept ==
  run.at \in {"restarting", "rollingBack"} /\ run.command = "apply" /\ run.backup # NoConfig =>
    KeptOpen(run.backup) /\ Untouched(run.backup)
WithFirewall == run.at \in Examining \cup Certifying \cup Settling => enabled
UsedIsKept == ~excused => UsedAreKept /\ UsedAreUntouched /\ BackupIsKept /\ WithFirewall

\* The ports of the plan are open, once they have been examined.
Pending == IF run.at \in Opening THEN run.todo ELSE {}
ExaminedAreOpen ==
  run.at \in Examining =>
    /\ enabled
    /\ Unrecorded \subseteq opened
    /\ \A port \in Required(run.plan) \ run.ports :
         /\ \A layer \in Layers(manager) : <<layer, port>> \in Pending \/ IsOpen(<<layer, port>>)
         /\ <<"ufw", port>> \in opened => <<"ufw", port>> \in manifest \cup Unrecorded
PlanIsKept ==
  run.at \in Certifying \cup Settling /\ enabled =>
    \A port \in Required(run.plan) : KeptOpen(port)
PlanIsOpen == ExaminedAreOpen /\ PlanIsKept

\* Where the configuration of the plan is, and what is served with it.
InOrder ==
  /\ serving # NoConfig => unit \/ excused
  /\ run.at \in {"configuring", "placing"} => run.command = "install"
  /\ run.at = "switching" => run.command = "apply"
  /\ run.at = "placing" => phase = "configured"
  /\ run.at \in {"restarting", "rollingBack"} => unit \/ excused
  /\ run.at = "restarting" /\ run.command = "install" => unit
  /\ run.at = "restarting" => phase = IF run.command = "install" THEN "placed" ELSE "switched"
  /\ run.at = "rollingBack" => phase = "stalled"
  /\ run.at \in Settling => config = run.plan
  /\ run.at = "reconciling" =>
       /\ phase \in {"running", "switched"}
       /\ serving \in {run.plan, NoConfig}
       /\ serving # NoConfig => unit
       /\ \A e \in run.todo : e[2] \notin Required(run.plan)
  /\ run.at = "rollingBack" => run.command = "apply"
  /\ run.at = "restoring" => run.todo \subseteq Added
  /\ run.at \in {"withdrawing", "removingUnit"} => phase = "stopped"
  /\ run.at \in Removing \cup {"withdrawing"} => serving = NoConfig \/ excused

ServedInv == UsedIsKept /\ PlanIsOpen /\ InOrder

-----------------------------------------------------------------------------
(***************************************************************************)
(* Its steps.                                                              *)
(***************************************************************************)

LEMMA ServedInit == Init => ServedInv
<1> SUFFICES ASSUME Init PROVE ServedInv
  OBVIOUS
<1>1. run.at = "idle" /\ serving = NoConfig /\ config = NoConfig
  BY DEF Init, NoRun
<1>2. InUse = {}
  BY <1>1 DEF InUse, Served, Startable
<1>3. UsedIsKept
  BY <1>1, <1>2 DEF UsedIsKept, UsedAreKept, UsedAreUntouched, BackupIsKept, WithFirewall,
                    Restored, Opening, Examining, Certifying, Settling
<1>4. PlanIsOpen /\ InOrder
  BY <1>1 DEF PlanIsOpen, ExaminedAreOpen, PlanIsKept, InOrder, Removing,
              Opening, Examining, Certifying, Settling
<1> QED
  BY <1>3, <1>4 DEF ServedInv

\* A port is kept when no rule of it is touched, and what is added to the
\* manifest does not spoil it.
LEMMA RulesStay ==
  ASSUME UNCHANGED <<firewall, manifest>>, NEW port
  PROVE  KeptOpen(port)' <=> KeptOpen(port)
BY DEF KeptOpen, IsOpen, Lasting, EffectiveLayer, firewall

LEMMA OtherRulesChange ==
  ASSUME UNCHANGED <<manager, enabled>>, NEW port, KeptOpen(port),
         \A e : e[2] = port => (IsOpen(e) => IsOpen(e)'),
         <<"ufw", port>> \in opened' => <<"ufw", port>> \in opened,
         <<"ufw", port>> \in manifest => <<"ufw", port>> \in manifest'
  PROVE  KeptOpen(port)'
<1>1. \A layer : <<layer, port>>[2] = port
  OBVIOUS
<1>2. IsOpen(<<Lasting, port>>) => IsOpen(<<Lasting, port>>)'
  BY <1>1 DEF Lasting
<1>3. IsOpen(<<EffectiveLayer, port>>) => IsOpen(<<EffectiveLayer, port>>)'
  BY <1>1 DEF EffectiveLayer
<1> QED
  BY <1>2, <1>3 DEF KeptOpen, Lasting, EffectiveLayer

LEMMA AddedStays ==
  ASSUME UNCHANGED manifest, run'.prior = run.prior, NEW port
  PROVE  Untouched(port)' <=> Untouched(port)
BY DEF Untouched, Added

\* A run at rest, or before it touches the firewall, asks only that what is in
\* use is open.
Resting == {"idle", "ok", "failed", "started", "marking", "fetching"}

LEMMA RestsWhenKept ==
  ASSUME run'.at \in Resting, serving' # NoConfig => unit' \/ excused',
         ~excused' => UsedAreKept'
  PROVE  ServedInv'
<1>1. UsedIsKept'
  BY DEF UsedIsKept, UsedAreUntouched, BackupIsKept, WithFirewall, Resting,
         Restored, Opening, Examining, Certifying, Settling
<1>2. PlanIsOpen' /\ InOrder'
  BY DEF PlanIsOpen, ExaminedAreOpen, PlanIsKept, InOrder, Removing, Resting,
         Opening, Examining, Certifying, Settling
<1> QED
  BY <1>1, <1>2 DEF ServedInv

LEMMA RunRests ==
  ASSUME ServedInv, UNCHANGED <<firewall, manifest, serving, config, unit>>,
         run'.at \in Resting,
         ~excused' => ~excused /\ run.at \notin {"withdrawing", "removingUnit"}
  PROVE  ServedInv'
<1>1. serving' # NoConfig => unit' \/ excused'
  BY DEF ServedInv, InOrder
<1>2. ASSUME ~excused' PROVE UsedAreKept'
  <2>1. InUse' = InUse
    BY <1>2 DEF InUse, Served, Startable, Resting
  <2> QED
    BY <1>2, <2>1, RulesStay DEF UsedAreKept, ServedInv, UsedIsKept
<1> QED
  BY <1>1, <1>2, RestsWhenKept

\* A run that goes on without touching the firewall, up to the certificate.
LEMMA RunPrepares ==
  ASSUME IInv, ServedInv, UNCHANGED <<firewall, manifest, serving, config, unit>>,
         run'.command = run.command, run'.plan = run.plan, run'.prior = run.prior,
         run.at \in {"examining"} \cup Certifying, run'.at \in Certifying,
         run.at = "examining" => \A port \in Required(run.plan) : KeptOpen(port),
         run'.at = "configuring" => run.command = "install",
         run'.at = "switching" => run.command = "apply",
         excused' = excused
  PROVE  ServedInv'
<1>1. InUse' = InUse
  BY DEF InUse, Served, Startable, Certifying
<1>2. UsedIsKept'
  BY <1>1, RulesStay, AddedStays
  DEF ServedInv, UsedIsKept, UsedAreKept, UsedAreUntouched, BackupIsKept, WithFirewall,
      Restored, Opening, Examining, Certifying, Settling, firewall
<1>3. PlanIsOpen'
  BY RulesStay
  DEF ServedInv, PlanIsOpen, ExaminedAreOpen, PlanIsKept, Required,
      Opening, Examining, Certifying, Settling, firewall
<1>4. InOrder'
  BY DEF ServedInv, InOrder, Certifying, Settling, Removing
<1> QED
  BY <1>2, <1>3, <1>4 DEF ServedInv

\* A run that is to put the firewall back.
LEMMA RunIsPutBack ==
  ASSUME IInv, ServedInv, UNCHANGED <<firewall, manifest>>,
         run'.at = "restoring", run'.todo = Added, run'.prior = run.prior,
         serving' # NoConfig => unit' \/ excused',
         ~excused' => \A port \in InUse' : KeptOpen(port) /\ Untouched(port)
  PROVE  ServedInv'
<1>1. UsedIsKept'
  BY RulesStay, AddedStays
  DEF UsedIsKept, UsedAreKept, UsedAreUntouched, BackupIsKept, WithFirewall,
      Restored, Opening, Examining, Certifying, Settling
<1>2. PlanIsOpen' /\ InOrder'
  BY DEF PlanIsOpen, ExaminedAreOpen, PlanIsKept, InOrder, Removing, Added,
         Opening, Examining, Certifying, Settling
<1> QED
  BY <1>1, <1>2 DEF ServedInv

LEMMA BeginServes ==
  ASSUME IInv, ServedInv, NEW command, NEW plan, Begin(command, plan)
  PROVE  ServedInv'
<1>1. run'.at = "started"
  BY DEF Begin, NoRun
<1> QED
  BY <1>1, RunRests DEF Begin, Resting, files, Reaches

LEMMA ExitServes ==
  ASSUME IInv, ServedInv, Exit
  PROVE  ServedInv'
<1>1. run'.at = "idle"
  BY DEF Exit, NoRun
<1> QED
  BY <1>1, RunRests DEF Exit, Resting, files, history

\* The ports of the plan are looked up.
LEMMA FindManagerServes ==
  ASSUME IInv, ServedInv, FindManager
  PROVE  ServedInv'
<1>1. /\ UNCHANGED <<firewall, manifest, serving, config, unit, phase>> /\ run.at = "ensuring"
      /\ excused' = (excused \/ ~enabled)
  BY DEF FindManager, files
<1>2. /\ run'.command = run.command /\ run'.plan = run.plan /\ run'.prior = run.prior
      /\ run'.ports = Required(run.plan)
      /\ \/ enabled /\ run'.at = "examining"
         \/ ~enabled /\ run'.at = "certifying"
  BY DEF FindManager, IInv, TypeOK
<1>3. InUse' = InUse
  BY <1>1, <1>2 DEF InUse, Served, Startable
<1>4. UsedIsKept'
  BY <1>1, <1>2, <1>3, RulesStay, AddedStays
  DEF ServedInv, UsedIsKept, UsedAreKept, UsedAreUntouched, BackupIsKept, WithFirewall,
      Restored, Opening, Examining, Certifying, Settling, firewall
<1>5. PlanIsOpen'
  BY <1>1, <1>2 DEF PlanIsOpen, ExaminedAreOpen, PlanIsKept, Required, Unrecorded,
                    Opening, Examining, Certifying, Settling, firewall
<1>6. InOrder'
  BY <1>1, <1>2 DEF ServedInv, InOrder, Certifying, Settling, Removing
<1> QED
  BY <1>4, <1>5, <1>6 DEF ServedInv

\* A port in use is found open, so nothing is opened for it or adopted.
LEMMA ExamineServes ==
  ASSUME IInv, ServedInv, NEW p \in Ports, Examine(p)
  PROVE  ServedInv'
<1> DEFINE missing == {e \in Layers(manager) \X {p} : ~IsOpen(e)}
<1>1. /\ run.at = "examining" /\ p \in run.ports /\ manifest' = manifest \cup Adopted(p)
      /\ UNCHANGED <<firewall, serving, config, unit, phase, excused>>
  BY DEF Examine, files
<1>2. /\ run'.command = run.command /\ run'.plan = run.plan /\ run'.prior = run.prior
      /\ run'.ports = run.ports \ {p} /\ run'.todo = missing
      /\ \/ missing = {} /\ run'.at = "examining"
         \/ missing # {} /\ run'.at = "opening"
  BY DEF Examine, IInv, TypeOK
<1>3. \A e \in missing : e[2] = p
  OBVIOUS
<1>4. \A layer \in Layers(manager) : <<layer, p>> \in missing \/ IsOpen(<<layer, p>>)
  OBVIOUS
<1>5. ASSUME KeptOpen(p), enabled PROVE missing = {} /\ Adopted(p) \subseteq manifest
  <2>1. Adopted(p) \subseteq manifest
    BY <1>5 DEF KeptOpen, Adopted
  <2>2. \A layer \in Layers(manager) : IsOpen(<<layer, p>>)
    BY <1>5 DEF KeptOpen, Layers, Lasting, EffectiveLayer
  <2> QED
    BY <2>1, <2>2
<1> HIDE DEF missing
<1>6. InUse' = InUse
  BY <1>1, <1>2 DEF InUse, Served, Startable
<1>7. enabled /\ enabled'
  BY <1>1 DEF ServedInv, PlanIsOpen, ExaminedAreOpen, Examining, firewall
<1>8. ASSUME NEW port, KeptOpen(port) PROVE KeptOpen(port)'
  BY <1>1, <1>8 DEF KeptOpen, IsOpen, Lasting, EffectiveLayer, firewall
<1>9. ASSUME ~excused PROVE UsedAreKept' /\ UsedAreUntouched'
  <2>1. UsedAreKept /\ \A port \in InUse : Untouched(port)
    BY <1>1, <1>9 DEF ServedInv, UsedIsKept, UsedAreUntouched, Restored, Examining
  <2>2. UsedAreKept'
    BY <1>6, <1>8, <2>1 DEF UsedAreKept
  <2>3. ASSUME NEW port \in InUse PROVE Untouched(port)'
    <3>1. CASE port = p
      BY <1>1, <1>2, <1>5, <1>7, <2>1, <3>1 DEF UsedAreKept, Untouched, Added
    <3>2. CASE port # p
      BY <1>1, <1>2, <2>1, <3>2 DEF Untouched, Added, Adopted
    <3> QED
      BY <3>1, <3>2
  <2>4. p \in InUse => missing = {}
    BY <1>5, <1>7, <2>1 DEF UsedAreKept
  <2> QED
    BY <1>2, <1>3, <1>6, <2>2, <2>3, <2>4 DEF UsedAreUntouched, Opening
<1>10. UsedIsKept'
  BY <1>1, <1>2, <1>7, <1>9 DEF UsedIsKept, BackupIsKept, WithFirewall
<1>11. PlanIsOpen'
  <2>1. \A port \in Required(run.plan) \ run.ports :
          /\ \A layer \in Layers(manager) : IsOpen(<<layer, port>>)
          /\ <<"ufw", port>> \in opened => <<"ufw", port>> \in manifest
    BY <1>1 DEF ServedInv, PlanIsOpen, ExaminedAreOpen, Examining, Opening, Pending, Unrecorded
  <2>2. \A layer \in Layers(manager) :
          <<layer, p>> \in Pending' \/ IsOpen(<<layer, p>>)
    BY <1>2, <1>4 DEF Pending, Opening
  <2>3. <<"ufw", p>> \in opened => <<"ufw", p>> \in manifest'
    BY <1>1 DEF Adopted
  <2>4. Unrecorded' = {}
    BY <1>2 DEF Unrecorded
  <2>5. Layers(manager)' = Layers(manager) /\ \A e : IsOpen(e)' <=> IsOpen(e)
    BY <1>1 DEF Layers, IsOpen, firewall
  <2>6. ExaminedAreOpen'
    BY <1>1, <1>2, <1>7, <2>1, <2>2, <2>3, <2>4, <2>5 DEF ExaminedAreOpen, Required, firewall
  <2> QED
    BY <1>2, <2>6 DEF PlanIsOpen, PlanIsKept, Certifying, Settling
<1>12. InOrder'
  BY <1>1, <1>2 DEF ServedInv, InOrder, Settling, Removing
<1> QED
  BY <1>10, <1>11, <1>12 DEF ServedInv

LEMMA AllExaminedServes ==
  ASSUME IInv, ServedInv, AllExamined
  PROVE  ServedInv'
<1>1. run.at = "examining" /\ run.ports = {} /\ run \in RunRecord /\ manager \in Managers
  BY DEF AllExamined, IInv, TypeOK, RunRecord
<1>2. /\ run'.at = "certifying" /\ run'.command = run.command /\ run'.plan = run.plan
      /\ run'.prior = run.prior
  BY <1>1, RunGoes DEF AllExamined, Working, Guarded
<1>3. \A port \in Required(run.plan) : KeptOpen(port)
  BY <1>1 DEF ServedInv, PlanIsOpen, ExaminedAreOpen, Examining, Opening, Pending, Unrecorded,
              KeptOpen, Layers, Lasting, EffectiveLayer, Managers
<1> QED
  BY <1>1, <1>2, <1>3, RunPrepares DEF AllExamined, files, history, Certifying

\* The rule that is opened is of no port in use.
LEMMA OpenServes ==
  ASSUME IInv, ServedInv, Open
  PROVE  ServedInv'
<1> DEFINE one == Next1(run.todo)
<1>1. /\ run.at = "opening" /\ opened' = opened \cup {one} /\ run \in RunRecord
      /\ UNCHANGED <<manager, enabled, foreign, manifest, serving, config, unit, phase, excused>>
  BY DEF Open, IInv, TypeOK, RunRecord, files, history
<1>2. /\ run'.at = "recording" /\ run'.command = run.command /\ run'.plan = run.plan
      /\ run'.prior = run.prior /\ run'.todo = run.todo /\ run'.ports = run.ports
  BY <1>1 DEF Open, Goes, RunRecord
<1>3. one \in run.todo /\ Unrecorded' = {one} /\ Unrecorded = {}
  BY <1>1, <1>2, OpensOne DEF Unrecorded
<1> HIDE DEF one
<1>4. InUse' = InUse
  BY <1>1, <1>2 DEF InUse, Served, Startable
<1>5. \A e : IsOpen(e) => IsOpen(e)'
  BY <1>1 DEF IsOpen
<1>6. ASSUME ~excused PROVE UsedAreKept' /\ UsedAreUntouched'
  <2>1. /\ UsedAreKept /\ \A port \in InUse : Untouched(port)
        /\ \A e \in run.todo : e[2] \notin InUse
    BY <1>1, <1>6 DEF ServedInv, UsedIsKept, UsedAreUntouched, Restored, Examining, Opening
  <2>2. ASSUME NEW port \in InUse PROVE KeptOpen(port)'
    <3>1. KeptOpen(port) /\ <<"ufw", port>> # one
      BY <1>3, <2>1 DEF UsedAreKept
    <3>2. <<"ufw", port>> \in opened' => <<"ufw", port>> \in opened
      BY <1>1, <3>1
    <3> QED
      BY <1>1, <1>5, <3>1, <3>2, OtherRulesChange
  <2>3. \A port \in InUse : Untouched(port)'
    BY <1>1, <1>2, <2>1, AddedStays
  <2> QED
    BY <1>2, <1>4, <2>1, <2>2, <2>3 DEF UsedAreKept, UsedAreUntouched
<1>7. enabled
  BY <1>1 DEF ServedInv, PlanIsOpen, ExaminedAreOpen, Examining, Opening
<1>8. UsedIsKept'
  BY <1>1, <1>2, <1>6, <1>7 DEF UsedIsKept, BackupIsKept, WithFirewall
<1>9. ExaminedAreOpen'
  <2>1. \A port \in Required(run.plan) \ run.ports :
          /\ \A layer \in Layers(manager) :
               <<layer, port>> \in run.todo \/ IsOpen(<<layer, port>>)
          /\ <<"ufw", port>> \in opened => <<"ufw", port>> \in manifest
    BY <1>1, <1>3 DEF ServedInv, PlanIsOpen, ExaminedAreOpen, Examining, Opening, Pending
  <2>2. Pending' = run.todo /\ Layers(manager)' = Layers(manager)
    BY <1>1, <1>2 DEF Pending, Opening, Layers
  <2>3. ASSUME NEW port \in Required(run.plan) \ run.ports
        PROVE  <<"ufw", port>> \in opened' => <<"ufw", port>> \in manifest' \cup Unrecorded'
    BY <1>1, <1>3, <2>1
  <2> QED
    BY <1>1, <1>2, <1>3, <1>5, <1>7, <2>1, <2>2, <2>3 DEF ExaminedAreOpen, Required
<1>10. PlanIsKept' /\ InOrder'
  BY <1>1, <1>2 DEF ServedInv, PlanIsKept, InOrder, Certifying, Settling, Removing
<1> QED
  BY <1>8, <1>9, <1>10 DEF ServedInv, PlanIsOpen

LEMMA RecordServes ==
  ASSUME IInv, ServedInv, Record
  PROVE  ServedInv'
<1> DEFINE one == Next1(run.todo)
           rest == run.todo \ {one}
<1>1. /\ run.at = "recording" /\ manifest' = manifest \cup {one} /\ run \in RunRecord
      /\ UNCHANGED <<firewall, serving, config, unit, phase, excused>>
  BY DEF Record, IInv, TypeOK, RunRecord, files
<1>2. run' = [run EXCEPT !.at = IF rest = {} THEN "examining" ELSE "opening", !.todo = rest]
  BY DEF Record
<1>3. one \in run.todo /\ Unrecorded = {one}
  BY <1>1, OpensOne DEF Unrecorded
<1>4. rest \subseteq run.todo /\ run.todo = rest \cup {one}
  BY <1>3
<1> HIDE DEF rest
<1>5. /\ run'.command = run.command /\ run'.plan = run.plan /\ run'.prior = run.prior
      /\ run'.todo = rest /\ run'.ports = run.ports
      /\ run'.at \in {"examining", "opening"} /\ (run'.at = "examining" => rest = {})
  BY <1>1, <1>2 DEF RunRecord
<1> HIDE DEF one
<1>6. InUse' = InUse
  BY <1>1, <1>5 DEF InUse, Served, Startable
<1>7. enabled /\ enabled' /\ one \in opened
  BY <1>1, <1>3 DEF ServedInv, PlanIsOpen, ExaminedAreOpen, Examining, Opening, firewall
<1>8. ASSUME ~excused PROVE UsedAreKept' /\ UsedAreUntouched'
  <2>1. /\ UsedAreKept /\ \A port \in InUse : Untouched(port)
        /\ \A e \in run.todo : e[2] \notin InUse
    BY <1>1, <1>8 DEF ServedInv, UsedIsKept, UsedAreUntouched, Restored, Examining, Opening
  <2>2. ASSUME NEW port \in InUse PROVE KeptOpen(port)'
    BY <1>1, <2>1 DEF UsedAreKept, KeptOpen, IsOpen, Lasting, EffectiveLayer, firewall
  <2>3. \A port \in InUse : Untouched(port)'
    BY <1>1, <1>3, <1>5, <2>1 DEF Untouched, Added
  <2> QED
    BY <1>4, <1>5, <1>6, <2>1, <2>2, <2>3 DEF UsedAreKept, UsedAreUntouched
<1>9. UsedIsKept'
  BY <1>1, <1>5, <1>7, <1>8 DEF UsedIsKept, BackupIsKept, WithFirewall
<1>10. ExaminedAreOpen'
  <2>1. \A port \in Required(run.plan) \ run.ports :
          /\ \A layer \in Layers(manager) :
               <<layer, port>> \in run.todo \/ IsOpen(<<layer, port>>)
          /\ <<"ufw", port>> \in opened => <<"ufw", port>> \in manifest \cup {one}
    BY <1>1, <1>3 DEF ServedInv, PlanIsOpen, ExaminedAreOpen, Examining, Opening, Pending
  <2>2. /\ Pending' = rest /\ Layers(manager)' = Layers(manager) /\ Unrecorded' = {}
        /\ \A e : IsOpen(e)' <=> IsOpen(e)
    BY <1>1, <1>5 DEF Pending, Opening, Layers, Unrecorded, IsOpen, firewall
  <2>3. IsOpen(one)
    BY <1>7 DEF IsOpen
  <2>4. \A port \in Required(run.plan) \ run.ports, layer \in Layers(manager) :
          <<layer, port>> \in rest \/ IsOpen(<<layer, port>>)
    BY <1>4, <2>1, <2>3
  <2> QED
    BY <1>1, <1>5, <1>7, <2>1, <2>2, <2>4 DEF ExaminedAreOpen, Required, firewall
<1>11. PlanIsKept' /\ InOrder'
  BY <1>1, <1>5 DEF ServedInv, PlanIsKept, InOrder, Certifying, Settling, Removing
<1> QED
  BY <1>9, <1>10, <1>11 DEF ServedInv, PlanIsOpen

\* What is closed is of another port than those in use.
LEMMA CloseServes ==
  ASSUME IInv, ServedInv, NEW e \in Entries, Close(e),
         run.at \in {"reconciling", "restoring", "withdrawing"}
  PROVE  ServedInv'
<1>1. /\ e \in run.todo /\ run \in RunRecord /\ e = <<e[1], e[2]>>
      /\ UNCHANGED <<manager, enabled, manifest, serving, config, unit, phase, excused>>
      /\ opened \ {e} \subseteq opened' /\ opened' \subseteq opened
      /\ foreign \ {e} \subseteq foreign'
  BY DEF Close, IInv, TypeOK, RunRecord, files, Entries
<1>2. /\ run'.at = run.at /\ run'.command = run.command /\ run'.plan = run.plan
      /\ run'.prior = run.prior /\ run'.todo = run.todo \ {e} /\ run'.backup = run.backup
  BY <1>1 DEF Close, RunRecord
<1>3. InUse' = InUse
  BY <1>1, <1>2 DEF InUse, Served, Startable
<1>4. ASSUME NEW port, KeptOpen(port), e[2] # port PROVE KeptOpen(port)'
  <2>1. \A x : x[2] = port => (IsOpen(x) => IsOpen(x)')
    BY <1>1, <1>4 DEF IsOpen
  <2> QED
    BY <1>1, <1>4, <2>1, OtherRulesChange
<1>5. CASE run.at = "withdrawing"
  <2>1. ~excused => InUse = {}
    BY <1>5 DEF ServedInv, InOrder, InUse, Served, Startable
  <2>2. UsedIsKept'
    BY <1>1, <1>2, <1>3, <1>5, <2>1
    DEF UsedIsKept, UsedAreKept, UsedAreUntouched, BackupIsKept, WithFirewall,
        Restored, Opening, Examining, Certifying, Settling
  <2>3. PlanIsOpen' /\ InOrder'
    BY <1>1, <1>2, <1>5
    DEF ServedInv, PlanIsOpen, ExaminedAreOpen, PlanIsKept, InOrder,
        Opening, Examining, Certifying, Settling
  <2> QED
    BY <2>2, <2>3 DEF ServedInv
<1>6. CASE run.at = "restoring"
  <2>1. e \in Added
    BY <1>1, <1>6 DEF ServedInv, InOrder
  <2>2. ASSUME ~excused PROVE UsedAreKept' /\ \A port \in InUse : Untouched(port)'
    <3>1. UsedAreKept /\ \A port \in InUse : Untouched(port)
      BY <1>6, <2>2 DEF ServedInv, UsedIsKept, UsedAreUntouched, Restored
    <3>2. \A port \in InUse : e[2] # port
      BY <2>1, <3>1 DEF Untouched
    <3> QED
      BY <1>1, <1>2, <1>3, <1>4, <3>1, <3>2, AddedStays DEF UsedAreKept
  <2>3. UsedIsKept'
    BY <1>1, <1>2, <1>3, <1>6, <2>2
    DEF UsedIsKept, UsedAreUntouched, BackupIsKept, WithFirewall,
        Opening, Examining, Certifying, Settling
  <2>4. PlanIsOpen' /\ InOrder'
    BY <1>1, <1>2, <1>6
    DEF ServedInv, PlanIsOpen, ExaminedAreOpen, PlanIsKept, InOrder, Removing, Added,
        Opening, Examining, Certifying, Settling
  <2> QED
    BY <2>3, <2>4 DEF ServedInv
<1>7. CASE run.at = "reconciling"
  <2>1. /\ config = run.plan /\ serving \in {run.plan, NoConfig}
        /\ \A port \in Required(run.plan) : e[2] # port
    BY <1>1, <1>7 DEF ServedInv, InOrder, Settling
  <2>2. InUse \subseteq Required(run.plan)
    BY <2>1 DEF InUse, Served, Startable, Required
  <2>3. UsedIsKept'
    BY <1>1, <1>2, <1>3, <1>4, <1>7, <2>1, <2>2
    DEF ServedInv, UsedIsKept, UsedAreKept, UsedAreUntouched, BackupIsKept, WithFirewall,
        Restored, Opening, Examining, Certifying, Settling
  <2>4. PlanIsKept'
    BY <1>1, <1>2, <1>4, <1>7, <2>1
    DEF ServedInv, PlanIsOpen, PlanIsKept, Required, Certifying, Settling
  <2>5. ExaminedAreOpen' /\ InOrder'
    BY <1>1, <1>2, <1>7
    DEF ServedInv, ExaminedAreOpen, InOrder, Removing, Required, Opening, Examining, Settling
  <2> QED
    BY <2>3, <2>4, <2>5 DEF ServedInv, PlanIsOpen
<1> QED
  BY <1>5, <1>6, <1>7

\* After a reconciliation the port of the plan is open, and nothing is excused
\* any more when the firewall is active.
LEMMA ReconciledServes ==
  ASSUME IInv, ServedInv, ReconcileEnds
  PROVE  ServedInv'
<1>1. /\ run.at = "reconciling" /\ manifest' = manifest \ Obsolete
      /\ UNCHANGED <<firewall, serving, config, unit>> /\ excused' = (excused /\ ~enabled)
      /\ config = run.plan /\ serving \in {run.plan, NoConfig} /\ run \in RunRecord
      /\ serving # NoConfig => unit
  BY DEF ReconcileEnds, files, ServedInv, InOrder, Settling, IInv, TypeOK, RunRecord
<1>2. run'.at = "ok"
  BY <1>1 DEF ReconcileEnds, Goes, RunRecord
<1>3. ASSUME ~excused' PROVE UsedAreKept'
  <2>1. enabled
    BY <1>1, <1>3 DEF ServedInv, UsedIsKept, WithFirewall, Settling
  <2>2. InUse' \subseteq Required(run.plan)
    BY <1>1 DEF InUse, Served, Startable, Required
  <2>3. ASSUME NEW port \in Required(run.plan) PROVE KeptOpen(port)'
    <3>1. KeptOpen(port)
      BY <1>1, <2>1 DEF ServedInv, PlanIsOpen, PlanIsKept, Settling
    <3>2. <<"ufw", port>> \in manifest => <<"ufw", port>> \in manifest'
      BY <1>1 DEF Obsolete
    <3> QED
      BY <1>1, <3>1, <3>2 DEF KeptOpen, IsOpen, Lasting, EffectiveLayer, firewall
  <2> QED
    BY <2>2, <2>3 DEF UsedAreKept
<1> QED
  BY <1>1, <1>2, <1>3, RestsWhenKept DEF Resting

LEMMA RestoredServes ==
  ASSUME IInv, ServedInv, RestoreEnds
  PROVE  ServedInv'
<1>1. /\ run.at = "restoring" /\ manifest' = run.prior /\ run \in RunRecord
      /\ UNCHANGED <<firewall, serving, config, unit, excused>>
      /\ serving # NoConfig => unit \/ excused
  BY DEF RestoreEnds, files, history, ServedInv, InOrder, IInv, TypeOK, RunRecord
<1>2. run'.at = "failed"
  BY <1>1 DEF RestoreEnds, Goes, RunRecord
<1>3. ASSUME ~excused' PROVE UsedAreKept'
  <2>1. UsedAreKept /\ \A port \in InUse : Untouched(port)
    BY <1>1, <1>3 DEF ServedInv, UsedIsKept, UsedAreUntouched, Restored
  <2>2. InUse' = InUse
    BY <1>1, <1>2 DEF InUse, Served, Startable
  <2>3. ASSUME NEW port \in InUse PROVE KeptOpen(port)'
    <3>1. KeptOpen(port) /\ Untouched(port)
      BY <2>1 DEF UsedAreKept
    <3>2. <<"ufw", port>> \in manifest => <<"ufw", port>> \in manifest'
      BY <1>1, <3>1 DEF Untouched, Added
    <3> QED
      BY <1>1, <3>1, <3>2 DEF KeptOpen, IsOpen, Lasting, EffectiveLayer, firewall
  <2> QED
    BY <2>2, <2>3 DEF UsedAreKept
<1> QED
  BY <1>1, <1>2, <1>3, RestsWhenKept DEF Resting

LEMMA CertServes ==
  ASSUME IInv, ServedInv, CertStep
  PROVE  ServedInv'
<1> DEFINE keeps == UNCHANGED <<firewall, manifest, serving, config, unit, excused>>
           certs_at == {"certifying", "hosting", "issuing", "hooking"}
           onward == /\ run'.command = run.command /\ run'.plan = run.plan
                     /\ run'.prior = run.prior /\ run'.at \in Certifying
                     /\ run'.at = "configuring" => run.command = "install"
                     /\ run'.at = "switching" => run.command = "apply"
<1>1. /\ run \in RunRecord /\ Added \in SUBSET Entries /\ "restoring" \in Working
      /\ serving # NoConfig => unit \/ excused
  BY DEF IInv, TypeOK, RunRecord, Added, Working, ServedInv, InOrder
<1>2. Certifying \subseteq Working /\ certs_at \subseteq Certifying
  BY DEF Certifying, Working, Guarded
<1>3. CASE Certify \/ PlaceVhost \/ Issue \/ PlaceHook
  <2>1. keeps /\ run.at \in certs_at
    BY <1>3 DEF Certify, PlaceVhost, Issue, PlaceHook, Keep, files, certs, history
  <2>0. run.command \in {"install", "apply"}
    BY <1>2, <2>1 DEF IInv, RunsInOrder, Changing, Certifying, Guarded
  <2>2. PICK at \in Certifying :
          /\ Goes(at)
          /\ at = "configuring" => run.command = "install"
          /\ at = "switching" => run.command = "apply"
    BY <1>3, <2>0 DEF Certify, PlaceVhost, Issue, PlaceHook, Keep, Certified, Certifying
  <2>3. onward
    BY <1>1, <1>2, <2>2, RunGoes
  <2> QED
    BY <1>2, <2>1, <2>3, RunPrepares DEF Certifying
<1>4. CASE CertFileTaken
  <2>1. /\ keeps /\ run.at \in certs_at
        /\ run' = [run EXCEPT !.at = "restoring", !.todo = Added]
    BY <1>4 DEF CertFileTaken, files
  <2>2. run'.at = "restoring" /\ run'.todo = Added /\ run'.prior = run.prior
    BY <1>1, <2>1, RunCloses
  <2>3. InUse' = InUse
    BY <2>1, <2>2 DEF InUse, Served, Startable
  <2>4. ~excused => \A port \in InUse : KeptOpen(port) /\ Untouched(port)
    BY <2>1 DEF ServedInv, UsedIsKept, UsedAreKept, UsedAreUntouched, Restored, Certifying
  <2> QED
    BY <1>1, <2>1, <2>2, <2>3, <2>4, RunIsPutBack
<1> QED
  BY <1>3, <1>4 DEF CertStep

\* install: what is in use changes when the configuration is written and when
\* the unit is, and is then the port of the plan.
LEMMA InstallServes ==
  ASSUME IInv, ServedInv, InstallStep
  PROVE  ServedInv'
<1> DEFINE keeps == UNCHANGED <<firewall, manifest, serving, excused>>
<1>1. /\ run \in RunRecord /\ (serving # NoConfig => unit \/ excused)
      /\ {"marking", "fetching", "ensuring", "placing", "restarting", "failed"}
           \subseteq Working \cup {"ok", "failed"}
  BY DEF IInv, TypeOK, RunRecord, ServedInv, InOrder, Working, Guarded
<1>2. CASE InstallChecks \/ InstallMarks
  <2>1. /\ keeps /\ UNCHANGED <<config, unit>> /\ run.at \in {"started", "marking"}
        /\ Goes("marking") \/ Goes("failed") \/ Goes("fetching")
    BY <1>2 DEF InstallChecks, InstallMarks, At, Reaches
  <2>2. run'.at \in {"marking", "failed", "fetching"}
    BY <1>1, <2>1, RunGoes
  <2> QED
    BY <2>1, <2>2, RunRests DEF Resting
<1>3. CASE PlaceBinary
  <2>1. /\ keeps /\ UNCHANGED <<config, unit>> /\ run.at = "fetching"
        /\ run' = [run EXCEPT !.at = "ensuring", !.prior = manifest]
    BY <1>3 DEF PlaceBinary, history
  <2>2. run'.at = "ensuring" /\ run'.prior = manifest
    BY <1>1, <2>1 DEF RunRecord
  <2>3. InUse' = InUse /\ Added' = {}
    BY <2>1, <2>2 DEF InUse, Served, Startable, Added
  <2>4. UsedIsKept'
    BY <2>1, <2>2, <2>3, RulesStay
    DEF ServedInv, UsedIsKept, UsedAreKept, UsedAreUntouched, Untouched, BackupIsKept,
        WithFirewall, Opening, Examining, Certifying, Settling
  <2>5. PlanIsOpen' /\ InOrder'
    BY <1>1, <2>1, <2>2 DEF PlanIsOpen, ExaminedAreOpen, PlanIsKept, InOrder, Removing,
                       Opening, Examining, Certifying, Settling
  <2> QED
    BY <2>4, <2>5 DEF ServedInv
<1>4. CASE Configure
  <2>1. /\ keeps /\ unit' = unit /\ run.at = "configuring" /\ config' = run.plan
        /\ phase' = "configured" /\ run.command = "install"
    BY <1>4 DEF Configure, Reaches, ServedInv, InOrder
  <2>2. /\ run'.at = "placing" /\ run'.command = run.command /\ run'.plan = run.plan
    BY <1>1, <1>4, RunGoes DEF Configure
  <2>3. InUse' \subseteq InUse \cup Required(run.plan)
    BY <2>1, <2>2 DEF InUse, Served, Startable, Required
  <2>4. UsedIsKept'
    BY <2>1, <2>2, <2>3, RulesStay
    DEF ServedInv, UsedIsKept, UsedAreKept, UsedAreUntouched, BackupIsKept, WithFirewall,
        PlanIsOpen, PlanIsKept, Restored, Opening, Examining, Certifying, Settling, firewall
  <2>5. PlanIsOpen'
    BY <2>1, <2>2, RulesStay
    DEF ServedInv, PlanIsOpen, ExaminedAreOpen, PlanIsKept, Required,
        Opening, Examining, Certifying, Settling, firewall
  <2>6. InOrder'
    BY <1>1, <2>1, <2>2 DEF InOrder, Removing, Settling
  <2> QED
    BY <2>4, <2>5, <2>6 DEF ServedInv
<1>5. CASE PlaceUnit
  <2>1. /\ keeps /\ config' = config /\ unit' = TRUE /\ run.at = "placing"
        /\ config = run.plan /\ run.command = "install" /\ phase' = "placed"
    BY <1>5 DEF PlaceUnit, Reaches, ServedInv, InOrder, Settling
  <2>2. /\ run'.at = "restarting" /\ run'.command = run.command /\ run'.plan = run.plan
    BY <1>1, <1>5, RunGoes DEF PlaceUnit
  <2>3. InUse' \subseteq InUse \cup Required(run.plan)
    BY <2>1, <2>2 DEF InUse, Served, Startable, Required
  <2>4. UsedIsKept'
    BY <2>1, <2>2, <2>3, RulesStay
    DEF ServedInv, UsedIsKept, UsedAreKept, UsedAreUntouched, BackupIsKept, WithFirewall,
        PlanIsOpen, PlanIsKept, Restored, Opening, Examining, Certifying, Settling, firewall
  <2>5. PlanIsOpen'
    BY <2>1, <2>2, RulesStay
    DEF ServedInv, PlanIsOpen, ExaminedAreOpen, PlanIsKept, Required,
        Opening, Examining, Certifying, Settling, firewall
  <2>6. InOrder'
    BY <2>1, <2>2 DEF InOrder, Removing, Settling
  <2> QED
    BY <2>4, <2>5, <2>6 DEF ServedInv
<1> QED
  BY <1>2, <1>3, <1>4, <1>5 DEF InstallStep

LEMMA SwitchServes ==
  ASSUME IInv, ServedInv, Switch
  PROVE  ServedInv'
<1>1. /\ UNCHANGED <<firewall, manifest, serving, unit, excused>>
      /\ run.at = "switching" /\ config' = run.plan /\ phase' = "switched"
      /\ run \in RunRecord /\ (serving # NoConfig => unit \/ excused) /\ run.command = "apply"
  BY DEF Switch, Reaches, IInv, TypeOK, RunRecord, ServedInv, InOrder
<1>2. /\ run'.command = run.command /\ run'.plan = run.plan /\ run'.prior = run.prior
      /\ run'.todo = Obsolete /\ run'.backup = config
      /\ \/ run'.at = "restarting" /\ serving # NoConfig
         \/ run'.at = "reconciling" /\ serving = NoConfig
  BY <1>1 DEF Switch, RunRecord
<1>3. InUse' \subseteq InUse \cup Required(run.plan)
  BY <1>1, <1>2 DEF InUse, Served, Startable, Required
<1>4. ASSUME ~excused PROVE UsedAreKept' /\ BackupIsKept' /\ enabled
  <2>1. UsedAreKept /\ (\A port \in InUse : Untouched(port)) /\ enabled
    BY <1>1, <1>4
    DEF ServedInv, UsedIsKept, UsedAreUntouched, WithFirewall, Restored, Certifying
  <2>2. UsedAreKept'
    BY <1>1, <1>3, <2>1, RulesStay
    DEF ServedInv, UsedAreKept, PlanIsOpen, PlanIsKept, Certifying
  <2>3. serving # NoConfig /\ config # NoConfig => config \in InUse
    BY <1>1, <1>4 DEF InUse, Startable
  <2>4. BackupIsKept'
    BY <1>1, <1>2, <2>1, <2>3, RulesStay, AddedStays DEF UsedAreKept, BackupIsKept
  <2> QED
    BY <2>1, <2>2, <2>4
<1>5. UsedIsKept'
  BY <1>1, <1>2, <1>4
  DEF UsedIsKept, UsedAreUntouched, WithFirewall,
      Restored, Opening, Examining, Certifying, Settling, firewall
<1>6. PlanIsOpen'
  BY <1>1, <1>2, RulesStay
  DEF ServedInv, PlanIsOpen, ExaminedAreOpen, PlanIsKept, Required,
      Opening, Examining, Certifying, Settling, firewall
<1>7. InOrder'
  BY <1>1, <1>2 DEF InOrder, Removing, Settling, Obsolete, Required
<1> QED
  BY <1>5, <1>6, <1>7 DEF ServedInv

LEMMA RestartServes ==
  ASSUME IInv, ServedInv, Restart \/ RestartRefused \/ RestartFails
  PROVE  ServedInv'
<1>1. /\ UNCHANGED <<firewall, manifest, config, unit>> /\ run.at = "restarting"
      /\ config = run.plan /\ run \in RunRecord
      /\ Restart \/ RestartFails => unit
      /\ RestartRefused => run.command # "install" /\ excused
      /\ Added \in SUBSET Entries /\ Obsolete \in SUBSET Entries
      /\ run.command \in {"install", "apply"}
      /\ run.command = "install" \/ phase = "switched"
      /\ {"reconciling", "restoring", "rollingBack"} \subseteq Working
  BY DEF Restart, RestartRefused, RestartFails, files, ServedInv, InOrder, Settling, IInv, TypeOK,
         RunRecord, Added, Obsolete, RunsInOrder, Changing, Working, Guarded
<1>5. CASE RestartRefused
  <2>1. /\ serving' = serving /\ excused' /\ run' = [run EXCEPT !.at = "rollingBack"]
        /\ phase' = "stalled"
    BY <1>1, <1>5 DEF RestartRefused, Reaches, Goes
  <2>2. /\ run'.at = "rollingBack" /\ run'.todo = run.todo /\ run'.plan = run.plan
        /\ run'.command = "apply" /\ run'.prior = run.prior /\ run'.backup = run.backup
    BY <1>1, <1>5, <2>1 DEF RunRecord
  <2>3. UsedIsKept'
    BY <2>1 DEF UsedIsKept
  <2>4. PlanIsOpen'
    BY <1>1, <2>1, <2>2, RulesStay
    DEF ServedInv, PlanIsOpen, ExaminedAreOpen, PlanIsKept, Required,
        Opening, Examining, Certifying, Settling, firewall
  <2>5. InOrder'
    BY <1>1, <2>1, <2>2 DEF InOrder, Removing, Settling
  <2> QED
    BY <2>3, <2>4, <2>5 DEF ServedInv
<1>2. CASE Restart
  <2>1. /\ serving' = config /\ excused' = excused /\ phase' \in {"running", "switched"}
        /\ run' = [run EXCEPT !.at = "reconciling", !.todo = Obsolete]
    BY <1>1, <1>2 DEF Restart, Reaches
  <2>2. /\ run'.at = "reconciling" /\ run'.todo = Obsolete /\ run'.plan = run.plan
        /\ run'.command = run.command /\ run'.prior = run.prior
    BY <1>1, <2>1, RunCloses
  <2>3. InUse' \subseteq Required(run.plan)
    BY <1>1, <2>1 DEF InUse, Served, Startable, Required
  <2>4. UsedIsKept'
    BY <1>1, <2>1, <2>2, <2>3, RulesStay
    DEF ServedInv, UsedIsKept, UsedAreKept, UsedAreUntouched, BackupIsKept, WithFirewall,
        PlanIsOpen, PlanIsKept, Restored, Opening, Examining, Certifying, Settling, firewall
  <2>5. PlanIsOpen'
    BY <1>1, <2>1, <2>2, RulesStay
    DEF ServedInv, PlanIsOpen, ExaminedAreOpen, PlanIsKept, Required,
        Opening, Examining, Certifying, Settling, firewall
  <2>6. InOrder'
    BY <1>1, <1>2, <2>1, <2>2 DEF InOrder, Removing, Settling, Obsolete, Required
  <2> QED
    BY <2>4, <2>5, <2>6 DEF ServedInv
<1>3. CASE RestartFails /\ run.command = "install"
  <2>1. /\ serving' = NoConfig /\ excused'
        /\ run' = [run EXCEPT !.at = "restoring", !.todo = Added]
    BY <1>3 DEF RestartFails
  <2>2. run'.at = "restoring" /\ run'.todo = Added /\ run'.prior = run.prior
    BY <1>1, <2>1, RunCloses
  <2> QED
    BY <1>1, <2>1, <2>2, RunIsPutBack
<1>4. CASE RestartFails /\ run.command # "install"
  <2>1. /\ serving' = NoConfig /\ excused' = excused /\ run' = [run EXCEPT !.at = "rollingBack"]
        /\ phase' = "stalled"
    BY <1>4 DEF RestartFails, Goes
  <2>2. /\ run'.at = "rollingBack" /\ run'.todo = run.todo /\ run'.plan = run.plan
        /\ run'.command = "apply" /\ run'.prior = run.prior /\ run'.backup = run.backup
    BY <1>1, <1>4, <2>1 DEF RunRecord
  <2>3. InUse' \subseteq Required(run.plan)
    BY <1>1, <2>1 DEF InUse, Served, Startable, Required
  <2>4. UsedIsKept'
    BY <1>1, <1>4, <2>1, <2>2, <2>3, RulesStay, AddedStays
    DEF ServedInv, UsedIsKept, UsedAreKept, UsedAreUntouched, BackupIsKept, WithFirewall,
        PlanIsOpen, PlanIsKept, Restored, Opening, Examining, Certifying, Settling, firewall
  <2>5. PlanIsOpen'
    BY <1>1, <2>1, <2>2, RulesStay
    DEF ServedInv, PlanIsOpen, ExaminedAreOpen, PlanIsKept, Required,
        Opening, Examining, Certifying, Settling, firewall
  <2>6. InOrder'
    BY <1>1, <2>1, <2>2 DEF InOrder, Removing, Settling
  <2> QED
    BY <2>4, <2>5, <2>6 DEF ServedInv
<1> QED
  BY <1>2, <1>3, <1>4, <1>5

LEMMA RollBackServes ==
  ASSUME IInv, ServedInv, RollBack
  PROVE  ServedInv'
<1>1. /\ UNCHANGED <<firewall, manifest, unit, excused>> /\ run.at = "rollingBack"
      /\ config' = run.backup /\ (serving' \in {run.backup, NoConfig} \/ excused)
      /\ run' = [run EXCEPT !.at = "restoring", !.todo = Added]
      /\ run \in RunRecord /\ Added \in SUBSET Entries /\ (unit \/ excused) /\ run.command = "apply"
      /\ "restoring" \in Working
  BY DEF RollBack, Reaches, ServedInv, InOrder, IInv, TypeOK, RunRecord, Added, Working
<1>2. run'.at = "restoring" /\ run'.todo = Added /\ run'.prior = run.prior
  BY <1>1, RunCloses
<1>3. ~excused => InUse' \subseteq {run.backup} \ {NoConfig}
  BY <1>1 DEF InUse, Served, Startable
<1>4. ~excused /\ run.backup # NoConfig => KeptOpen(run.backup) /\ Untouched(run.backup)
  BY <1>1 DEF ServedInv, UsedIsKept, BackupIsKept
<1> QED
  BY <1>1, <1>2, <1>3, <1>4, RunIsPutBack

LEMMA ApplyServes ==
  ASSUME IInv, ServedInv, ApplyStep
  PROVE  ServedInv'
<1>1. run \in RunRecord /\ Added \in SUBSET Entries /\ (serving # NoConfig => unit \/ excused)
  BY DEF IInv, TypeOK, RunRecord, Added, ServedInv, InOrder
<1>2. CASE ApplyChecks
  <2>1. UNCHANGED <<firewall, manifest, serving, config, unit, excused>> /\ run.at = "started"
    BY <1>2 DEF ApplyChecks, At, Reaches, files
  <2>2. CASE Goes("failed")
    BY <1>1, <2>1, <2>2, RunGoes, RunRests DEF Resting
  <2>3. CASE run' = [run EXCEPT !.at = "ensuring", !.prior = manifest]
    <3>1. run'.at = "ensuring" /\ run'.prior = manifest
      BY <1>1, <2>3 DEF RunRecord
    <3>2. InUse' = InUse /\ Added' = {}
      BY <2>1, <3>1 DEF InUse, Served, Startable, Added
    <3>3. UsedIsKept'
      BY <2>1, <3>1, <3>2, RulesStay
      DEF ServedInv, UsedIsKept, UsedAreKept, UsedAreUntouched, Untouched, BackupIsKept,
          WithFirewall, Opening, Examining, Certifying, Settling
    <3>4. PlanIsOpen' /\ InOrder'
      BY <1>1, <2>1, <3>1 DEF PlanIsOpen, ExaminedAreOpen, PlanIsKept, InOrder, Removing,
                         Opening, Examining, Certifying, Settling
    <3> QED
      BY <3>3, <3>4 DEF ServedInv
  <2> QED
    BY <1>2, <2>2, <2>3 DEF ApplyChecks
<1>3. CASE SwitchRefused
  <2>1. /\ UNCHANGED <<firewall, manifest, serving, config, unit, excused>>
        /\ run.at = "switching" /\ "restoring" \in Working
        /\ run' = [run EXCEPT !.at = "restoring", !.todo = Added]
    BY <1>3 DEF SwitchRefused, Reaches, files, Working
  <2>2. run'.at = "restoring" /\ run'.todo = Added /\ run'.prior = run.prior
    BY <1>1, <2>1, RunCloses
  <2>3. InUse' = InUse
    BY <2>1, <2>2 DEF InUse, Served, Startable
  <2>4. ~excused => \A port \in InUse : KeptOpen(port) /\ Untouched(port)
    BY <2>1 DEF ServedInv, UsedIsKept, UsedAreKept, UsedAreUntouched, Restored, Certifying
  <2> QED
    BY <1>1, <2>1, <2>2, <2>3, <2>4, RunIsPutBack
<1> QED
  BY <1>2, <1>3, SwitchServes, RestartServes, RollBackServes DEF ApplyStep

LEMMA UninstallServes ==
  ASSUME IInv, ServedInv, UninstallStep
  PROVE  ServedInv'
<1>1. run \in RunRecord /\ (serving # NoConfig => unit \/ excused) /\ manifest \in SUBSET Entries
  BY DEF IInv, TypeOK, RunRecord, ServedInv, InOrder
<1>2. {"ok", "withdrawing"} \cup Removing \subseteq Working \cup {"ok", "failed"}
  BY DEF Removing, Working
<1>3. ASSUME serving' = NoConfig \/ excused', run'.at \in {"ok", "withdrawing"} \cup Removing,
             run'.at \in {"withdrawing", "removingUnit"} => phase' = "stopped",
             unit' => run'.at \in {"withdrawing", "removingUnit"}
      PROVE  ServedInv'
  <2>1. ~excused' => InUse' = {}
    BY <1>3 DEF InUse, Served, Startable
  <2>2. UsedIsKept'
    BY <1>3, <2>1 DEF UsedIsKept, UsedAreKept, UsedAreUntouched, BackupIsKept, WithFirewall,
                      Removing, Restored, Opening, Examining, Certifying, Settling
  <2>3. PlanIsOpen' /\ InOrder'
    BY <1>3 DEF PlanIsOpen, ExaminedAreOpen, PlanIsKept, InOrder, Removing,
                Opening, Examining, Certifying, Settling
  <2> QED
    BY <2>2, <2>3 DEF ServedInv
<1>4. CASE UninstallStops
  <2>1. /\ UNCHANGED <<firewall, manifest, config, unit, excused>> /\ run.at = "started"
    BY <1>4 DEF UninstallStops, At, Reaches, files
  <2>2. CASE marker
    <3>1. /\ serving' = NoConfig /\ phase' = "stopped"
          /\ run' = [run EXCEPT !.at = "withdrawing", !.todo = manifest]
      BY <1>4, <2>2 DEF UninstallStops, Reaches
    <3>2. run'.at = "withdrawing"
      BY <1>1, <1>2, <3>1, RunCloses
    <3> QED
      BY <1>3, <3>1, <3>2
  <2>3. CASE ~marker
    <3>1. Goes("ok") /\ UNCHANGED serving
      BY <1>4, <2>3 DEF UninstallStops
    <3>2. run'.at = "ok"
      BY <1>1, <3>1, RunGoes
    <3> QED
      BY <2>1, <3>1, <3>2, RunRests DEF Resting
  <2> QED
    BY <2>2, <2>3
<1>8. CASE StopIgnored
  <2>1. /\ excused' /\ phase' = "stopped"
        /\ run' = [run EXCEPT !.at = "withdrawing", !.todo = manifest]
    BY <1>8 DEF StopIgnored
  <2>2. run'.at = "withdrawing"
    BY <1>1, <1>2, <2>1, RunCloses
  <2> QED
    BY <1>3, <2>1, <2>2
<1>5. CASE WithdrawEnds
  <2>1. run'.at = "removingUnit"
    BY <1>1, <1>2, <1>5, RunGoes DEF WithdrawEnds, Removing
  <2>2. (serving' = NoConfig \/ excused') /\ phase' = "stopped"
    BY <1>5 DEF WithdrawEnds, history, ServedInv, InOrder
  <2> QED
    BY <1>3, <2>1, <2>2 DEF Removing
<1>6. CASE RemoveUnit \/ RemoveBinary \/ RemoveDirectory
  <2>1. run.at \in Removing /\ (serving' = NoConfig \/ excused')
    BY <1>6 DEF RemoveUnit, RemoveBinary, RemoveDirectory, Removing, ServedInv, InOrder,
       Reaches, history
  <2>2. run'.at \in {"removingBinary", "removingCertFiles", "ok"}
    BY <1>1, <1>2, <1>6, RunGoes DEF RemoveUnit, RemoveBinary, RemoveDirectory, Removing
  <2>3. unit' = FALSE
    BY <1>6 DEF RemoveUnit, RemoveBinary, RemoveDirectory, IInv, Marks, TypeOK
  <2> QED
    BY <1>3, <2>1, <2>2, <2>3 DEF Removing
<1>7. CASE \E file \in CertFiles : RemoveCertFile(file)
  <2>1. run' = run /\ run.at = "removingCertFiles" /\ UNCHANGED <<serving, unit, excused>>
    BY <1>7 DEF RemoveCertFile, history
  <2>2. ~unit /\ (serving = NoConfig \/ excused)
    BY <2>1 DEF IInv, Marks, ServedInv, InOrder, Removing
  <2> QED
    BY <1>3, <2>1, <2>2 DEF Removing
<1> QED
  BY <1>4, <1>5, <1>6, <1>7, <1>8 DEF UninstallStep

\* A start serves the configuration in place, whose port is open too.
LEMMA ServiceServes ==
  ASSUME IInv, ServedInv, ServiceCommand
  PROVE  ServedInv'
<1>1. /\ run \in RunRecord /\ run.at = "started" /\ (serving # NoConfig => unit \/ excused)
      /\ UNCHANGED <<firewall, manifest, config, unit, excused>>
      /\ \/ serving' \in {serving, NoConfig}
         \/ serving' = config /\ unit
      /\ Goes("ok") \/ Goes("failed")
  BY DEF IInv, TypeOK, RunRecord, ServedInv, InOrder, ServiceCommand, Reaches, files
<1>2. run'.at \in {"ok", "failed"}
  BY <1>1, RunGoes
<1>3. InUse' \subseteq InUse
  BY <1>1, <1>2 DEF InUse, Served, Startable
<1> QED
  BY <1>1, <1>2, <1>3, RulesStay, RestsWhenKept
  DEF ServedInv, UsedIsKept, UsedAreKept, Resting

\* A run is cut off while its configuration is not in place, or is excused.
LEMMA FaultsServe ==
  ASSUME IInv, ServedInv, Fails \/ Killed
  PROVE  ServedInv'
<1>1. /\ run \in RunRecord /\ Added \in SUBSET Entries /\ "restoring" \in Working
      /\ UNCHANGED <<firewall, manifest, serving, config, unit>>
      /\ serving # NoConfig => unit \/ excused
      /\ excused => excused'
      /\ run.at = "restarting" => run.command \in {"install", "apply"}
      /\ run.at = "reconciling" => phase \in {"running", "switched"}
  BY DEF IInv, TypeOK, RunRecord, RunsInOrder, Changing, Added, Working, Fails, Killed, Ends, files, ServedInv, InOrder
<1>2. CASE /\ run' = [run EXCEPT !.at = "failed", !.todo = {}]
           /\ ~excused' => ~excused /\ phase # "stopped"
  <2>1. {} \in SUBSET Entries
    OBVIOUS
  <2>2. run'.at = "failed"
    BY <1>1, <1>2, <2>1, RunCloses
  <2>3. ~excused' => run.at \notin {"withdrawing", "removingUnit"}
    BY <1>2 DEF ServedInv, InOrder
  <2> QED
    BY <1>1, <1>2, <2>2, <2>3, RunRests DEF Resting
<1>3. CASE run.at \in Guarded /\ Ends("restoring", Added) /\ excused' = (excused \/ HalfDone)
  <2>1. run' = [run EXCEPT !.at = "restoring", !.todo = Added]
    BY <1>3 DEF Ends
  <2>2. run'.at = "restoring" /\ run'.todo = Added /\ run'.prior = run.prior
    BY <1>1, <2>1, RunCloses
  <2>3. ~excused' => ~excused /\ run.at \in Examining \cup Certifying \cup {"ensuring"}
    BY <1>1, <1>3 DEF Guarded, HalfDone, Examining, Opening, Certifying, ServedInv, InOrder
  <2>4. InUse' \subseteq InUse
    BY <1>1, <1>3, <2>2 DEF InUse, Served, Startable, Guarded
  <2>5. ~excused' => \A port \in InUse : KeptOpen(port) /\ Untouched(port)
    BY <2>3 DEF ServedInv, UsedIsKept, UsedAreKept, UsedAreUntouched, Restored
  <2> QED
    BY <1>1, <2>2, <2>4, <2>5, RunIsPutBack
<1>4. CASE Fails
  <2>1. CASE run.at \in Guarded /\ Ends("restoring", Added)
    BY <1>3, <1>4, <2>1 DEF Fails
  <2>2. CASE Ends("failed", {})
    BY <1>2, <1>4, <2>2 DEF Fails, Ends, HalfDone
  <2> QED
    BY <1>4, <2>1, <2>2 DEF Fails
<1>5. CASE Killed
  BY <1>2, <1>5 DEF Killed, Ends
<1> QED
  BY <1>4, <1>5

\* What is loaded from the permanent rules has them open, too.
LEMMA AdminServes ==
  ASSUME IInv, ServedInv, AdminActs,
         \A port : KeptOpen(port) => KeptOpen(port)'
  PROVE  ServedInv'
<1>1. /\ run' = run /\ run.at = "idle" /\ UNCHANGED <<serving, config, unit, excused>>
      /\ serving # NoConfig => unit \/ excused
  BY DEF AdminActs, files, ServedInv, InOrder
<1>2. InUse' = InUse
  BY <1>1 DEF InUse, Served, Startable
<1> QED
  BY <1>1, <1>2, RestsWhenKept DEF ServedInv, UsedIsKept, UsedAreKept, Resting

LEMMA AdminOpensServes ==
  ASSUME IInv, ServedInv, NEW e \in Entries, AdminOpens(e)
  PROVE  ServedInv'
<1>1. /\ AdminActs /\ foreign' = foreign \cup {e}
      /\ UNCHANGED <<manager, enabled, opened, manifest>>
  BY DEF AdminOpens, AdminActs
<1>2. ASSUME NEW port, KeptOpen(port) PROVE KeptOpen(port)'
  BY <1>1, <1>2 DEF KeptOpen, IsOpen, Lasting, EffectiveLayer
<1> QED
  BY <1>1, <1>2, AdminServes

LEMMA SwitchesServe ==
  ASSUME IInv, ServedInv, AdminReloads \/ AdminSwitches
  PROVE  ServedInv'
<1>1. AdminActs /\ UNCHANGED <<manager, manifest>> /\ manager \in Managers
  BY DEF AdminReloads, AdminSwitches, AdminActs, IInv, TypeOK
<1>2. CASE Reloads
  <2>1. opened' = Loaded(opened) /\ foreign' = Loaded(foreign)
    BY <1>2 DEF Reloads
  <2>2. ASSUME NEW port
        PROVE  /\ IsOpen(<<Lasting, port>>) =>
                    /\ IsOpen(<<Lasting, port>>)'
                    /\ IsOpen(<<EffectiveLayer, port>>)'
               /\ <<"ufw", port>> \in opened' => <<"ufw", port>> \in opened
    BY <1>1, <2>1 DEF IsOpen, Loaded, Lasting, EffectiveLayer, Managers
  <2> QED
    BY <1>1, <2>2, AdminServes DEF KeptOpen
<1>3. CASE /\ manager = "ufw" /\ UNCHANGED <<opened, foreign>>
  <2>1. ASSUME NEW port, KeptOpen(port) PROVE KeptOpen(port)'
    BY <1>1, <1>3, <2>1 DEF KeptOpen, IsOpen, Lasting, EffectiveLayer
  <2> QED
    BY <1>1, <2>1, AdminServes
<1>4. CASE /\ ~enabled'
           /\ opened' = {e \in opened : e[1] # "runtime"}
           /\ foreign' = {e \in foreign : e[1] # "runtime"}
  <2>1. ASSUME NEW port, KeptOpen(port) PROVE KeptOpen(port)'
    <3>1. Lasting # "runtime" /\ Lasting' = Lasting
      BY <1>1 DEF Lasting
    <3>2. IsOpen(<<Lasting, port>>)'
      BY <1>4, <2>1, <3>1 DEF KeptOpen, IsOpen
    <3> QED
      BY <1>1, <1>4, <2>1, <3>2 DEF KeptOpen
  <2> QED
    BY <1>1, <2>1, AdminServes
<1> QED
  BY <1>2, <1>3, <1>4 DEF AdminReloads, AdminSwitches

LEMMA NextServes == IInv /\ ServedInv /\ [Next]_vars => ServedInv'
<1> SUFFICES ASSUME IInv, ServedInv, [Next]_vars PROVE ServedInv'
  OBVIOUS
<1>1. CASE UNCHANGED vars
  <2>1. UNCHANGED <<manager, enabled, foreign, opened, manifest, unit, config, serving, run,
                    phase, excused>>
    BY <1>1 DEF vars, firewall, files, history
  <2> QED
    BY <2>1
    DEF ServedInv, UsedIsKept, UsedAreKept, UsedAreUntouched, BackupIsKept, WithFirewall,
        PlanIsOpen, ExaminedAreOpen, PlanIsKept, InOrder, KeptOpen, Untouched, InUse, Served,
        Startable, Lasting, EffectiveLayer, IsOpen, Added, Pending, Unrecorded
<1>2. CASE \/ \E plan \in Plans : Begin("install", plan) \/ Begin("apply", plan)
           \/ \E command \in {"uninstall", "start", "stop"} : Begin(command, NoConfig)
  BY <1>2, BeginServes
<1>3. CASE FirewallStep
  BY <1>3, FindManagerServes, AllExaminedServes, OpenServes, RecordServes, ExamineServes,
     CloseServes, ReconciledServes, RestoredServes
  DEF FirewallStep, CloseObsolete, CloseAdded, CloseManaged
<1>4. CASE CertStep \/ InstallStep \/ ApplyStep \/ UninstallStep
  BY <1>4, CertServes, InstallServes, ApplyServes, UninstallServes
<1>5. CASE ServiceCommand \/ Exit \/ Fails \/ Killed
  BY <1>5, ServiceServes, ExitServes, FaultsServe
<1>6. CASE AdminReloads \/ AdminSwitches \/ \E e \in Entries : AdminOpens(e)
  BY <1>6, SwitchesServe, AdminOpensServes
<1> QED
  BY <1>1, <1>2, <1>3, <1>4, <1>5, <1>6 DEF Next

\* The port that is served is open at every step of every run, after every
\* kill, and after every reload of the firewall, but for the named excuses.
THEOREM ServedPortStaysOpen == Spec => []ServedPortIsOpen
<1>1. ASSUME ServedInv PROVE ServedPortIsOpen
  BY <1>1 DEF ServedInv, UsedIsKept, UsedAreKept, KeptOpen, InUse, Served, ServedPortIsOpen
<1>2. Spec => []ServedInv
  BY ServedInit, NextServes, InductiveInvariant, PTL DEF Spec
<1> QED
  BY <1>1, <1>2, PTL

-----------------------------------------------------------------------------
(***************************************************************************)
(* The abstraction the agent is modelled against.                          *)
(***************************************************************************)

\* What HostHelper sees of a run at each of its places.
Halfway ==
  {"fetching", "ensuring", "removingBinary", "removingCertFiles"} \cup Examining \cup Certifying

AsHostSees ==
  /\ run.at \in {"started", "marking"} => phase = "started"
  /\ run.at \in Halfway => phase = "half"
  /\ run.at = "placing" => phase = "configured"
  /\ run.at = "restarting" => phase = IF run.command = "install" THEN "placed" ELSE "switched"
  /\ run.at = "rollingBack" => phase = "stalled"
  /\ run.at = "reconciling" => phase = IF run.command = "install" THEN "running" ELSE "switched"
  /\ run.at \in {"withdrawing", "removingUnit"} => phase = "stopped"
  /\ run.at = "ok" => phase = "ok"
  /\ run.at \in {"restoring", "failed"} => phase = "failed"
  /\ run.at \in {"marking", "fetching", "configuring", "placing"} => run.command = "install"
  /\ run.at \in {"switching", "rollingBack"} => run.command = "apply"
  /\ run.at \in Removing \cup {"withdrawing"} => run.command = "uninstall"

\* Binary and unit come and go together, and an apply has something to switch.
FilesTogether ==
  /\ unit => binary
  /\ run.command = "install" /\ run.at \in {"ensuring", "placing"} \cup Examining \cup Certifying =>
       binary
  /\ run.command = "apply" /\ run.at \in {"ensuring"} \cup Examining \cup Certifying =>
       config # NoConfig
  /\ run.command = "apply" /\ run.at = "restarting" => serving # NoConfig

\* Each run fails once of itself, all else is a fault.
FailuresCounted ==
  /\ faults <= MaxFaults /\ runs <= MaxRuns
  /\ failures <= faults + runs
  /\ run.at # "idle" /\ phase # "failed" => failures + 1 <= faults + runs

HostInv == AsHostSees /\ FilesTogether /\ FailuresCounted

-----------------------------------------------------------------------------
(***************************************************************************)
(* What HostHelper sees of the state and of a step.                        *)
(***************************************************************************)

SameRun == run'.command = run.command /\ run'.plan = run.plan
StaysIdle == run'.at = "idle" <=> run.at = "idle"

LEMMA UnseenStutters ==
  ASSUME UNCHANGED <<marker, config, failures, phase>>, SameRun, run'.backup = run.backup,
         StaysIdle, serving' = NoConfig <=> serving = NoConfig,
         binary' /\ unit' <=> binary /\ unit
  PROVE  UNCHANGED Host!hostVars
<1>1. (binary /\ unit)' = (binary /\ unit) /\ (serving # NoConfig)' = (serving # NoConfig)
  OBVIOUS
<1>2. UNCHANGED [pid \in IF run.at = "idle" THEN {} ELSE {1} |->
                   [command |-> run.command, plan |-> run.plan, at |-> phase,
                    backup |-> run.backup]]
  BY DEF SameRun, StaysIdle
<1> QED
  BY <1>1, <1>2 DEF Host!hostVars, Host!host, Host!runtime

LEMMA HostRun ==
  ASSUME run.at # "idle", NEW command, NEW at
  PROVE  /\ Host!Runs(1, command, at) <=> run.command = command /\ phase = at
         /\ Host!Alive(1) <=> phase \notin {"ok", "failed"}
BY DEF Host!Runs, Host!Alive, Host!Ended

LEMMA HostMoves ==
  ASSUME run.at # "idle", run'.at # "idle", SameRun, run'.backup = run.backup, NEW at, phase' = at
  PROVE  Host!Moves(1, at)
BY DEF Host!Moves, SameRun

LEMMA HostFaultAllowed ==
  ASSUME IInv, FailuresCounted, run.at # "idle", phase # "failed", failures' = failures + 1,
         NEW kind \in {"helper_failure", "late_failure", "cleanup_failure", "stop_failure"}
  PROVE  Host!CountFault(kind)
BY BoundsAssumption DEF IInv, TypeOK, FailuresCounted, Host!CountFault, Host!FaultAllowed

\* A run that fails changes nothing that HostHelper sees.
LEMMA HostFails ==
  ASSUME IInv, FailuresCounted, run.at # "idle", run'.at # "idle", SameRun,
         run'.backup = run.backup, phase \notin {"ok", "failed"}, phase' = "failed",
         failures' = failures + 1, UNCHANGED <<marker, binary, unit, config, serving>>
  PROVE  Host!HelperFails(1)
<1>1. Host!Alive(1) /\ Host!Moves(1, "failed") /\ Host!CountFault(Host!FaultOf(1))
  <2>1. Host!FaultOf(1) \in {"helper_failure", "late_failure", "cleanup_failure", "stop_failure"}
    BY DEF Host!FaultOf
  <2> QED
    BY <2>1, HostRun, HostMoves, HostFaultAllowed
<1>2. UNCHANGED Host!runtime
  BY DEF Host!runtime
<1> QED
  BY <1>1, <1>2 DEF Host!HelperFails

HostStep == Host!HostNext(Plans \cup {NoConfig}) \/ UNCHANGED Host!hostVars

\* One run after the other: none is disturbed.
LEMMA HostSteps ==
  ASSUME run.at # "idle", Host!RunStep(1)
  PROVE  HostStep
<1>1. ~Host!Disturbs(1)
  BY DEF Host!Disturbs
<1>2. Host!HelperStep(1)
  BY <1>1 DEF Host!HelperStep
<1> QED
  BY <1>2 DEF HostStep, Host!HostNext

\* Steps HostHelper does not see.
Quiet ==
  /\ UNCHANGED <<marker, unit, config, serving, failures, phase, faults, runs>>
  /\ SameRun /\ run'.backup = run.backup

LEMMA QuietStep ==
  ASSUME HostInv, Quiet, StaysIdle, AsHostSees', FilesTogether',
         unit => binary' /\ binary
  PROVE  HostInv' /\ HostStep
<1>1. FailuresCounted'
  BY DEF HostInv, FailuresCounted, Quiet, StaysIdle
<1>2. UNCHANGED Host!hostVars
  BY UnseenStutters DEF Quiet
<1> QED
  BY <1>1, <1>2 DEF HostInv, HostStep

\* The firewall and the certificate.
LEMMA FirewallQuiet ==
  ASSUME IInv, HostInv,
         \/ FindManager \/ AllExamined \/ Open \/ Record \/ RestoreEnds
         \/ \E p \in Ports : Examine(p)
         \/ \E e \in Entries : CloseObsolete(e) \/ CloseAdded(e) \/ CloseManaged(e)
         \/ Certify \/ PlaceVhost \/ PlaceHook \/ Issue \/ WithdrawEnds
  PROVE  HostInv' /\ HostStep
<1> DEFINE from == {"ensuring", "examining", "opening", "recording", "certifying", "hosting",
                    "issuing", "hooking"}
           onward == Examining \cup Certifying
<1>1. /\ run \in RunRecord
      /\ run.at \in from => run.command \in {"install", "apply"}
  BY DEF IInv, TypeOK, RunRecord, RunsInOrder, Changing, Guarded
<1>2. ASSUME Quiet, binary' = binary, run.at \in from, run'.at \in onward,
             run'.at = "configuring" => run.command = "install",
             run'.at = "switching" => run.command = "apply"
      PROVE  HostInv' /\ HostStep
  <2>1. StaysIdle /\ AsHostSees' /\ FilesTogether'
    BY <1>1, <1>2 DEF HostInv, AsHostSees, FilesTogether, Quiet, SameRun, StaysIdle, Halfway,
                      Examining, Opening, Certifying, Removing
  <2> QED
    BY <1>2, <2>1, QuietStep DEF HostInv, FilesTogether
<1>3. ASSUME Quiet, binary' = binary,
             \/ run'.at = run.at
             \/ run.at = "restoring" /\ run'.at = "failed"
             \/ run.at = "withdrawing" /\ run'.at = "removingUnit"
      PROVE  HostInv' /\ HostStep
  <2>1. StaysIdle /\ AsHostSees' /\ FilesTogether'
    BY <1>1, <1>3 DEF HostInv, AsHostSees, FilesTogether, Quiet, SameRun, StaysIdle, Halfway,
                      Examining, Opening, Certifying, Removing
  <2> QED
    BY <1>3, <2>1, QuietStep DEF HostInv, FilesTogether
<1>4. CASE FindManager
  <2>1. UNCHANGED <<marker, binary, unit, config, serving, failures, phase, faults, runs>>
    BY <1>4 DEF FindManager, files, bounds
  <2>2. SameRun /\ run'.backup = run.backup /\ run'.at \in {"examining", "certifying"}
    BY <1>1, <1>4 DEF FindManager, RunRecord, SameRun
  <2> QED
    BY <1>2, <1>4, <2>1, <2>2 DEF FindManager, Quiet, Examining, Certifying
<1>5. CASE AllExamined \/ Certify \/ PlaceVhost \/ PlaceHook \/ Issue
  <2>1. /\ UNCHANGED <<marker, binary, unit, config, serving, failures, phase, faults, runs>>
        /\ run.at \in from
    BY <1>5 DEF AllExamined, Certify, PlaceVhost, PlaceHook, Issue, Keep, files, bounds, history
  <2>2. PICK at \in Certifying : /\ Goes(at)
                                 /\ at = "configuring" => run.command = "install"
                                 /\ at = "switching" => run.command # "install"
    BY <1>5 DEF AllExamined, Certify, PlaceVhost, PlaceHook, Issue, Keep, Certified, Certifying
  <2>3. at \in Working
    BY DEF Certifying, Working, Guarded
  <2> QED
    BY <1>1, <1>2, <2>1, <2>2, <2>3, RunGoes DEF Quiet, SameRun
<1>6. CASE Open
  <2>1. UNCHANGED <<marker, binary, unit, config, serving, failures, phase, faults, runs>>
    BY <1>6 DEF Open, files, bounds, history
  <2>2. SameRun /\ run'.backup = run.backup /\ run'.at = "recording"
    BY <1>1, <1>6, RunGoes DEF Open, SameRun, Working, Guarded
  <2> QED
    BY <1>2, <1>6, <2>1, <2>2 DEF Open, Quiet, Examining, Opening
<1>7. CASE Record \/ \E p \in Ports : Examine(p)
  <2>1. /\ UNCHANGED <<marker, binary, unit, config, serving, failures, phase, faults, runs>>
        /\ run.at \in from
    BY <1>7 DEF Record, Examine, files, bounds
  <2>2. SameRun /\ run'.backup = run.backup /\ run'.at \in {"examining", "opening"}
    BY <1>1, <1>7 DEF Record, Examine, RunRecord, SameRun
  <2> QED
    BY <1>2, <2>1, <2>2 DEF Quiet, Examining, Opening
<1>8. CASE \E e \in Entries : CloseObsolete(e) \/ CloseAdded(e) \/ CloseManaged(e)
  <2>1. UNCHANGED <<marker, binary, unit, config, serving, failures, phase, faults, runs>>
    BY <1>8 DEF CloseObsolete, CloseAdded, CloseManaged, Close, files, bounds
  <2>2. SameRun /\ run'.backup = run.backup /\ run'.at = run.at
    BY <1>1, <1>8 DEF CloseObsolete, CloseAdded, CloseManaged, Close, RunRecord, SameRun
  <2> QED
    BY <1>3, <2>1, <2>2 DEF Quiet
<1>9. CASE RestoreEnds \/ WithdrawEnds
  <2>1. UNCHANGED <<marker, binary, unit, config, serving, failures, phase, faults, runs>>
    BY <1>9 DEF RestoreEnds, WithdrawEnds, files, bounds, history
  <2>2. /\ SameRun /\ run'.backup = run.backup
        /\ \/ run.at = "restoring" /\ run'.at = "failed"
           \/ run.at = "withdrawing" /\ run'.at = "removingUnit"
    BY <1>1, <1>9, RunGoes DEF RestoreEnds, WithdrawEnds, SameRun, Working
  <2> QED
    BY <1>3, <2>1, <2>2 DEF Quiet
<1> QED
  BY <1>4, <1>5, <1>6, <1>7, <1>8, <1>9

LEMMA AdminQuiet ==
  ASSUME IInv, HostInv, AdminReloads \/ AdminSwitches \/ \E e \in Entries : AdminOpens(e)
  PROVE  HostInv' /\ HostStep
<1>1. /\ run' = run
      /\ UNCHANGED <<marker, binary, unit, config, serving, failures, phase, faults, runs>>
  BY DEF AdminReloads, AdminSwitches, AdminOpens, AdminActs, files
<1> QED
  BY <1>1, QuietStep
  DEF HostInv, AsHostSees, FilesTogether, Quiet, SameRun, StaysIdle

\* A run begins, and its exit is seen.
LEMMA BeginIsSpawn ==
  ASSUME IInv, HostInv, NEW command \in {"install", "apply", "uninstall", "start", "stop"},
         NEW plan \in Plans \cup {NoConfig}, Begin(command, plan)
  PROVE  HostInv' /\ HostStep
<1>1. /\ run.at = "idle" /\ runs < MaxRuns /\ runs' = runs + 1 /\ phase' = "started"
      /\ UNCHANGED <<marker, binary, unit, config, serving, failures, faults>>
  BY DEF Begin, Reaches, files
<1>2. run' = [command |-> command, plan |-> plan, at |-> "started", prior |-> {},
              ports |-> {}, todo |-> {}, backup |-> NoConfig]
  BY DEF Begin, NoRun
<1>3. HostInv'
  BY <1>1, <1>2, BoundsAssumption
  DEF IInv, TypeOK, HostInv, AsHostSees, FilesTogether, FailuresCounted, Halfway,
      Examining, Opening, Certifying, Removing
<1>4. Host!FreshPid = 1
  <2> DEFINE all == [pid \in IF run.at = "idle" THEN {} ELSE {1} |->
                       [command |-> run.command, plan |-> run.plan, at |-> phase,
                        backup |-> run.backup]]
  <2>1. Host!Cardinality({}) = 0
    BY DEF Host!Cardinality
  <2>2. DOMAIN all = {} /\ Host!Cardinality(DOMAIN all) = 0
    BY <1>1, <2>1
  <2>3. Host!FreshPid =
          CHOOSE pid \in 1 .. Host!Cardinality(DOMAIN all) + 1 : pid \notin DOMAIN all
    BY DEF Host!FreshPid
  <2> HIDE DEF all
  <2>4. \E pid \in 1 .. Host!Cardinality(DOMAIN all) + 1 : pid \notin DOMAIN all
    BY <2>2
  <2>5. Host!FreshPid \in 1 .. Host!Cardinality(DOMAIN all) + 1
    BY <2>3, <2>4, Zenon
  <2> QED
    BY <2>2, <2>5
<1>5. Host!Spawn(command, plan)
  BY <1>1, <1>2, <1>4 DEF Host!Spawn, Host!NewRun
<1>6. UNCHANGED <<Host!host, failures>>
  BY <1>1 DEF Host!host, Host!runtime
<1> QED
  BY <1>3, <1>5, <1>6 DEF HostStep, Host!HostNext, Host!Command

LEMMA ExitIsCollect ==
  ASSUME IInv, HostInv, Exit
  PROVE  HostInv' /\ HostStep
<1>1. /\ run.at \in {"ok", "failed"} /\ run'.at = "idle" /\ run'.command = "none"
      /\ phase \in {"ok", "failed"}
      /\ UNCHANGED <<marker, binary, unit, config, serving, failures, phase, faults, runs>>
  BY DEF Exit, NoRun, HostInv, AsHostSees, files, bounds, history
<1>2. HostInv'
  BY <1>1 DEF HostInv, AsHostSees, FilesTogether, FailuresCounted, Halfway,
              Examining, Opening, Certifying, Removing
<1>3. ~Host!Alive(1)
  BY <1>1, HostRun
<1>4. Host!Collect(1)
  BY <1>1 DEF Host!Collect, Host!Restrict
<1>5. UNCHANGED <<Host!host, failures>>
  BY <1>1 DEF Host!host, Host!runtime
<1> QED
  BY <1>1, <1>2, <1>3, <1>4, <1>5 DEF HostStep, Host!HostNext

LEMMA InstallIsHosts ==
  ASSUME IInv, ServedInv, HostInv, InstallStep
  PROVE  HostInv' /\ HostStep
<1>1. /\ run \in RunRecord /\ run.plan \in Plans \cup {NoConfig}
      /\ {marker, binary, unit} \subseteq BOOLEAN
      /\ {failures, faults, runs} \subseteq Nat
      /\ {"marking", "fetching", "ensuring", "placing", "restarting", "failed"}
           \subseteq Working \cup {"ok", "failed"}
  BY DEF IInv, TypeOK, RunRecord, Working, Guarded
<1>2. CASE InstallChecks
  <2>1. /\ UNCHANGED <<marker, binary, unit, config, serving, faults, runs>>
        /\ run.at = "started" /\ run.command = "install"
    BY <1>2 DEF InstallChecks, At, bounds
  <2>2. CASE Goes("marking") /\ UNCHANGED <<phase, failures>>
    <3>1. run'.at = "marking" /\ SameRun /\ run'.backup = run.backup
      BY <1>1, <2>2, RunGoes DEF SameRun
    <3>2. Quiet /\ StaysIdle /\ AsHostSees' /\ FilesTogether'
      BY <2>1, <2>2, <3>1 DEF HostInv, AsHostSees, FilesTogether, Quiet, SameRun, StaysIdle,
                         Halfway, Examining, Opening, Certifying, Removing
    <3> QED
      BY <2>1, <3>2, QuietStep DEF HostInv, FilesTogether
  <2>3. CASE Goes("failed") /\ phase' = "failed" /\ failures' = failures + 1
    <3>1. run'.at = "failed" /\ SameRun /\ run'.backup = run.backup
      BY <1>1, <2>3, RunGoes DEF SameRun
    <3>2. HostInv'
      BY <1>1, <2>1, <2>3, <3>1
      DEF HostInv, AsHostSees, FilesTogether, FailuresCounted, SameRun,
          Halfway, Examining, Opening, Certifying, Removing
    <3>3. Host!HelperFails(1)
      BY <2>1, <2>3, <3>1, HostFails DEF HostInv, AsHostSees
    <3> QED
      BY <2>1, <3>2, <3>3, HostSteps DEF Host!RunStep
  <2> QED
    BY <1>2, <2>2, <2>3 DEF InstallChecks
<1>3. CASE InstallMarks
  <2>1. /\ UNCHANGED <<binary, unit, config, serving, failures, faults, runs>> /\ marker' = TRUE
        /\ run.at = "marking" /\ run.command = "install" /\ phase = "started" /\ phase' = "half"
    BY <1>3 DEF InstallMarks, Reaches, bounds, HostInv, AsHostSees
  <2>2. run'.at = "fetching" /\ SameRun /\ run'.backup = run.backup
    BY <1>1, <1>3, RunGoes DEF InstallMarks, SameRun
  <2>3. HostInv'
    BY <2>1, <2>2 DEF HostInv, AsHostSees, FilesTogether, FailuresCounted, SameRun,
                      Halfway, Examining, Opening, Certifying, Removing
  <2>4. marker \/ ~(binary /\ unit)
    BY DEF IInv, Marks
  <2>5. Host!InstallMarks(1)
    BY <2>1, <2>2, <2>4, HostRun, HostMoves DEF Host!InstallMarks
  <2> QED
    BY <2>1, <2>3, <2>5, HostSteps DEF Host!RunStep
<1>4. CASE PlaceBinary
  <2>1. /\ UNCHANGED <<marker, unit, config, serving, failures, phase, faults, runs>>
        /\ binary' = TRUE /\ run.at = "fetching" /\ run.command = "install"
    BY <1>4 DEF PlaceBinary, bounds, history, HostInv, AsHostSees
  <2>2. run'.at = "ensuring" /\ SameRun /\ run'.backup = run.backup
    BY <1>1, <1>4 DEF PlaceBinary, RunRecord, SameRun
  <2>3. Quiet /\ StaysIdle /\ AsHostSees' /\ FilesTogether'
    BY <2>1, <2>2 DEF HostInv, AsHostSees, FilesTogether, Quiet, SameRun, StaysIdle,
                      Halfway, Examining, Opening, Certifying, Removing
  <2> QED
    BY <2>1, <2>3, QuietStep DEF HostInv, FilesTogether
<1>5. CASE Configure
  <2>1. /\ UNCHANGED <<marker, binary, unit, serving, failures, faults, runs>>
        /\ config' = run.plan /\ run.at = "configuring" /\ run.command = "install"
        /\ phase = "half" /\ phase' = "configured" /\ binary
    BY <1>5 DEF Configure, Reaches, bounds, HostInv, AsHostSees, FilesTogether, Halfway, Certifying
  <2>2. run'.at = "placing" /\ SameRun /\ run'.backup = run.backup
    BY <1>1, <1>5, RunGoes DEF Configure, SameRun
  <2>3. HostInv'
    BY <2>1, <2>2 DEF HostInv, AsHostSees, FilesTogether, FailuresCounted, SameRun,
                      Halfway, Examining, Opening, Certifying, Removing
  <2>4. Host!InstallConfigures(1)
    BY <2>1, <2>2, HostRun, HostMoves DEF Host!InstallConfigures
  <2> QED
    BY <2>1, <2>3, <2>4, HostSteps DEF Host!RunStep
<1>6. CASE PlaceUnit
  <2>1. /\ UNCHANGED <<marker, binary, config, serving, failures, faults, runs>>
        /\ unit' = TRUE /\ run.at = "placing" /\ run.command = "install"
        /\ phase = "configured" /\ phase' = "placed" /\ binary
    BY <1>6 DEF PlaceUnit, Reaches, bounds, HostInv, AsHostSees, FilesTogether
  <2>2. run'.at = "restarting" /\ SameRun /\ run'.backup = run.backup
    BY <1>1, <1>6, RunGoes DEF PlaceUnit, SameRun
  <2>3. HostInv'
    BY <2>1, <2>2 DEF HostInv, AsHostSees, FilesTogether, FailuresCounted, SameRun,
                      Halfway, Examining, Opening, Certifying, Removing
  <2>4. (binary /\ unit)' = TRUE
    BY <2>1
  <2>5. Host!InstallPlaces(1)
    BY <2>1, <2>2, <2>4, HostRun, HostMoves DEF Host!InstallPlaces
  <2> QED
    BY <2>1, <2>3, <2>5, HostSteps DEF Host!RunStep
<1> QED
  BY <1>2, <1>3, <1>4, <1>5, <1>6 DEF InstallStep

LEMMA RestartIsHosts ==
  ASSUME IInv, ServedInv, HostInv, Restart \/ RestartRefused \/ RestartFails
  PROVE  HostInv' /\ HostStep
<1>1. /\ run \in RunRecord /\ run.at = "restarting" /\ config = run.plan /\ config # NoConfig
      /\ run.command \in {"install", "apply"}
      /\ UNCHANGED <<marker, binary, unit, config, runs>>
      /\ {failures, faults, runs} \subseteq Nat
      /\ phase = IF run.command = "install" THEN "placed" ELSE "switched"
      /\ run.command = "apply" => serving # NoConfig
      /\ Added \in SUBSET Entries /\ Obsolete \in SUBSET Entries
      /\ {"reconciling", "restoring", "rollingBack"} \subseteq Working
  BY NoConfigAssumption
  DEF IInv, TypeOK, RunRecord, RunsInOrder, Changing, Guarded, Working, ServedInv, InOrder,
      Settling, HostInv, AsHostSees, FilesTogether, Restart, RestartRefused, RestartFails,
      files, bounds,
      Added, Obsolete
<1>2. CASE Restart
  <2>1. /\ serving' = config /\ UNCHANGED <<failures, faults>>
        /\ phase' = IF run.command = "install" THEN "running" ELSE "switched"
        /\ run' = [run EXCEPT !.at = "reconciling", !.todo = Obsolete]
    BY <1>1, <1>2 DEF Restart, Reaches, bounds
  <2>2. run'.at = "reconciling" /\ SameRun /\ run'.backup = run.backup
    BY <1>1, <2>1, RunCloses DEF SameRun
  <2>3. HostInv'
    BY <1>1, <2>1, <2>2 DEF HostInv, AsHostSees, FilesTogether, FailuresCounted, SameRun,
                      Halfway, Examining, Opening, Certifying, Removing
  <2>4. CASE run.command = "install"
    <3>1. (serving # NoConfig)' = TRUE
      BY <1>1, <2>1
    <3>2. Host!InstallRestarts(1)
      BY <1>1, <2>1, <2>2, <2>4, <3>1, HostRun, HostMoves DEF Host!InstallRestarts
    <3> QED
      BY <1>1, <2>3, <3>2, HostSteps DEF Host!RunStep
  <2>5. CASE run.command = "apply"
    <3>1. UNCHANGED Host!hostVars
      BY <1>1, <2>1, <2>2, <2>5, UnseenStutters DEF StaysIdle
    <3> QED
      BY <2>3, <3>1 DEF HostStep
  <2> QED
    BY <1>1, <2>4, <2>5
<1>3. CASE RestartFails
  <2>1. /\ serving' = NoConfig /\ failures' = failures + 1 /\ faults' = faults + 1
        /\ faults < MaxFaults /\ (serving # NoConfig)' = FALSE
    BY <1>3 DEF RestartFails, CountFault
  <2>2. CASE run.command = "install"
    <3>1. phase' = "failed" /\ run' = [run EXCEPT !.at = "restoring", !.todo = Added]
      BY <1>3, <2>2 DEF RestartFails
    <3>2. run'.at = "restoring" /\ SameRun /\ run'.backup = run.backup
      BY <1>1, <3>1, RunCloses DEF SameRun
    <3>3. HostInv'
      BY <1>1, <2>1, <2>2, <3>1, <3>2, BoundsAssumption
      DEF HostInv, AsHostSees, FilesTogether, FailuresCounted, SameRun,
          Halfway, Examining, Opening, Certifying, Removing
    <3>4. Host!CountFault("late_failure")
      BY <1>1, <2>1, <2>2, HostFaultAllowed DEF HostInv
    <3>5. Host!InstallRestarts(1)
      BY <1>1, <2>1, <2>2, <3>1, <3>2, <3>4, HostRun, HostMoves DEF Host!InstallRestarts
    <3> QED
      BY <1>1, <3>3, <3>5, HostSteps DEF Host!RunStep
  <2>3. CASE run.command = "apply"
    <3>1. phase' = "stalled" /\ Goes("rollingBack")
      BY <1>3, <2>3 DEF RestartFails
    <3>2. run'.at = "rollingBack" /\ SameRun /\ run'.backup = run.backup
      BY <1>1, <3>1, RunGoes DEF SameRun
    <3>3. HostInv'
      BY <1>1, <2>1, <2>3, <3>1, <3>2, BoundsAssumption
      DEF HostInv, AsHostSees, FilesTogether, FailuresCounted, SameRun,
          Halfway, Examining, Opening, Certifying, Removing
    <3>4. Host!CountFault("helper_failure")
      BY <1>1, <2>1, <2>3, HostFaultAllowed DEF HostInv
    <3>5. Host!ApplyRestartFails(1)
      BY <1>1, <2>1, <2>3, <3>1, <3>2, <3>4, HostRun, HostMoves DEF Host!ApplyRestartFails
    <3> QED
      BY <1>1, <3>3, <3>5, HostSteps DEF Host!RunStep
  <2> QED
    BY <1>1, <2>2, <2>3
<1>4. CASE RestartRefused
  <2>1. /\ run.command = "apply" /\ phase' = "stalled" /\ Goes("rollingBack") /\ ~unit
        /\ UNCHANGED <<serving, faults, failures>>
    BY <1>1, <1>4 DEF RestartRefused, Reaches, bounds, ServedInv, InOrder
  <2>2. run'.at = "rollingBack" /\ SameRun /\ run'.backup = run.backup
    BY <1>1, <2>1, RunGoes DEF SameRun
  <2>3. HostInv'
    BY <1>1, <2>1, <2>2
    DEF HostInv, AsHostSees, FilesTogether, FailuresCounted, SameRun,
        Halfway, Examining, Opening, Certifying, Removing
  <2>4. Host!ApplyRestartFails(1)
    BY <1>1, <2>1, <2>2, HostRun, HostMoves DEF Host!ApplyRestartFails
  <2> QED
    BY <1>1, <2>3, <2>4, HostSteps DEF Host!RunStep
<1> QED
  BY <1>2, <1>3, <1>4

LEMMA ApplyIsHosts ==
  ASSUME IInv, ServedInv, HostInv, ApplyChecks \/ Switch \/ SwitchRefused \/ RollBack
  PROVE  HostInv' /\ HostStep
<1>1. /\ run \in RunRecord /\ Added \in SUBSET Entries
      /\ {"ensuring", "restoring", "failed"} \subseteq Working \cup {"ok", "failed"}
      /\ UNCHANGED <<marker, binary, unit, failures, faults, runs>>
  BY DEF IInv, TypeOK, RunRecord, Working, Guarded, Added, ApplyChecks, Switch, SwitchRefused,
         RollBack, files, bounds, Reaches
<1>2. CASE ApplyChecks
  <2>1. /\ UNCHANGED <<config, serving>> /\ run.at = "started" /\ run.command = "apply"
        /\ phase = "started"
    BY <1>2 DEF ApplyChecks, At, files, HostInv, AsHostSees
  <2>2. /\ SameRun /\ run'.backup = run.backup
        /\ \/ /\ marker /\ config # NoConfig
              /\ run'.at = "ensuring" /\ phase' = "half"
           \/ /\ ~(marker /\ config # NoConfig)
              /\ run'.at = "failed" /\ phase' = "failed"
    <3>1. CASE marker /\ config # NoConfig
      <4>1. run' = [run EXCEPT !.at = "ensuring", !.prior = manifest] /\ phase' = "half"
        BY <1>2, <3>1 DEF ApplyChecks, Reaches
      <4> QED
        BY <1>1, <3>1, <4>1 DEF RunRecord, SameRun
    <3>2. CASE ~(marker /\ config # NoConfig)
      <4>1. Goes("failed") /\ phase' = "failed"
        BY <1>2, <3>2 DEF ApplyChecks, Reaches
      <4> QED
        BY <1>1, <3>2, <4>1, RunGoes DEF SameRun
    <3> QED
      BY <3>1, <3>2
  <2>3. HostInv'
    BY <1>1, <2>1, <2>2 DEF IInv, TypeOK, HostInv, AsHostSees, FilesTogether, FailuresCounted,
                      SameRun, Halfway, Examining, Opening, Certifying, Removing
  <2>4. Host!ApplyStarts(1)
    BY <1>1, <2>1, <2>2, HostRun, HostMoves DEF Host!ApplyStarts, Host!runtime
  <2> QED
    BY <2>1, <2>3, <2>4, HostSteps DEF Host!RunStep
<1>3. CASE Switch
  <2>1. /\ serving' = serving /\ config' = run.plan /\ run.at = "switching" /\ binary
        /\ run.command = "apply" /\ phase = "half" /\ phase' = "switched" /\ config # NoConfig
    BY <1>3 DEF Switch, Reaches, HostInv, AsHostSees, FilesTogether, Halfway, Certifying
  <2>2. /\ SameRun /\ run'.backup = config
        /\ \/ run'.at = "restarting" /\ serving # NoConfig
           \/ run'.at = "reconciling" /\ serving = NoConfig
    BY <1>1, <1>3 DEF Switch, RunRecord, SameRun
  <2>3. HostInv'
    BY <1>1, <2>1, <2>2 DEF HostInv, AsHostSees, FilesTogether, FailuresCounted, SameRun,
                      Halfway, Examining, Opening, Certifying, Removing
  <2>4. Host!ApplySwitches(1)
    BY <1>1, <2>1, <2>2, HostRun DEF Host!ApplySwitches, SameRun
  <2> QED
    BY <2>1, <2>3, <2>4, HostSteps DEF Host!RunStep
<1>4. CASE SwitchRefused
  <2>1. /\ UNCHANGED <<config, serving>> /\ run.at = "switching" /\ ~binary
        /\ run.command = "apply" /\ phase = "half" /\ phase' = "failed"
        /\ run' = [run EXCEPT !.at = "restoring", !.todo = Added]
    BY <1>4 DEF SwitchRefused, Reaches, files, HostInv, AsHostSees, Halfway, Certifying
  <2>2. run'.at = "restoring" /\ SameRun /\ run'.backup = run.backup
    BY <1>1, <2>1, RunCloses DEF SameRun
  <2>3. HostInv'
    BY <1>1, <2>1, <2>2 DEF IInv, TypeOK, HostInv, AsHostSees, FilesTogether, FailuresCounted,
                      SameRun, Halfway, Examining, Opening, Certifying, Removing
  <2>4. Host!ApplySwitches(1)
    BY <1>1, <2>1, <2>2, HostRun, HostMoves DEF Host!ApplySwitches
  <2> QED
    BY <2>1, <2>3, <2>4, HostSteps DEF Host!RunStep
<1>5. CASE RollBack
  <2>1. /\ config' = run.backup /\ run.at = "rollingBack"
        /\ run.command = "apply" /\ phase = "stalled" /\ phase' = "failed"
        /\ run' = [run EXCEPT !.at = "restoring", !.todo = Added]
    BY <1>5 DEF RollBack, Reaches, HostInv, AsHostSees
  <2>2. run'.at = "restoring" /\ SameRun /\ run'.backup = run.backup
    BY <1>1, <2>1, RunCloses DEF SameRun
  <2>3. HostInv'
    BY <1>1, <2>1, <2>2 DEF IInv, TypeOK, HostInv, AsHostSees, FilesTogether, FailuresCounted,
                      SameRun, Halfway, Examining, Opening, Certifying, Removing
  <2>4. (serving # NoConfig)' \in BOOLEAN
    OBVIOUS
  <2>5. Host!ApplyRollsBack(1)
    BY <1>1, <2>1, <2>2, <2>4, HostRun, HostMoves DEF Host!ApplyRollsBack
  <2> QED
    BY <2>1, <2>3, <2>5, HostSteps DEF Host!RunStep
<1> QED
  BY <1>2, <1>3, <1>4, <1>5

LEMMA ReconcileIsHosts ==
  ASSUME IInv, HostInv, ReconcileEnds
  PROVE  HostInv' /\ HostStep
<1>1. /\ run \in RunRecord /\ run.at = "reconciling" /\ phase' = "ok"
      /\ run.command \in {"install", "apply"}
      /\ phase = IF run.command = "install" THEN "running" ELSE "switched"
      /\ UNCHANGED <<marker, binary, unit, config, serving, failures, faults, runs>>
  BY DEF IInv, TypeOK, RunRecord, RunsInOrder, Changing, Guarded, ReconcileEnds, HostInv,
         AsHostSees, files, bounds
<1>2. run'.at = "ok" /\ SameRun /\ run'.backup = run.backup
  BY <1>1, RunGoes DEF ReconcileEnds, SameRun
<1>3. HostInv'
  BY <1>1, <1>2 DEF HostInv, AsHostSees, FilesTogether, FailuresCounted, SameRun,
                    Halfway, Examining, Opening, Certifying, Removing
<1>4. Host!InstallFinishes(1) \/ Host!ApplyFinishes(1)
  BY <1>1, <1>2, HostRun, HostMoves DEF Host!InstallFinishes, Host!ApplyFinishes, Host!runtime
<1> QED
  BY <1>1, <1>3, <1>4, HostSteps DEF Host!RunStep

LEMMA UninstallIsHosts ==
  ASSUME IInv, HostInv,
         \/ UninstallStops \/ RemoveUnit \/ RemoveBinary \/ RemoveDirectory
         \/ \E file \in CertFiles : RemoveCertFile(file)
  PROVE  HostInv' /\ HostStep
<1>1. /\ run \in RunRecord /\ manifest \in SUBSET Entries
      /\ {marker, binary, unit} \subseteq BOOLEAN
      /\ {"withdrawing", "removingBinary", "removingCertFiles", "ok"}
           \subseteq Working \cup {"ok", "failed"}
      /\ UNCHANGED <<failures, faults, runs>>
  BY DEF IInv, TypeOK, RunRecord, Working, UninstallStops, RemoveUnit, RemoveBinary,
         RemoveDirectory, RemoveCertFile, bounds, history, Reaches
<1>2. CASE UninstallStops
  <2>1. /\ UNCHANGED <<marker, binary, unit, config>> /\ run.at = "started"
        /\ run.command = "uninstall" /\ phase = "started"
    BY <1>2 DEF UninstallStops, At, files, HostInv, AsHostSees
  <2>2. /\ SameRun /\ run'.backup = run.backup
        /\ \/ marker /\ run'.at = "withdrawing" /\ phase' = "stopped" /\ serving' = NoConfig
           \/ ~marker /\ run'.at = "ok" /\ phase' = "ok" /\ serving' = serving
    <3>1. CASE marker
      <4>1. /\ run' = [run EXCEPT !.at = "withdrawing", !.todo = manifest]
            /\ phase' = "stopped" /\ serving' = NoConfig
        BY <1>2, <3>1 DEF UninstallStops, Reaches
      <4> QED
        BY <1>1, <3>1, <4>1, RunCloses DEF SameRun
    <3>2. CASE ~marker
      <4>1. Goes("ok") /\ phase' = "ok" /\ serving' = serving
        BY <1>2, <3>2 DEF UninstallStops, Reaches
      <4> QED
        BY <1>1, <3>2, <4>1, RunGoes DEF SameRun
    <3> QED
      BY <3>1, <3>2
  <2>3. HostInv'
    BY <1>1, <2>1, <2>2 DEF HostInv, AsHostSees, FilesTogether, FailuresCounted, SameRun,
                      Halfway, Examining, Opening, Certifying, Removing
  <2>4. \/ (serving # NoConfig)' = (serving # NoConfig) /\ ~marker
        \/ (serving # NoConfig)' = FALSE /\ marker
    BY <2>2
  <2>5. Host!UninstallStops(1)
    BY <1>1, <2>1, <2>2, <2>4, HostRun, HostMoves DEF Host!UninstallStops
  <2> QED
    BY <2>1, <2>3, <2>5, HostSteps DEF Host!RunStep
<1>3. CASE RemoveUnit
  <2>1. /\ UNCHANGED <<marker, binary, config, serving>> /\ unit' = FALSE /\ phase = "stopped"
        /\ run.at = "removingUnit" /\ run.command = "uninstall" /\ phase' = "half"
    BY <1>3 DEF RemoveUnit, Reaches, HostInv, AsHostSees, Removing
  <2>2. run'.at = "removingBinary" /\ SameRun /\ run'.backup = run.backup
    BY <1>1, <1>3, RunGoes DEF RemoveUnit, SameRun
  <2>3. HostInv'
    BY <1>1, <2>1, <2>2 DEF HostInv, AsHostSees, FilesTogether, FailuresCounted, SameRun,
                      Halfway, Examining, Opening, Certifying, Removing
  <2>4. (binary /\ unit)' = FALSE
    BY <2>1
  <2>5. Host!UninstallRemovesFiles(1)
    BY <1>1, <2>1, <2>2, <2>4, HostRun, HostMoves DEF Host!UninstallRemovesFiles
  <2> QED
    BY <2>1, <2>3, <2>5, HostSteps DEF Host!RunStep
<1>4. CASE RemoveBinary
  <2>1. /\ UNCHANGED <<marker, unit, config, serving, phase>> /\ ~unit
        /\ run.at = "removingBinary"
    BY <1>4 DEF RemoveBinary, history, IInv, Marks
  <2>2. run'.at = "removingCertFiles" /\ SameRun /\ run'.backup = run.backup
    BY <1>1, <1>4, RunGoes DEF RemoveBinary, SameRun
  <2>3. Quiet /\ StaysIdle /\ AsHostSees' /\ FilesTogether'
    BY <1>1, <2>1, <2>2 DEF HostInv, AsHostSees, FilesTogether, Quiet, SameRun, StaysIdle,
                      Halfway, Examining, Opening, Certifying, Removing
  <2> QED
    BY <2>1, <2>3, QuietStep
<1>5. CASE RemoveDirectory
  <2>1. /\ UNCHANGED <<binary, unit, serving>> /\ marker' = FALSE /\ config' = NoConfig
        /\ run.at = "removingCertFiles" /\ run.command = "uninstall"
        /\ phase = "half" /\ phase' = "ok"
    BY <1>5 DEF RemoveDirectory, Reaches, HostInv, AsHostSees, Halfway, Removing
  <2>2. run'.at = "ok" /\ SameRun /\ run'.backup = run.backup
    BY <1>1, <1>5, RunGoes DEF RemoveDirectory, SameRun
  <2>3. HostInv'
    BY <1>1, <2>1, <2>2 DEF HostInv, AsHostSees, FilesTogether, FailuresCounted, SameRun,
                      Halfway, Examining, Opening, Certifying, Removing
  <2>4. Host!UninstallFinishes(1)
    BY <1>1, <2>1, <2>2, HostRun, HostMoves DEF Host!UninstallFinishes
  <2> QED
    BY <2>1, <2>3, <2>4, HostSteps DEF Host!RunStep
<1>6. CASE \E file \in CertFiles : RemoveCertFile(file)
  <2>1. run' = run /\ UNCHANGED <<marker, binary, unit, config, serving, phase>>
    BY <1>6 DEF RemoveCertFile, history
  <2>2. Quiet /\ StaysIdle /\ AsHostSees' /\ FilesTogether'
    BY <1>1, <2>1 DEF HostInv, AsHostSees, FilesTogether, Quiet, SameRun, StaysIdle
  <2> QED
    BY <2>1, <2>2, QuietStep DEF HostInv, FilesTogether
<1> QED
  BY <1>2, <1>3, <1>4, <1>5, <1>6

LEMMA StopIgnoredIsHosts ==
  ASSUME IInv, HostInv, StopIgnored
  PROVE  HostInv' /\ HostStep
<1>1. /\ run \in RunRecord /\ manifest \in SUBSET Entries /\ "withdrawing" \in Working
      /\ {failures, faults, runs} \subseteq Nat
      /\ run.at = "started" /\ run.command = "uninstall" /\ phase = "started" /\ marker
      /\ phase' = "stopped" /\ failures' = failures + 1
      /\ faults' = faults + 1 /\ faults < MaxFaults
      /\ run' = [run EXCEPT !.at = "withdrawing", !.todo = manifest]
      /\ UNCHANGED <<marker, binary, unit, config, serving, runs>>
  BY DEF IInv, TypeOK, RunRecord, Working, StopIgnored, CountFault, At, files, HostInv, AsHostSees
<1>2. run'.at = "withdrawing" /\ SameRun /\ run'.backup = run.backup
  BY <1>1, RunCloses DEF SameRun
<1>3. HostInv'
  BY <1>1, <1>2, BoundsAssumption
  DEF HostInv, AsHostSees, FilesTogether, FailuresCounted, SameRun,
      Halfway, Examining, Opening, Certifying, Removing
<1>4. Host!CountFault("stop_failure")
  BY <1>1, HostFaultAllowed DEF HostInv
<1>5. Host!UninstallStops(1)
  BY <1>1, <1>2, <1>4, HostRun, HostMoves DEF Host!UninstallStops
<1> QED
  BY <1>1, <1>3, <1>5, HostSteps DEF Host!RunStep

LEMMA ServiceIsHosts ==
  ASSUME IInv, HostInv, ServiceCommand
  PROVE  HostInv' /\ HostStep
<1> DEFINE possible == (binary /\ unit) \/ (run.command = "stop" /\ serving # NoConfig)
           done == IF possible THEN "ok" ELSE "failed"
<1>1. /\ run \in RunRecord /\ run.command \in {"start", "stop"} /\ run.at = "started"
      /\ UNCHANGED <<marker, binary, unit, config, failures, faults, runs>>
      /\ Goes(done) /\ phase' = done
  BY DEF IInv, TypeOK, RunRecord, ServiceCommand, Reaches, files, bounds
<1>2. phase = "started" /\ done \in {"ok", "failed"}
  BY <1>1 DEF HostInv, AsHostSees
<1>3. /\ run.command = "start" =>
           (serving' # NoConfig <=>
              serving # NoConfig \/ (binary /\ unit /\ config # NoConfig))
      /\ run.command = "stop" => serving' = NoConfig
  BY DEF ServiceCommand
<1>4. possible <=> (binary /\ unit) \/ (run.command = "stop" /\ serving # NoConfig)
  OBVIOUS
<1>5. done = "ok" <=> possible
  OBVIOUS
<1> HIDE DEF possible, done
<1>6. run'.at = done /\ SameRun /\ run'.backup = run.backup
  BY <1>1, <1>2, RunGoes DEF SameRun
<1>7. HostInv'
  BY <1>1, <1>2, <1>6 DEF IInv, TypeOK, HostInv, AsHostSees, FilesTogether, FailuresCounted,
                          SameRun, Halfway, Examining, Opening, Certifying, Removing
<1>8. Host!ServiceCommand(1)
  BY <1>1, <1>2, <1>3, <1>4, <1>5, <1>6, HostRun, HostMoves DEF Host!ServiceCommand
<1> QED
  BY <1>1, <1>7, <1>8, HostSteps DEF Host!RunStep

\* A run that fails is a failure of HostHelper, but for one that only fails
\* to put the firewall back.
LEMMA FaultsAreHosts ==
  ASSUME IInv, HostInv, Fails \/ Killed \/ CertFileTaken
  PROVE  HostInv' /\ HostStep
<1>1. /\ run \in RunRecord /\ Added \in SUBSET Entries /\ run.at \in Working
      /\ {failures, faults, runs} \subseteq Nat
      /\ UNCHANGED <<marker, binary, unit, config, serving, runs>> /\ phase' = "failed"
      /\ "restoring" \in Working
  BY DEF IInv, TypeOK, RunRecord, Added, Fails, Killed, CertFileTaken, Ends, files, bounds,
         Working, Guarded
<1>2. /\ SameRun /\ run'.backup = run.backup /\ run'.at \in {"restoring", "failed"}
  <2>1. \/ run' = [run EXCEPT !.at = "restoring", !.todo = Added]
        \/ run' = [run EXCEPT !.at = "failed", !.todo = {}]
    BY DEF Fails, Killed, CertFileTaken, Ends
  <2>2. CASE run' = [run EXCEPT !.at = "restoring", !.todo = Added]
    BY <1>1, <2>2, RunCloses DEF SameRun
  <2>3. CASE run' = [run EXCEPT !.at = "failed", !.todo = {}]
    <3>1. {} \in SUBSET Entries
      OBVIOUS
    <3> QED
      BY <1>1, <2>3, <3>1, RunCloses DEF SameRun
  <2> QED
    BY <2>1, <2>2, <2>3
<1>3. \/ /\ failures' = IF phase = "failed" THEN failures ELSE failures + 1
         /\ faults' = faults + 1 /\ faults < MaxFaults
      \/ /\ failures' = failures + 1 /\ faults' = faults /\ phase # "failed"
  BY DEF Fails, Killed, CertFileTaken, Ends, CountFault, bounds, HostInv, AsHostSees, Halfway,
         Certifying
<1>4. run.at \notin {"idle", "ok"} /\ phase # "ok"
  BY <1>1 DEF HostInv, AsHostSees, Working, Guarded, Halfway, Examining, Opening, Certifying
<1>5. HostInv'
  BY <1>1, <1>2, <1>3, <1>4, BoundsAssumption
  DEF HostInv, AsHostSees, FilesTogether, FailuresCounted, SameRun,
      Halfway, Examining, Opening, Certifying, Removing
<1>6. CASE phase = "failed"
  <2>1. UNCHANGED Host!hostVars
    BY <1>1, <1>2, <1>3, <1>4, <1>6, UnseenStutters DEF StaysIdle
  <2> QED
    BY <1>5, <2>1 DEF HostStep
<1>7. CASE phase # "failed"
  <2>1. failures' = failures + 1
    BY <1>3, <1>7
  <2>2. Host!HelperFails(1)
    BY <1>1, <1>2, <1>4, <1>7, <2>1, HostFails DEF HostInv
  <2> QED
    BY <1>4, <1>5, <2>2, HostSteps DEF Host!RunStep
<1> QED
  BY <1>6, <1>7

LEMMA HostInitially == Init => HostInv /\ Host!HostInit
<1> SUFFICES ASSUME Init PROVE HostInv /\ Host!HostInit
  OBVIOUS
<1>1. run.at = "idle" /\ run.command = "none"
  BY DEF Init, NoRun
<1>2. HostInv
  BY <1>1, BoundsAssumption
  DEF Init, HostInv, AsHostSees, FilesTogether, FailuresCounted, Halfway, Examining, Opening,
      Certifying, Removing
<1>3. /\ marker = FALSE /\ (binary /\ unit) = FALSE /\ (serving # NoConfig) = FALSE
      /\ config = NoConfig /\ failures = 0
  BY DEF Init
<1> QED
  BY <1>1, <1>2, <1>3 DEF Host!HostInit

LEMMA NextIsHosts ==
  IInv /\ ServedInv /\ HostInv /\ [Next]_vars => HostInv' /\ HostStep
<1> SUFFICES ASSUME IInv, ServedInv, HostInv, [Next]_vars PROVE HostInv' /\ HostStep
  OBVIOUS
<1>1. CASE UNCHANGED vars
  <2>1. UNCHANGED <<marker, binary, unit, config, serving, run, runs, faults, failures, phase>>
    BY <1>1 DEF vars, files, bounds, history
  <2> QED
    BY <2>1, QuietStep DEF HostInv, AsHostSees, FilesTogether, Quiet, SameRun, StaysIdle
<1>2. CASE \/ \E plan \in Plans : Begin("install", plan) \/ Begin("apply", plan)
           \/ \E command \in {"uninstall", "start", "stop"} : Begin(command, NoConfig)
  BY <1>2, BeginIsSpawn
<1>3. CASE FirewallStep \/ CertStep
  BY <1>3, FirewallQuiet, ReconcileIsHosts, FaultsAreHosts DEF FirewallStep, CertStep
<1>4. CASE InstallStep \/ ApplyStep
  BY <1>4, InstallIsHosts, ApplyIsHosts, RestartIsHosts DEF ApplyStep
<1>5. CASE UninstallStep \/ ServiceCommand
  BY <1>5, FirewallQuiet, UninstallIsHosts, StopIgnoredIsHosts, ServiceIsHosts DEF UninstallStep
<1>6. CASE Fails \/ Killed \/ Exit
  BY <1>6, FaultsAreHosts, ExitIsCollect
<1>7. CASE AdminReloads \/ AdminSwitches \/ \E e \in Entries : AdminOpens(e)
  BY <1>7, AdminQuiet
<1> QED
  BY <1>1, <1>2, <1>3, <1>4, <1>5, <1>6, <1>7 DEF Next

\* Every step of a run of the helper is a step of HostHelper or one it does
\* not see, so what is shown of the agent against HostHelper holds against the
\* helper as it is, one run after the other.
THEOREM HelperRefinement == Spec => ImplementsHostHelper
<1>1. Spec => [](IInv /\ ServedInv)
  BY ServedInit, NextServes, InductiveInvariant, PTL DEF Spec
<1>2. HostStep => [Host!HostNext(Plans \cup {NoConfig})]_(Host!hostVars)
  BY DEF HostStep
<1> QED
  BY <1>1, <1>2, HostInitially, NextIsHosts, PTL DEF Spec, ImplementsHostHelper

=============================================================================
