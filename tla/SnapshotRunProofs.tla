------------------------- MODULE SnapshotRunProofs -------------------------
(***************************************************************************)
(* What runFromSettings keeps, for every machine, every set of worlds and  *)
(* every number of runs.                                                   *)
(***************************************************************************)
EXTENDS SnapshotRun, WorkExecutorProofs, SequenceTheorems

USE DirsAssumption, MaxStackAssumption DEF DirsAssumption, MaxStackAssumption

----------------------------------------------------------------------------
(* The commands. *)

(* A way a command comes out leaves a machine, and the second work directory alone. *)
Fine(r) ==
    /\ r.out \in Outcomes /\ r.host \in Hosts /\ r.job \in Jobs
    /\ r.job.work["W2"] = job.work["W2"]

AllFine(results) == \A r \in results : Fine(r)

(* A well formed outcome is fine. *)
LEMMA OutIsFine ==
    ASSUME NEW o \in Outcomes, NEW h \in Hosts, NEW j \in Jobs, j.work["W2"] = job.work["W2"]
    PROVE  Fine(Out(o, h, j))
  BY DEF Fine, Out

LEMMA UnchangedIsFine ==
    ASSUME MachineTypeOK, NEW outcomes \in SUBSET Outcomes PROVE AllFine(Unchanged(outcomes))
  BY OutIsFine DEF AllFine, Unchanged, MachineTypeOK

LEMMA OnHostIsFine ==
    ASSUME MachineTypeOK, NEW h \in Hosts PROVE AllFine(OnHost(h)) /\ AllFine(Failing)
  <1>1. AllFine(Failing)
    BY UnchangedIsFine DEF AllFine, Failing, Outcomes
  <1>2. Fine(Out("ok", h, job))
    BY OutIsFine DEF Outcomes, MachineTypeOK
  <1> QED
    BY <1>1, <1>2 DEF AllFine, OnHost

LEMMA OnJobIsFine ==
    ASSUME MachineTypeOK, NEW j \in Jobs, j.work["W2"] = job.work["W2"] PROVE AllFine(OnJob(j))
  <1>1. AllFine(Failing)
    BY UnchangedIsFine DEF AllFine, Failing, Outcomes
  <1>2. Fine(Out("ok", host, j))
    BY OutIsFine DEF Outcomes, MachineTypeOK
  <1> QED
    BY <1>1, <1>2 DEF AllFine, OnJob

LEMMA MaybeIsFine ==
    ASSUME MachineTypeOK, NEW outcomes \in SUBSET Outcomes PROVE AllFine(Maybe(outcomes))
  BY UnchangedIsFine DEF Maybe, Outcomes

LEMMA VerdictIsFine ==
    ASSUME MachineTypeOK, NEW holds \in BOOLEAN PROVE AllFine(Verdict(holds))
  BY UnchangedIsFine DEF Verdict, Outcomes

(* Parts of the image. *)
LEMMA PartIsFine ==
    ASSUME MachineTypeOK, NEW p \in Parts
    PROVE  /\ [job EXCEPT !.kernel = p] \in Jobs /\ [job EXCEPT !.initrd = p] \in Jobs
           /\ [job EXCEPT !.linuxfs = p] \in Jobs /\ [job EXCEPT !.iso2 = p] \in Jobs
           /\ [job EXCEPT !.tmp = p] \in Jobs
           /\ [job EXCEPT !.kernel = p].work = job.work /\ [job EXCEPT !.initrd = p].work = job.work
           /\ [job EXCEPT !.linuxfs = p].work = job.work /\ [job EXCEPT !.iso2 = p].work = job.work
           /\ [job EXCEPT !.tmp = p].work = job.work
  BY DEF MachineTypeOK, Jobs

(* The first work directory. *)
LEMMA WorkIsFine ==
    ASSUME MachineTypeOK, NEW w \in {"gone", "bare", "husk", "workspace"}
    PROVE  /\ [job EXCEPT !.work["W1"] = w] \in Jobs
           /\ [job EXCEPT !.work["W1"] = w].work["W2"] = job.work["W2"]
           /\ [job EXCEPT !.work["W1"] = w].work["W1"] = w
  BY DEF MachineTypeOK, Jobs

LEMMA MountPointsAreFine ==
    ASSUME MachineTypeOK, WorldsAssumption
    PROVE  /\ AllFine(UmountRoot) /\ AllFine(UmountLower) /\ AllFine(BindLower)
           /\ AllFine(MountOverlay) /\ AllFine(CleanupOverlay)
           /\ AllFine(Mountpoint(host.root)) /\ AllFine(Mountpoint(host.lower))
  <1> USE DEF MachineTypeOK
  <1>1. host.root \in 0..MaxStack /\ host.lower \in 0..MaxStack /\ host.base \in BOOLEAN
        /\ host.prepared \in BOOLEAN /\ host.live \in BOOLEAN
    BY DEF Hosts
  <1>2. \A count \in 0..MaxStack : UmountLeaves(count) \subseteq 0..MaxStack
    BY DEF UmountLeaves
  <1>3. AllFine(UmountRoot)
    <2>1. \A r \in 0..MaxStack : [host EXCEPT !.root = r, !.prepared = FALSE] \in Hosts
      BY DEF Hosts
    <2> QED
      BY <1>1, <1>2, <2>1, OutIsFine DEF AllFine, UmountRoot, Outcomes
  <1>4. AllFine(UmountLower)
    <2>1. \A l \in 0..MaxStack : [host EXCEPT !.lower = l] \in Hosts
      BY DEF Hosts
    <2> QED
      BY <1>1, <1>2, <2>1, OutIsFine DEF AllFine, UmountLower, Outcomes
  <1>5. AllFine(BindLower)
    <2>1. host.lower < MaxStack => [host EXCEPT !.lower = @ + 1] \in Hosts
      BY <1>1 DEF Hosts
    <2> QED
      BY <2>1, OnHostIsFine DEF BindLower
  <1>6. AllFine(MountOverlay)
    <2>1. \A r \in 0..MaxStack : [host EXCEPT !.root = r, !.prepared = FALSE] \in Hosts
      BY DEF Hosts
    <2>2. host.root < MaxStack => host.root + 1 \in 0..MaxStack
      BY <1>1
    <2>3. host.root < MaxStack => [host EXCEPT !.root = @ + 1, !.prepared = FALSE] \in Hosts
      BY <2>1, <2>2
    <2> QED
      BY <2>3, OnHostIsFine DEF MountOverlay
  <1>7. AllFine(CleanupOverlay)
    <2>1. \A r, l \in 0..MaxStack, p, b, v \in BOOLEAN :
             [host EXCEPT !.root = r, !.lower = l, !.prepared = p, !.base = b, !.live = v] \in Hosts
      BY DEF Hosts
    <2>2. ASSUME NEW r \in 0..MaxStack, NEW l \in 0..MaxStack, NEW reached \in BOOLEAN
          PROVE [host EXCEPT !.root = r, !.lower = l, !.prepared = @ /\ r = host.root,
                             !.base = @ /\ r > 0, !.live = @ /\ ~reached] \in Hosts
      BY <1>1, <2>1
    <2> DEFINE Left(r, l) ==
          LET reached == l > 0 \/ (r > 0 /\ host.prepared) IN
          Out(IF l = 0 /\ r = 0 THEN "ok" ELSE "fail",
              [host EXCEPT !.root = r, !.lower = l, !.prepared = @ /\ r = host.root,
                           !.base = @ /\ r > 0, !.live = @ /\ ~reached],
              job)
    <2>3. ASSUME NEW r \in 0..MaxStack, NEW l \in 0..MaxStack PROVE Fine(Left(r, l))
      <3>1. (l > 0 \/ (r > 0 /\ host.prepared)) \in BOOLEAN
        OBVIOUS
      <3> QED
        BY <2>2, <3>1, OutIsFine, ZenonT(60) DEF Outcomes
    <2>4. RemoveOverlay =
             { Left(r, l) : r \in UmountLeaves(host.root), l \in UmountLeaves(host.lower) }
      BY DEF RemoveOverlay
    <2>5. AllFine(LeaveOverlay)
      <3>1. \A r, l \in 0..MaxStack, p \in BOOLEAN :
               [host EXCEPT !.root = r, !.lower = l, !.prepared = p] \in Hosts
        BY DEF Hosts
      <3>2. ASSUME NEW r \in 0..MaxStack, NEW l \in 0..MaxStack
            PROVE  [host EXCEPT !.root = r, !.lower = l, !.prepared = @ /\ r = host.root] \in Hosts
        BY <1>1, <3>1
      <3> DEFINE Kept(r, l) ==
            Out("fail", [host EXCEPT !.root = r, !.lower = l, !.prepared = @ /\ r = host.root], job)
      <3>3. ASSUME NEW r \in 0..MaxStack, NEW l \in 0..MaxStack PROVE Fine(Kept(r, l))
        BY <3>2, OutIsFine DEF Outcomes
      <3>4. LeaveOverlay = { Kept(r, l) : r \in UmountLeaves(host.root) \cup {host.root},
                                         l \in UmountLeaves(host.lower) \cup {host.lower} }
        BY DEF LeaveOverlay
      <3> HIDE DEF Kept
      <3> QED
        BY <1>1, <1>2, <3>3, <3>4 DEF AllFine
    <2> HIDE DEF Left
    <2>6. AllFine(RemoveOverlay)
      BY <1>1, <1>2, <2>3, <2>4 DEF AllFine
    <2> QED
      BY <2>5, <2>6 DEF AllFine, CleanupOverlay
  <1>8. ASSUME NEW count \in 0..MaxStack PROVE AllFine(Mountpoint(count))
    <2>1. AllFine(Verdict(count > 0))
      BY UnchangedIsFine DEF Verdict, Outcomes
    <2>2. AllFine(Unchanged({"fail"}))
      BY UnchangedIsFine DEF Outcomes
    <2> QED
      BY <2>1, <2>2 DEF AllFine, Mountpoint
  <1> QED
    BY <1>1, <1>3, <1>4, <1>5, <1>6, <1>7, <1>8

LEMMA HelperIsFine ==
    ASSUME MachineTypeOK PROVE AllFine(InstalledToLive) /\ AllFine(Cleanup)
  <1>1. AllFine(InstalledToLive)
    <2> DEFINE Part(c) == Out("fail", [host EXCEPT !.conf = c], job)
               Done(c) == Out("ok", [[host EXCEPT !.conf = c] EXCEPT !.prepared = TRUE], job)
    <2>1. ASSUME NEW c \in {"none", "empty", "whole"} PROVE Fine(Part(c)) /\ Fine(Done(c))
      <3>1. [host EXCEPT !.conf = c] \in Hosts /\ [[host EXCEPT !.conf = c] EXCEPT !.prepared = TRUE] \in Hosts
        BY DEF MachineTypeOK, Hosts
      <3> QED
        BY <3>1, OutIsFine DEF Outcomes, MachineTypeOK
    <2>2. \A q \in InstalledToLive :
             q \in Failing \/ \E c \in {"none", "empty", "whole"} : q = Done(c) \/ q = Part(c)
      BY DEF InstalledToLive
    <2>3. AllFine(Failing)
      BY OnHostIsFine DEF MachineTypeOK
    <2> HIDE DEF Part, Done
    <2> QED
      BY <2>1, <2>2, <2>3 DEF AllFine
  <1>2. AllFine(Cleanup)
    <2> DEFINE unmounted == [host EXCEPT !.root = 0, !.prepared = FALSE]
               Cleaned(h) == [h EXCEPT !.conf = "none"]
    <2>1. unmounted \in Hosts
      <3>1. \A n \in 0..MaxStack, b \in BOOLEAN : [host EXCEPT !.root = n, !.prepared = b] \in Hosts
        BY DEF MachineTypeOK, Hosts
      <3>2. 0 \in 0..MaxStack /\ FALSE \in BOOLEAN
        OBVIOUS
      <3> QED
        BY ONLY <3>1, <3>2
    <2>2. host \in Hosts /\ \A h \in Hosts : Cleaned(h) \in Hosts
      BY DEF MachineTypeOK, Hosts
    <2> HIDE DEF unmounted
    <2>3. ASSUME NEW h \in Hosts PROVE Fine(Out("fail", h, job)) /\ AllFine(OnHost(Cleaned(h)))
      BY <2>2, OutIsFine, OnHostIsFine DEF Outcomes, MachineTypeOK
    <2>4. \A q \in Cleanup : \E h \in {host, unmounted} : q \in OnHost(Cleaned(h)) \/ q = Out("fail", h, job)
      BY DEF Cleanup, unmounted
    <2> HIDE DEF Cleaned
    <2> QED
      BY <2>1, <2>2, <2>3, <2>4 DEF AllFine
  <1> QED
    BY <1>1, <1>2

LEMMA ImageIsFine ==
    ASSUME MachineTypeOK
    PROVE  /\ AllFine(Squash) /\ AllFine(PackInitrd) /\ AllFine(Xorriso) /\ AllFine(XorrisoInPlace)
           /\ AllFine(Publish) /\ AllFine(Isohybrid)
  <1>1. \A p \in Parts : /\ Fine(Out("fail", host, [job EXCEPT !.linuxfs = p]))
                         /\ Fine(Out("fail", host, [job EXCEPT !.initrd = p]))
                         /\ Fine(Out("ok", host, [job EXCEPT !.initrd = p]))
                         /\ Fine(Out("fail", host, [job EXCEPT !.tmp = p]))
    BY PartIsFine, OutIsFine DEF Outcomes, MachineTypeOK
  <1>2. \A p \in Parts : /\ AllFine(OnJob([job EXCEPT !.linuxfs = p]))
                         /\ AllFine(OnJob([job EXCEPT !.initrd = p]))
                         /\ AllFine(OnJob([job EXCEPT !.tmp = p]))
    BY PartIsFine, OnJobIsFine
  <1>3. \A p \in Parts : [host EXCEPT !.final = p] \in Hosts
    BY DEF MachineTypeOK, Hosts, Parts
  <1>4. \A p \in Parts : /\ AllFine(OnHost([host EXCEPT !.final = p]))
                         /\ Fine(Out("fail", [host EXCEPT !.final = p], job))
    BY <1>3, OnHostIsFine, OutIsFine DEF Outcomes, MachineTypeOK
  <1>5. AllFine(Failing)
    BY OnHostIsFine DEF MachineTypeOK
  <1>6. {"partial", "good", "none"} = Parts /\ Burnt \in Parts /\ job.tmp \in Parts
    BY DEF Parts, Burnt, MachineTypeOK, Jobs
  <1>7. AllFine(Squash) /\ AllFine(PackInitrd)
    BY <1>1, <1>2, <1>6 DEF AllFine, Squash, PackInitrd
  <1>8. AllFine(Xorriso) /\ AllFine(XorrisoInPlace)
    BY <1>1, <1>2, <1>4, <1>6 DEF AllFine, Xorriso, XorrisoInPlace
  <1>9. AllFine(Publish)
    <2>1. Fine(Out("ok", [host EXCEPT !.final = job.tmp], [job EXCEPT !.tmp = "none"]))
      BY <1>3, <1>6, PartIsFine, OutIsFine DEF Outcomes
    <2> QED
      BY <1>5, <2>1 DEF AllFine, Publish
  <1>10. AllFine(Isohybrid)
    BY <1>4, <1>6, MaybeIsFine DEF AllFine, Isohybrid, Outcomes
  <1> QED
    BY <1>7, <1>8, <1>9, <1>10

LEMMA CopiesAreFine ==
    ASSUME MachineTypeOK
    PROVE  AllFine(ExtractTemplate) /\ AllFine(PopulateInitrd) /\ AllFine(CopyModules)
  <1>1. job.work["W1"] \in {"gone", "bare", "husk", "workspace"}
    BY DEF MachineTypeOK, Jobs
  <1>2. AllFine(ExtractTemplate)
    BY <1>1, WorkIsFine, OnJobIsFine DEF ExtractTemplate
  <1>3. AllFine(PopulateInitrd)
    BY <1>1, WorkIsFine, OnJobIsFine, OutIsFine, ZenonT(60) DEF AllFine, PopulateInitrd, Outcomes, MachineTypeOK
  <1>4. AllFine(CopyModules)
    BY MaybeIsFine, UnchangedIsFine DEF CopyModules, Outcomes
  <1> QED
    BY <1>2, <1>3, <1>4

LEMMA ResultsAreFine ==
    ASSUME MachineTypeOK, NEW op PROVE AllFine(Results(op)) /\ AllFine(Unchanged({Refused}))
  <1>1. \A outcomes \in SUBSET Outcomes : AllFine(Unchanged(outcomes)) /\ AllFine(Maybe(outcomes))
    BY UnchangedIsFine, MaybeIsFine
  <1>2. {"ok"} \in SUBSET Outcomes /\ {"fail"} \in SUBSET Outcomes /\ {Refused} \in SUBSET Outcomes
    BY DEF Outcomes, Refused
  <1>3. AllFine(OnHost([host EXCEPT !.base = TRUE]))
    <2>1. [host EXCEPT !.base = TRUE] \in Hosts
      BY DEF MachineTypeOK, Hosts
    <2> QED
      BY <2>1, OnHostIsFine
  <1>4. AllFine(OnJob([job EXCEPT !.kernel = "good"]))
        /\ Fine(Out("fail", host, [job EXCEPT !.kernel = "partial"]))
    BY PartIsFine, OnJobIsFine, OutIsFine DEF Parts, Outcomes, MachineTypeOK
  <1>5. AllFine(OnJob([job EXCEPT !.iso2 = job.linuxfs, !.linuxfs = "none"]))
    <2>1. [job EXCEPT !.iso2 = job.linuxfs, !.linuxfs = "none"] \in Jobs
          /\ [job EXCEPT !.iso2 = job.linuxfs, !.linuxfs = "none"].work = job.work
      BY DEF MachineTypeOK, Jobs, Parts
    <2> QED
      BY <2>1, OnJobIsFine
  <1>6. \A holds \in BOOLEAN : AllFine(Verdict(holds))
    BY <1>1, <1>2 DEF Verdict
  <1>7. AllFine(Verdict(job.initrd # "none")) /\ AllFine(Verdict(job.linuxfs # "none"))
    BY <1>1, <1>2 DEF Verdict
  <1>8. AllFine(OnJob([job EXCEPT !.kernel = "good"])
                \cup (IF world.faults THEN {Out("fail", host, [job EXCEPT !.kernel = "partial"])}
                                      ELSE {}))
    BY <1>4 DEF AllFine
  <1> QED
    BY <1>1, <1>2, <1>3, <1>5, <1>7, <1>8, MountPointsAreFine, HelperIsFine, ImageIsFine, CopiesAreFine,
       WorldsAssumption DEF Results

LEMMA DeniableIsFine == ASSUME MachineTypeOK PROVE AllFine(Deniable)
  BY ResultsAreFine DEF Deniable, AllFine
----------------------------------------------------------------------------
(* The plans. *)

StageNames == WorkStages \cup {"checkEnoughSpace", "abort"}

LEMMA StagesAreStages == ASSUME NEW c \in Choices PROVE Stages(c) \in Seq(StageNames)
  <1>1. /\ <<"setupEnv">> \in Seq(StageNames) /\ <<>> \in Seq(StageNames)
        /\ <<"checkEnoughSpace">> \in Seq(StageNames) /\ <<"editBootMenu">> \in Seq(StageNames)
        /\ <<"copyNewIso", "savePackageList">> \in Seq(StageNames)
        /\ <<"createIso">> \in Seq(StageNames)
    BY DEF StageNames, WorkStages
  <1> QED
    BY <1>1 DEF Stages, Optional

LEMMA PlansAreKnown ==
    ASSUME NEW c \in ChoiceSet, NEW p \in Probes
    PROVE  /\ \A stage \in WorkStages : WorkPlan(stage, c, p) \in Plans
           /\ PlanSetupEnv(c, p) \in Plans /\ PlanCleanup(p) \in Plans
  <1>1. \A stage \in WorkStages : WorkPlan(stage, c, p) \in Plans
    BY RunnerAssumption DEF RunnerAssumption, RunnerPlans
  <1>2. WorkPlan("setupEnv", c, p) = PlanSetupEnv(c, p)
    BY DEF WorkPlan
  <1>3. PlanCleanup(p) \in Plans
    BY RunnerAssumption DEF RunnerAssumption, RunnerPlans
  <1> QED
    BY <1>1, <1>2, <1>3 DEF WorkStages
----------------------------------------------------------------------------
(* The runner. *)

(* No command is under way that could make a directory where the run has none. *)
DirOK ==
    /\ workDir = "none" => \A d \in Dirs : job.work[d] = "gone"
    /\ workDir = "W1" => job.work["W2"] = "gone"
    /\ phase = "checks" => workDir = "none"
    /\ phase \in {"embed", "install", "extract", "probe"} => workDir = "W1"
    /\ phase \in {"reprobe", "replan"} => workDir = "W2"
    /\ phase \in {"kill", "interrupt"} => stop
    /\ phase = "interrupt" => status \in {"running", "returned"}
    /\ workDir = "none" /\ phase = "head" => todo \in {<<"abort">>, <<"cleanUp", "abort">>}
    /\ workDir = "none" /\ phase = "plan" =>
          todo = <<"abort">> /\ plan = <<>> /\ status \in {"running", "returned"}

RunInv == ExecutorInv /\ RunTypeOK /\ DirOK /\ ReturnRemovesWorkDir

RunStep == [RunNext /\ UNCHANGED world]_<<runVars, world>>

USE RunnerAssumption DEF RunnerAssumption

LEMMA WorldIsKnown ==
    ASSUME RunInv
    PROVE  world \in Worlds /\ world.choices \subseteq ChoiceSet /\ ChoiceSet \subseteq Choices
           /\ world.runs \in Nat
  BY ChoiceAssumption DEF RunInv, RunTypeOK, MachineTypeOK, ChoiceAssumption

LEMMA ProbedAreProbes == ASSUME RunInv PROVE Probed \subseteq Probes
  <1>1. NoProbes \in Probes
    BY DEF NoProbes, Probes
  <1>2. \A r, l \in BOOLEAN : [NoProbes EXCEPT !.root = r, !.lower = l] \in Probes
    BY <1>1 DEF Probes
  <1> DEFINE Seen(count) ==
        {count > 0} \cup (IF "mountpoint" \in world.refusals THEN {FALSE} ELSE {})
  <1> DEFINE Probing(r, l) == [NoProbes EXCEPT !.root = r, !.lower = l]
  <1>3. ASSUME NEW count \in Nat PROVE Seen(count) \subseteq BOOLEAN
    <2>1. CASE count > 0
      <3>1. (count > 0) = TRUE
        BY <2>1
      <3> QED
        BY <3>1
    <2>2. CASE ~(count > 0)
      <3>1. (count > 0) = FALSE
        BY <2>2
      <3> QED
        BY <3>1
    <2> QED
      BY <2>1, <2>2
  <1>4. Probed = { Probing(r, l) : r \in Seen(host.root), l \in Seen(host.lower) }
    BY DEF Probed
  <1>5. host.root \in Nat /\ host.lower \in Nat
    BY DEF RunInv, RunTypeOK, MachineTypeOK, Hosts
  <1>6. \A r, l \in BOOLEAN : Probing(r, l) \in Probes
    BY <1>2
  <1> HIDE DEF Seen, Probing
  <1> QED
    BY <1>3, <1>4, <1>5, <1>6

LEMMA RunStepIsExecutorStep ==
    ASSUME RunInv, RunStep PROVE [ExecutorNext]_executorVars
  <1> USE DEF FlagCleared, ExecutorNext, Step1, End
  <1>1. CASE UNCHANGED <<runVars, world>>
    BY <1>1 DEF runVars
  <1>2. CASE Launch \/ Kill \/ SignalKills \/ Denied
    BY <1>2 DEF Launch, Kill, SignalKills, Denied, AtSpaceCheck, Vanish
  <1>3. CASE AskedToStop \/ AllRunsDone \/ \E c \in world.choices : Begin(c)
    BY <1>3 DEF AskedToStop, AllRunsDone, Begin, runVars
  <1>4. ASSUME Progress PROVE [ExecutorNext]_executorVars
    <2>1. CASE CompressionUnsupported \/ CreateEmbedded \/ ExtractAssets \/ PrepareFails
               \/ ProbeAndPlan \/ \E snapshotOk, tempOk \in BOOLEAN : CheckDirectories(snapshotOk, tempOk)
      BY <2>1 DEF CompressionUnsupported, CheckDirectories, CreateEmbedded, ExtractAssets, PrepareFails,
                  ProbeAndPlan
    <2>2. CASE StageLoopEnds \/ StopSeenAtStage \/ PlannedAbort \/ SpaceSuffices \/ SpaceRunsOut
               \/ MoveWorkDir \/ CallReturns \/ InterruptCleanupReturns \/ Leave
      BY <2>2 DEF StageLoopEnds, StopSeenAtStage, PlannedAbort, SpaceSuffices, SpaceRunsOut, MoveWorkDir,
                  CallReturns, InterruptCleanupReturns, Leave
    <2>3. CASE InstallSignalCleanup \/ ClearSignalCleanup
      BY <2>3 DEF InstallSignalCleanup, ClearSignalCleanup
    <2>4. CASE RunStage
      <3>1. choices \in ChoiceSet /\ probes \in Probes
        BY WorldIsKnown DEF RunInv, RunTypeOK
      <3> QED
        BY <2>4, <3>1, PlansAreKnown DEF RunStage
    <2>5. CASE SetupEnvAgain
      <3>1. choices \in ChoiceSet
        BY WorldIsKnown DEF RunInv, RunTypeOK
      <3> QED
        BY <2>5, <3>1, PlansAreKnown, ProbedAreProbes DEF SetupEnvAgain
    <2>6. CASE InterruptCleanup
      <3>1. \A c, b \in BOOLEAN : [NoProbes EXCEPT !.conf = c, !.base = b] \in Probes
        BY DEF NoProbes, Probes
      <3>2. host.base \in BOOLEAN /\ (host.conf # "none") \in BOOLEAN
        BY DEF RunInv, RunTypeOK, MachineTypeOK, Hosts
      <3>3. choices \in ChoiceSet
        BY WorldIsKnown DEF RunInv, RunTypeOK
      <3>4. [NoProbes EXCEPT !.conf = host.conf # "none", !.base = host.base] \in Probes
        BY ONLY <3>1, <3>2
      <3> QED
        BY <2>6, <3>3, <3>4, PlansAreKnown DEF InterruptCleanup
    <2>7. CASE CallGoesOn
      BY <2>7 DEF CallGoesOn, CallStep
    <2>8. CASE CommandEnds
      <3>1. MachineTypeOK
        BY DEF RunInv, RunTypeOK
      <3> QED
        BY <2>8, <3>1, ResultsAreFine, DeniableIsFine DEF CommandEnds, CallStep, AllFine, Fine
    <2>9. CASE FailedCheckCommandEnds
      <3>1. MachineTypeOK /\ {"ok", "fail", Refused} \subseteq Outcomes
        BY DEF RunInv, RunTypeOK, Refused, Outcomes
      <3> QED
        BY <2>9, <3>1, ResultsAreFine DEF FailedCheckCommandEnds, CallStep, AllFine, Fine
    <2> QED
      BY <1>4, <2>1, <2>2, <2>3, <2>4, <2>5, <2>6, <2>7, <2>8, <2>9 DEF Progress
  <1> QED
    BY <1>1, <1>2, <1>3, <1>4 DEF RunStep, RunNext

LEMMA RunTypesKept == ASSUME RunInv, RunStep, ExecutorTypeOK' PROVE RunTypeOK'
  <1> USE DEF RunInv, RunTypeOK, MachineTypeOK, Step1, End, machineVars
  <1>1. world.choices \subseteq Choices /\ world.runs \in Nat /\ {"gone"} \subseteq {"gone", "bare"}
    BY WorldIsKnown
  <1>2. CASE UNCHANGED <<runVars, world>>
    BY <1>2 DEF runVars, runnerVars
  <1>3. CASE Launch \/ Kill \/ SignalKills \/ Denied \/ AskedToStop \/ AllRunsDone
    BY <1>3, ZenonT(60) DEF Launch, Kill, SignalKills, Denied, AtSpaceCheck, Vanish,
         AskedToStop, AllRunsDone, runVars, runnerVars,
                RunStep
  <1>4. ASSUME NEW c \in world.choices, Begin(c), world' = world PROVE RunTypeOK'
    <2>1. NewJob \in Jobs /\ <<>> \in Seq(StageNames) /\ NoProbes \in Probes
      BY DEF NewJob, Jobs, Parts, NoProbes, Probes
    <2>2. [host EXCEPT !.final = IF @ = "good" THEN "old" ELSE @] \in Hosts
      BY DEF Hosts
    <2>3. runs + 1 \in 0..world.runs /\ c \in world.choices
      BY <1>1, <1>4 DEF Begin
    <2> QED
      BY <1>4, <2>1, <2>2, <2>3 DEF Begin, StageNames
  <1>5. /\ RejectedStages \in Seq(StageNames) /\ MisplacedStages \in Seq(StageNames)
        /\ <<>> \in Seq(StageNames)
    BY DEF RejectedStages, MisplacedStages, StageNames, WorkStages
  <1>6. ASSUME Progress, world' = world PROVE RunTypeOK'
    <2>1. CASE CompressionUnsupported \/ PrepareFails
      BY <1>5, <1>6, <2>1 DEF CompressionUnsupported, PrepareFails, StageNames
    <2>2. CASE ProbeAndPlan
      BY <1>1, <1>6, <2>2, ProbedAreProbes, StagesAreStages DEF ProbeAndPlan, StageNames
    <2>3. ASSUME NEW snapshotOk \in BOOLEAN, NEW tempOk \in BOOLEAN, CheckDirectories(snapshotOk, tempOk)
          PROVE  RunTypeOK'
      BY <1>5, <1>6, <2>3, WorkIsFine DEF CheckDirectories, StageNames
    <2>4. CASE CreateEmbedded \/ ExtractAssets
      BY <1>6, <2>4, WorkIsFine DEF CreateEmbedded, ExtractAssets
    <2>5. HandleSignalStop => job' \in Jobs /\ host' \in Hosts
      <3>1. job.work["W1"] \in {"gone", "bare", "husk", "workspace"}
        BY DEF Jobs
      <3> QED
        BY <3>1, WorkIsFine DEF HandleSignalStop, DropEmbedded
    <2>6. CASE InstallSignalCleanup \/ ClearSignalCleanup
      BY <1>6, <2>5, <2>6 DEF InstallSignalCleanup, ClearSignalCleanup
    <2>7. CASE StageLoopEnds \/ StopSeenAtStage \/ PlannedAbort \/ SpaceRunsOut \/ CallReturns
      BY <1>6, <2>7 DEF StageLoopEnds, StopSeenAtStage, PlannedAbort, SpaceRunsOut, CallReturns, Closing
    <2>8. CASE SpaceSuffices \/ RunStage
      <3>1. Tail(todo) \in Seq(StageNames)
        BY <2>8 DEF SpaceSuffices, AtSpaceCheck, RunStage, StageNames
      <3> QED
        BY <1>6, <2>8, <3>1 DEF SpaceSuffices, AtSpaceCheck, RunStage, NextStage, StageNames
    <2>9. CASE MoveWorkDir
      <3>1. Tail(todo) \in Seq(StageNames)
        BY <2>9 DEF MoveWorkDir, AtSpaceCheck, StageNames
      <3>2. [job EXCEPT !.work = [@ EXCEPT !["W1"] = "gone", !["W2"] = "bare"]] \in Jobs
        BY DEF Jobs
      <3> QED
        BY <1>6, <2>9, <3>1, <3>2 DEF MoveWorkDir, NextStage, StageNames
    <2>10. CASE SetupEnvAgain \/ InterruptCleanup
      BY <1>6, <2>10 DEF SetupEnvAgain, InterruptCleanup
    <2>11. CASE CallGoesOn \/ InterruptCleanupReturns
      BY <1>6, <2>5, <2>11 DEF CallGoesOn, InterruptCleanupReturns, runnerVars, Closing
    <2>12. CASE CommandEnds
      BY <1>6, <2>12, ResultsAreFine, DeniableIsFine DEF CommandEnds, AllFine, Fine
    <2>13. CASE FailedCheckCommandEnds
      BY <1>6, <2>13, ResultsAreFine, ZenonT(60) DEF FailedCheckCommandEnds, AllFine, Fine
    <2>14. CASE Leave
      <3>1. workDir \in Dirs => [job EXCEPT !.work[workDir] = "gone"] \in Jobs
        BY DEF Jobs
      <3> QED
        BY <1>6, <2>14, <3>1 DEF Leave
    <2> QED
      BY <1>6, <2>1, <2>2, <2>3, <2>4, <2>6, <2>7, <2>8, <2>9, <2>10, <2>11, <2>12, <2>13, <2>14
         DEF Progress
  <1> QED
    BY <1>2, <1>3, <1>4, <1>6 DEF RunStep, RunNext

LEMMA DirKept == ASSUME RunInv, RunStep PROVE DirOK' /\ ReturnRemovesWorkDir'
  <1> USE DEF RunInv, RunTypeOK, MachineTypeOK, DirOK, ReturnRemovesWorkDir, Step1, End, machineVars
  <1> DEFINE Goal == DirOK /\ ReturnRemovesWorkDir
  <1>1. CASE UNCHANGED <<runVars, world>>
    BY <1>1 DEF runVars, runnerVars, executorVars, callVars
  <1>2. CASE Launch \/ Kill \/ SignalKills \/ Denied
    BY <1>2 DEF Launch, Kill, SignalKills, Denied, AtSpaceCheck, Vanish, Busy, Restart
  <1>3. CASE AskedToStop \/ AllRunsDone
    BY <1>3 DEF AskedToStop, RequestStop, AllRunsDone, Busy, runVars, runnerVars, executorVars, callVars
  <1>4. ASSUME NEW c \in world.choices, Begin(c) PROVE Goal'
    BY <1>4 DEF Begin, NewJob, executorVars, callVars
  <1>5. ASSUME Progress PROVE Goal'
    <2> USE DEF executorVars, callVars
    <2>1. CASE CompressionUnsupported \/ PrepareFails
      BY <2>1 DEF CompressionUnsupported, PrepareFails, RejectedStages
    <2>2. CASE ProbeAndPlan
      BY <2>2 DEF ProbeAndPlan
    <2>3. ASSUME NEW snapshotOk \in BOOLEAN, NEW tempOk \in BOOLEAN, CheckDirectories(snapshotOk, tempOk)
          PROVE  Goal'
      BY <2>3, WorkIsFine DEF CheckDirectories, MisplacedStages
    <2>4. CASE CreateEmbedded \/ ExtractAssets
      BY <2>4, WorkIsFine DEF CreateEmbedded, ExtractAssets
    <2>5. HandleSignalStop => /\ job'.work["W2"] = job.work["W2"]
                              /\ job.work["W1"] = "gone" => job'.work["W1"] = "gone"
      <3>1. job.work["W1"] \in {"gone", "bare", "husk", "workspace"}
        BY DEF Jobs
      <3> QED
        BY <3>1, WorkIsFine DEF HandleSignalStop, DropEmbedded
    <2>6. CASE InstallSignalCleanup \/ ClearSignalCleanup
      BY <2>5, <2>6 DEF InstallSignalCleanup, ClearSignalCleanup, FlagCleared, ResetStop
    <2>7. CASE StageLoopEnds \/ StopSeenAtStage \/ PlannedAbort \/ SpaceRunsOut
      BY <2>7 DEF StageLoopEnds, StopSeenAtStage, PlannedAbort, SpaceRunsOut, AtSpaceCheck, Closing
    <2>8. CASE CallReturns
      BY <2>8 DEF CallReturns, Closing
    <2>9. CASE SpaceSuffices
      BY <2>9 DEF SpaceSuffices, AtSpaceCheck, Stage, NextStage
    <2>10. CASE RunStage
      <3>1. workDir = "none" => todo = <<"cleanUp", "abort">>
        BY <2>10 DEF RunStage, Stage, WorkStages
      <3>2. workDir = "none" => Stage = "cleanUp" /\ Tail(todo) = <<"abort">>
        <4>1. Head(<<"cleanUp", "abort">>) = "cleanUp" /\ Tail(<<"cleanUp", "abort">>) = <<"abort">>
          OBVIOUS
        <4> QED
          BY ONLY <3>1, <4>1 DEF Stage
      <3>3. workDir = "none" => WorkPlan(Stage, choices, probes) = <<>>
        BY <3>2 DEF WorkPlan
      <3> QED
        BY <2>10, <3>2, <3>3 DEF RunStage, NextStage, Call
    <2>11. CASE MoveWorkDir
      BY <2>11 DEF MoveWorkDir, NextStage
    <2>12. CASE SetupEnvAgain \/ InterruptCleanup
      BY <2>12 DEF SetupEnvAgain, InterruptCleanup, Call
    <2>13. CASE CallGoesOn
      <3>1. plan = <<>> => ~HeadStart
        BY DEF ExecutorTypeOK, HeadStart
      <3>2. CASE (HeadEnd \/ HeadStart) /\ UNCHANGED machineVars
        BY <2>13, <3>1, <3>2 DEF CallGoesOn, HeadEnd, HeadStart, runnerVars
      <3>3. CASE HeadStop /\ HandleSignalStop
        BY <2>5, <2>13, <3>3 DEF CallGoesOn, HeadStop, runnerVars
      <3> QED
        BY <2>13, <3>2, <3>3 DEF CallGoesOn
    <2>14. CASE InterruptCleanupReturns
      BY <2>5, <2>14 DEF InterruptCleanupReturns, Closing
    <2>15. CASE CommandEnds
      <3>1. job'.work["W2"] = job.work["W2"] /\ stop' = stop /\ plan' = plan /\ status = "busy"
        BY <2>15, ResultsAreFine, DeniableIsFine DEF CommandEnds, AllFine, Fine, Finish
      <3>2. phase \in {"plan", "replan"} /\ workDir # "none" /\ (phase = "replan" => workDir = "W2")
        BY <2>15 DEF CommandEnds, InCall
      <3> QED
        BY <2>15, <3>1, <3>2 DEF CommandEnds
    <2>16. CASE FailedCheckCommandEnds
      <3>1. job'.work["W2"] = job.work["W2"] /\ stop' = stop /\ status \in {"chown", "overlay"}
        BY <2>16, ResultsAreFine, ZenonT(60) DEF FailedCheckCommandEnds, AllFine, Fine, FailedCheckChown,
           FailedCheckOverlay
      <3>2. phase \in {"plan", "replan"} /\ workDir # "none" /\ (phase = "replan" => workDir = "W2")
        BY <2>16, <3>1 DEF FailedCheckCommandEnds, InCall
      <3> QED
        BY <2>16, <3>1, <3>2 DEF FailedCheckCommandEnds
    <2>17. CASE Leave
      <3>1. \A d \in Dirs : /\ [job EXCEPT !.work[d] = "gone"].work[d] = "gone"
                            /\ \A e \in Dirs \ {d} : [job EXCEPT !.work[d] = "gone"].work[e] = job.work[e]
        BY DEF Jobs
      <3> QED
        BY <2>17, <3>1 DEF Leave
    <2> QED
      BY <1>5, <2>1, <2>2, <2>3, <2>4, <2>6, <2>7, <2>8, <2>9, <2>10, <2>11, <2>12, <2>13, <2>14, <2>15,
         <2>16, <2>17 DEF Progress
  <1> QED
    BY <1>1, <1>2, <1>3, <1>4, <1>5 DEF RunStep, RunNext

LEMMA RunStarts == RunInit => RunInv
  <1> SUFFICES ASSUME RunInit PROVE RunInv
    OBVIOUS
  <1>1. ExecutorInv
    BY ExecutorInitInv DEF RunInit
  <1>2. NewHost \in Hosts /\ NewJob \in Jobs /\ NoProbes \in Probes /\ <<>> \in Seq(StageNames)
        /\ \A d \in Dirs : NewJob.work[d] = "gone"
    BY DEF NewHost, Hosts, NewJob, Jobs, Parts, NoProbes, Probes
  <1>3. RunTypeOK
    <2>1. world \in Worlds /\ choices \in world.choices /\ 0 \in 0..world.runs
      BY DEF RunInit
    <2> QED
      BY <1>1, <1>2, <2>1 DEF RunInit, ExecutorInv, RunTypeOK, MachineTypeOK, StageNames
  <1>4. DirOK /\ ReturnRemovesWorkDir
    BY <1>2 DEF RunInit, DirOK, ReturnRemovesWorkDir
  <1> QED
    BY <1>1, <1>3, <1>4 DEF RunInv

(* The invariant above holds of every sequence of runs. *)
THEOREM RunIsKept == RunSpec => []RunInv
  <1>1. RunInv /\ RunStep => RunInv'
    BY RunStepIsExecutorStep, ExecutorNextInv, RunTypesKept, DirKept DEF RunInv, ExecutorInv
  <1> QED
    BY RunStarts, <1>1, PTL DEF RunSpec, RunStep

(* What the machine, the run and its settings may be, whatever the commands do. *)
THEOREM RunTypes == RunSpec => []RunTypeOK
  BY RunIsKept, PTL DEF RunInv

(***************************************************************************)
(* Every call the runner makes is a behaviour of the executor: it hands    *)
(* over only plans of the planners, and touches nothing of the executor's  *)
(* own in between but the stop flag, and that only between two calls.      *)
(***************************************************************************)
THEOREM RunImplementsExecutor == RunSpec => CallsAreExecutorBehaviours
  <1>1. RunInit => ExecutorInit
    BY DEF RunInit
  <1>2. RunInv /\ RunStep => [ExecutorNext]_executorVars
    BY RunStepIsExecutorStep
  <1> QED
    BY RunIsKept, <1>1, <1>2, PTL DEF RunSpec, RunStep, CallsAreExecutorBehaviours, ExecutorSpec

(***************************************************************************)
(* So what is proved of WorkCppExecutor::run holds inside every run: a     *)
(* success it reports to the runner is one, and a stop is obeyed before    *)
(* the next step.                                                          *)
(***************************************************************************)
THEOREM RunKeepsExecutor ==
    RunSpec => [](SuccessMeansRequiredDone /\ StopBoundsWork /\ AbortedPlanNeverSucceeds)
  BY RunImplementsExecutor, ExecutorSuccess, ExecutorStop, ExecutorAborts, PTL
     DEF CallsAreExecutorBehaviours

(***************************************************************************)
(* runFromSettings returns with its work directory removed on every path:  *)
(* no command is under way in a run that has none, and handleSignalStop    *)
(* makes none.                                                             *)
(***************************************************************************)
THEOREM RunRemovesWorkDir == RunSpec => []ReturnRemovesWorkDir
  BY RunIsKept, PTL DEF RunInv
----------------------------------------------------------------------------
(***************************************************************************)
(* The plans.                                                              *)
(***************************************************************************)
SetupOps ==
    {"check", "mountpoint-boot", "datetime_log", "mkdir-overlay", "mountpoint-root", "umount-root",
     "mountpoint-lower", "umount-lower", "bind-lower", "mount-overlay", "test-etc", "test-passwd",
     "mkdir-stamp", "touch-stamp", "installed-to-live", "embed_installer"}
ImageOps ==
    {"check", "mksquashfs", "test-linuxfs", "move-linuxfs", "md5-linuxfs", "cleanup", "rm-iso.tmp",
     "xorriso", "publish-iso", "fsync-iso", "isohybrid", "md5-iso"}
Steps == [kind : Kinds, op : SetupOps \cup ImageOps]
Ops(s) == { s[i].op : i \in 1..Len(s) }

(* Every way to make a step of the plans makes a step with that command. *)
LEMMA StepsAreSteps ==
    \A op \in SetupOps \cup ImageOps :
        /\ Line(op) \in Steps /\ Strict(op) \in Steps /\ Tolerant(op) \in Steps
        /\ Sure(op) \in Steps /\ Embed(op) \in Steps /\ Abort(op) \in Steps
        /\ CheckRoot \in Steps /\ CheckLine \in Steps
        /\ Line(op).op = op /\ Strict(op).op = op /\ Tolerant(op).op = op
        /\ Sure(op).op = op /\ Embed(op).op = op /\ Abort(op).op = op
        /\ CheckRoot.op = "check" /\ CheckLine.op = "check"
  <1>1. \A kind \in Kinds, op \in SetupOps \cup ImageOps : Step(kind, op) \in Steps /\ Step(kind, op).op = op
    BY DEF Steps, Step
  <1>2. "line" \in Kinds /\ "strict" \in Kinds /\ "tolerant" \in Kinds /\ "sure" \in Kinds
        /\ "embed" \in Kinds /\ "abort" \in Kinds /\ "checkRoot" \in Kinds /\ "checkLine" \in Kinds
    BY DEF Kinds, CommandKinds, RootKinds, CheckKinds
  <1>3. "check" \in SetupOps
    BY DEF SetupOps
  <1> QED
    BY <1>1, <1>2, <1>3 DEF Line, Strict, Tolerant, Sure, Embed, Abort, CheckRoot, CheckLine

(* Two pieces of a plan joined: the steps of the first, then those of the second. *)
LEMMA Joined ==
    ASSUME NEW s \in Seq(Steps), NEW t \in Seq(Steps)
    PROVE  /\ s \o t \in Seq(Steps) /\ Len(s \o t) = Len(s) + Len(t)
           /\ \A i \in 1..Len(s) : (s \o t)[i] = s[i]
           /\ \A i \in 1..Len(t) : (s \o t)[Len(s) + i] = t[i]
           /\ \A i \in 1..Len(s) + Len(t) :
                 (s \o t)[i] = IF i <= Len(s) THEN s[i] ELSE t[i - Len(s)]
           /\ Ops(s \o t) = Ops(s) \cup Ops(t)
  <1>1. /\ s \o t \in Seq(Steps) /\ Len(s \o t) = Len(s) + Len(t)
        /\ \A i \in 1..Len(s) + Len(t) : (s \o t)[i] = IF i <= Len(s) THEN s[i] ELSE t[i - Len(s)]
    BY ConcatProperties
  <1>2. Len(s) \in Nat /\ Len(t) \in Nat
    OBVIOUS
  <1>3. /\ \A i \in 1..Len(s) : i \in 1..Len(s) + Len(t) /\ (s \o t)[i] = s[i]
        /\ \A i \in 1..Len(t) : Len(s) + i \in 1..Len(s) + Len(t) /\ (s \o t)[Len(s) + i] = t[i]
    BY <1>1, <1>2
  <1>4. Ops(s \o t) \subseteq Ops(s) \cup Ops(t)
    BY <1>1, <1>2 DEF Ops
  <1>5. Ops(s) \subseteq Ops(s \o t) /\ Ops(t) \subseteq Ops(s \o t)
    <2>1. \A i \in 1..Len(s) : s[i].op \in Ops(s \o t)
      <3> TAKE i \in 1..Len(s)
      <3>1. i \in 1..Len(s \o t) /\ (s \o t)[i] = s[i]
        BY <1>1, <1>3
      <3> QED
        BY <3>1 DEF Ops
    <2>2. \A i \in 1..Len(t) : t[i].op \in Ops(s \o t)
      <3> TAKE i \in 1..Len(t)
      <3>1. Len(s) + i \in 1..Len(s \o t) /\ (s \o t)[Len(s) + i] = t[i]
        BY <1>1, <1>3
      <3> QED
        BY <3>1 DEF Ops
    <2> QED
      BY <2>1, <2>2 DEF Ops
  <1> QED
    BY <1>1, <1>3, <1>4, <1>5

(* An optional piece of a plan is that piece or nothing. *)
LEMMA Optionally ==
    ASSUME NEW b \in BOOLEAN, NEW s \in Seq(Steps)
    PROVE  /\ Optional(b, s) \in Seq(Steps) /\ Ops(Optional(b, s)) \subseteq Ops(s)
           /\ b => Optional(b, s) = s
  BY DEF Optional, Ops

(* Every mount of the plan that finds its point mounted is preceded by a umount. *)
Cleared(s, umount, mount, there) ==
    \A q \in 1..Len(s) : s[q].op = mount =>
        /\ there => \E k \in 1..q - 1 : s[k].op = umount
        /\ \A k \in q + 1..Len(s) : s[k].op # mount

(* Joining keeps a mount behind the umount its point needs. *)
LEMMA JoinedCleared ==
    ASSUME NEW s \in Seq(Steps), NEW t \in Seq(Steps), NEW umount, NEW mount, NEW there \in BOOLEAN,
           \/ mount \notin Ops(t) /\ Cleared(s, umount, mount, there)
           \/ mount \notin Ops(s) /\ Cleared(t, umount, mount, there)
           \/ /\ mount \notin Ops(s) /\ (there => umount \in Ops(s))
              /\ Cleared(t, umount, mount, FALSE)
    PROVE  Cleared(s \o t, umount, mount, there)
  <1> USE DEF Cleared
  <1> DEFINE n == Len(s)
             st == s \o t
  <1>1. /\ Len(st) = n + Len(t) /\ n \in Nat /\ Len(t) \in Nat
        /\ \A i \in 1..n : st[i] = s[i]
        /\ \A i \in 1..n + Len(t) : st[i] = IF i <= n THEN s[i] ELSE t[i - n]
    BY Joined
  <1> SUFFICES ASSUME NEW q \in 1..Len(st), st[q].op = mount
               PROVE  /\ there => \E k \in 1..q - 1 : st[k].op = umount
                      /\ \A k \in q + 1..Len(st) : st[k].op # mount
    OBVIOUS
  <1> HIDE DEF n, st
  <1>2. CASE mount \notin Ops(t) /\ Cleared(s, umount, mount, there)
    <2>1. \A i \in 1..Len(t) : t[i].op # mount
      BY <1>2 DEF Ops
    <2>2. q \in 1..n /\ s[q].op = mount
      <3>1. q \in 1..n + Len(t) /\ q \in Nat
        BY <1>1
      <3>2. ~(q <= n) => q - n \in 1..Len(t) /\ st[q] = t[q - n]
        BY <1>1, <3>1
      <3> QED
        BY <1>1, <2>1, <3>1, <3>2
    <2> QED
      BY <1>1, <1>2, <2>1, <2>2 DEF n
  <1>3. CASE mount \notin Ops(s)
    <2>1. \A i \in 1..n : s[i].op # mount
      BY <1>3 DEF Ops, n
    <2>2. q - n \in 1..Len(t) /\ t[q - n].op = mount
      BY <1>1, <2>1
    <2>3. \A k \in q + 1..Len(st) : k - n \in (q - n) + 1..Len(t) /\ st[k] = t[k - n]
      BY <1>1, <2>2
    <2>4. \A k \in q + 1..Len(st) : st[k].op # mount
      <3>1. \A j \in 1..Len(t) : j > q - n => t[j].op # mount
        <4>1. \E there2 \in BOOLEAN : Cleared(t, umount, mount, there2)
          BY <1>3 DEF Ops
        <4> QED
          BY <2>2, <4>1
      <3>2. \A k \in q + 1..Len(st) : k - n > q - n /\ k - n \in 1..Len(t) /\ st[k] = t[k - n]
        BY <1>1, <2>2, <2>3
      <3> QED
        BY <3>1, <3>2
    <2>5. CASE Cleared(t, umount, mount, there)
      <3>1. \A k \in 1..(q - n) - 1 : n + k \in 1..q - 1 /\ st[n + k] = t[k]
        BY <1>1, <2>2, SMTT(30)
      <3> QED
        BY <2>2, <2>4, <2>5, <3>1, ZenonT(60)
    <2>6. CASE there => umount \in Ops(s)
      <3>1. \A k \in 1..n : k \in 1..q - 1 /\ st[k] = s[k]
        BY <1>1, <2>2
      <3> QED
        BY <2>4, <2>6, <3>1 DEF Ops, n
    <2> QED
      BY <1>2, <1>3, <2>5, <2>6
  <1> QED
    BY <1>2, <1>3

(***************************************************************************)
(* The commands that neither mount nor unmount the bind root, prepare it   *)
(* or squash it.                                                           *)
(***************************************************************************)
Stirs == {"umount-root", "mount-overlay", "installed-to-live", "cleanup", "cleanup_overlay", "mksquashfs"}

(* Step m tests the mounted root, step j prepares it, and all others around leave it. *)
SetupShape(p, m, j) ==
    /\ m \in Nat \ {0} /\ j \in Nat /\ m + 1 < j /\ j < Len(p)
    /\ p[m].kind = "line" /\ p[m].op = "test-passwd" /\ p[m + 1] = CheckLine
    /\ p[j].kind = "tolerant" /\ p[j].op = "installed-to-live" /\ p[j + 1] = CheckRoot
    /\ \A k \in (m + 2..j - 1) \cup (j + 2..Len(p)) : p[k].op \notin Stirs

(* The pieces of planSetupEnv, joined, have its shape. *)
LEMMA ShapeJoined ==
    ASSUME NEW a \in Seq(Steps), NEW b \in Seq(Steps), NEW c \in Seq(Steps), NEW d \in Seq(Steps),
           NEW n \in Nat, NEW l \in Nat, NEW r \in Nat, n = Len(a), l = Len(b), r = Len(d),
           n > 2, a[n] = CheckLine, a[n - 1].kind = "line", a[n - 1].op = "test-passwd",
           Ops(b) \cap Stirs = {}, Ops(d) \cap Stirs = {},
           Len(c) = 2, c[1].kind = "tolerant", c[1].op = "installed-to-live", c[2] = CheckRoot
    PROVE  SetupShape(((a \o b) \o c) \o d, n - 1, n + l + 1)
  <1>1. PICK ab \in Seq(Steps) : ab = a \o b
    BY Joined
  <1>2. PICK abc \in Seq(Steps) : abc = ab \o c
    BY Joined
  <1>3. PICK p \in Seq(Steps) : p = abc \o d
    BY Joined
  <1>4. Len(ab) = n + l /\ \A i \in 1..n + l : ab[i] = IF i <= n THEN a[i] ELSE b[i - n]
    BY <1>1, Joined
  <1>5. Len(abc) = n + l + 2
        /\ \A i \in 1..n + l + 2 : abc[i] = IF i <= n + l THEN ab[i] ELSE c[i - (n + l)]
    <2>1. /\ Len(abc) = Len(ab) + Len(c)
          /\ \A i \in 1..Len(ab) + Len(c) : abc[i] = IF i <= Len(ab) THEN ab[i] ELSE c[i - Len(ab)]
      BY ONLY <1>2, Joined, ab \in Seq(Steps), c \in Seq(Steps)
    <2> QED
      BY <1>4, <2>1
  <1>6. Len(p) = n + l + 2 + r
        /\ \A i \in 1..n + l + 2 + r : p[i] = IF i <= n + l + 2 THEN abc[i] ELSE d[i - (n + l + 2)]
    <2>1. /\ Len(p) = Len(abc) + Len(d)
          /\ \A i \in 1..Len(abc) + Len(d) : p[i] = IF i <= Len(abc) THEN abc[i] ELSE d[i - Len(abc)]
      BY <1>3, Joined
    <2> QED
      BY <1>5, <2>1
  <1>7. n > 2 /\ p[n - 1].kind = "line" /\ p[n - 1].op = "test-passwd" /\ p[n] = CheckLine
    <2>1. \A i \in {n - 1, n} : i \in 1..n + l /\ i <= n + l + 2 /\ p[i] = a[i]
      BY <1>4, <1>5, <1>6
    <2> QED
      BY <2>1
  <1>8. p[n + l + 1] = c[1] /\ p[n + l + 2] = c[2]
    <2>1. (n + l + 1) - (n + l) = 1 /\ (n + l + 2) - (n + l) = 2
          /\ n + l + 1 \in 1..n + l + 2 /\ n + l + 2 \in 1..n + l + 2
          /\ ~(n + l + 1 <= n + l) /\ ~(n + l + 2 <= n + l)
      BY ONLY n \in Nat, l \in Nat
    <2>2. \A i \in 1..n + l + 2 : i \in 1..n + l + 2 + r /\ i <= n + l + 2
      BY ONLY n \in Nat, l \in Nat, r \in Nat
    <2> QED
      BY <1>5, <1>6, <2>1, <2>2
  <1>9. \A k \in n + 1..n + l : p[k].op \notin Stirs
    <2> TAKE k \in n + 1..n + l
    <2>1. /\ k - n \in 1..l /\ k \in 1..n + l /\ ~(k <= n) /\ k <= n + l
          /\ k \in 1..n + l + 2 /\ k \in 1..n + l + 2 + r /\ k <= n + l + 2
      BY ONLY n \in Nat, l \in Nat, r \in Nat, k \in n + 1..n + l
    <2>2. p[k] = b[k - n]
      BY <1>4, <1>5, <1>6, <2>1
    <2> QED
      BY <2>1, <2>2 DEF Ops
  <1>10. \A k \in n + l + 3..n + l + 2 + r : p[k].op \notin Stirs
    <2> TAKE k \in n + l + 3..n + l + 2 + r
    <2>1. k - (n + l + 2) \in 1..r /\ p[k] = d[k - (n + l + 2)]
      BY <1>6
    <2> QED
      BY <2>1 DEF Ops
  <1>11. SetupShape(p, n - 1, n + l + 1)
    <2>1. (n - 1) + 1 = n /\ (n + l + 1) + 1 = n + l + 2 /\ n - 1 \in Nat \ {0} /\ n + l + 1 \in Nat
      BY ONLY <1>7, n \in Nat, l \in Nat
    <2>2. \A k \in ((n - 1) + 2..(n + l + 1) - 1) \cup ((n + l + 1) + 2..n + l + 2 + r) :
             k \in n + 1..n + l \/ k \in n + l + 3..n + l + 2 + r
      OBVIOUS
    <2>3. \A k \in ((n - 1) + 2..(n + l + 1) - 1) \cup ((n + l + 1) + 2..n + l + 2 + r) :
             p[k].op \notin Stirs
      BY <1>9, <1>10, <2>2
    <2>4. (n - 1) + 1 < n + l + 1 /\ n + l + 1 < n + l + 2 + r
      BY ONLY n \in Nat, l \in Nat, r \in Nat
    <2> QED
      BY <1>6, <1>7, <1>8, <2>1, <2>3, <2>4 DEF SetupShape
  <1> QED
    BY <1>1, <1>2, <1>3, <1>11

(* setupBindRootOverlay: it unmounts before it mounts, and ends in the test of the mounted root. *)
LEMMA OverlayIsSetUp ==
    ASSUME NEW p \in Probes
    PROVE  \E n \in Nat : LET s == OverlaySetup(p) IN
              /\ s \in Seq(Steps) /\ Len(s) = n /\ n > 2 /\ Ops(s) \subseteq SetupOps
              /\ "mount-overlay" \in Ops(s) /\ "installed-to-live" \notin Ops(s)
              /\ s[n] = CheckLine /\ s[n - 1].kind = "line" /\ s[n - 1].op = "test-passwd"
              /\ Cleared(s, "umount-root", "mount-overlay", p.root)
              /\ Cleared(s, "umount-lower", "bind-lower", p.lower)
  <1> DEFINE A == <<Strict("mkdir-overlay"), Tolerant("mountpoint-root")>>
             B == <<Tolerant("umount-root")>>
             C == <<Tolerant("mountpoint-lower")>>
             D == <<Tolerant("umount-lower")>>
             E == <<Tolerant("bind-lower"), CheckRoot, Tolerant("mount-overlay"), CheckRoot,
                    Line("test-etc"), CheckLine, Line("test-passwd"), CheckLine>>
  <1>1. A \in Seq(Steps) /\ B \in Seq(Steps) /\ C \in Seq(Steps) /\ D \in Seq(Steps) /\ E \in Seq(Steps)
    BY StepsAreSteps DEF SetupOps
  <1>2. /\ Ops(A) = {"mkdir-overlay", "mountpoint-root"} /\ Ops(B) = {"umount-root"}
        /\ Ops(C) = {"mountpoint-lower"} /\ Ops(D) = {"umount-lower"}
    BY StepsAreSteps DEF SetupOps, Ops
  <1>3. Ops(E) = {"bind-lower", "check", "mount-overlay", "test-etc", "test-passwd"}
    BY StepsAreSteps DEF SetupOps, Ops
  <1>4. /\ Len(E) = 8 /\ E[8] = CheckLine /\ E[7].kind = "line" /\ E[7].op = "test-passwd"
    BY DEF Line, Step
  <1>5. /\ E[1].op = "bind-lower" /\ E[2].op = "check" /\ E[3].op = "mount-overlay" /\ E[4].op = "check"
        /\ E[5].op = "test-etc" /\ E[6].op = "check" /\ E[7].op = "test-passwd" /\ E[8].op = "check"
    BY DEF Line, Tolerant, CheckRoot, CheckLine, Step
  <1>6. /\ Cleared(E, "umount-root", "mount-overlay", FALSE)
        /\ Cleared(E, "umount-lower", "bind-lower", FALSE)
    <2>1. \A q \in 1..8 : /\ E[q].op = "mount-overlay" => q = 3
                          /\ E[q].op = "bind-lower" => q = 1
      BY <1>5
    <2> QED
      BY <1>4, <2>1 DEF Cleared
  <1> HIDE DEF A, B, C, D, E
  <1>7. p.root \in BOOLEAN /\ p.lower \in BOOLEAN
    BY DEF Probes
  <1>8. PICK b \in Seq(Steps) :
          b = Optional(p.root, B) /\ Ops(b) \subseteq Ops(B) /\ (p.root => b = B)
    BY <1>1, <1>7, Optionally
  <1>9. PICK d \in Seq(Steps) :
          d = Optional(p.lower, D) /\ Ops(d) \subseteq Ops(D) /\ (p.lower => d = D)
    BY <1>1, <1>7, Optionally
  <1>10. PICK abcd \in Seq(Steps) :
           /\ abcd = ((A \o b) \o C) \o d
           /\ Ops(abcd) = ((Ops(A) \cup Ops(b)) \cup Ops(C)) \cup Ops(d)
    <2>1. PICK ab \in Seq(Steps) : ab = A \o b /\ Ops(ab) = Ops(A) \cup Ops(b)
      BY <1>1, Joined, ZenonT(60)
    <2>2. PICK abc \in Seq(Steps) : abc = ab \o C /\ Ops(abc) = Ops(ab) \cup Ops(C)
      BY <1>1, Joined
    <2>3. PICK abcd \in Seq(Steps) : abcd = abc \o d /\ Ops(abcd) = Ops(abc) \cup Ops(d)
      BY Joined
    <2> QED
      BY <2>1, <2>2, <2>3
  <1>11. /\ Ops(abcd) \subseteq SetupOps \ {"mount-overlay", "bind-lower", "installed-to-live"}
         /\ p.root => "umount-root" \in Ops(abcd)
         /\ p.lower => "umount-lower" \in Ops(abcd)
    BY <1>2, <1>8, <1>9, <1>10 DEF SetupOps
  <1>12. PICK s \in Seq(Steps) : s = abcd \o E
    BY <1>1, Joined
  <1>13. s = OverlaySetup(p)
    BY ONLY <1>8, <1>9, <1>10, <1>12 DEF OverlaySetup, A, B, C, D, E
  <1>14. /\ Len(s) = Len(abcd) + 8 /\ Len(abcd) \in Nat /\ Ops(s) = Ops(abcd) \cup Ops(E)
         /\ \A i \in 1..8 : s[Len(abcd) + i] = E[i]
    <2>1. /\ Len(s) = Len(abcd) + Len(E) /\ Ops(s) = Ops(abcd) \cup Ops(E)
          /\ \A i \in 1..Len(E) : s[Len(abcd) + i] = E[i]
      BY ONLY <1>1, <1>12, Joined, abcd \in Seq(Steps), s \in Seq(Steps)
    <2> QED
      BY <1>4, <2>1
  <1>15. s[Len(s)] = E[8] /\ s[Len(s) - 1] = E[7]
    BY <1>14
  <1>16. /\ Cleared(s, "umount-root", "mount-overlay", p.root)
         /\ Cleared(s, "umount-lower", "bind-lower", p.lower)
    BY ONLY <1>1, <1>6, <1>7, <1>11, <1>12, JoinedCleared, abcd \in Seq(Steps)
  <1>17. /\ Ops(s) \subseteq SetupOps
         /\ "mount-overlay" \in Ops(s) /\ "installed-to-live" \notin Ops(s)
    BY <1>3, <1>11, <1>14 DEF SetupOps
  <1> WITNESS Len(s) \in Nat
  <1> QED
    BY <1>4, <1>13, <1>14, <1>15, <1>16, <1>17, SMTT(30)

(* planSetupEnv: the root is mounted where it was seen free, tested, and then prepared. *)
LEMMA SetupIsShaped ==
    ASSUME NEW c \in Choices, NEW p \in Probes
    PROVE  LET s == PlanSetupEnv(c, p) IN
              /\ s \in Seq(Steps) /\ Ops(s) \subseteq SetupOps
              /\ \E m, j \in Nat : SetupShape(s, m, j)
              /\ Cleared(s, "umount-root", "mount-overlay", p.root)
              /\ Cleared(s, "umount-lower", "bind-lower", p.lower)
  <1> DEFINE X == <<Line("mountpoint-boot"), Strict("datetime_log")>>
             B == <<Strict("mkdir-stamp"), Strict("touch-stamp")>>
             C == <<Tolerant("installed-to-live"), CheckRoot>>
             D == <<Tolerant("embed_installer"), CheckRoot>>
             MountOps == {"mount-overlay", "bind-lower"}
  <1>1. X \in Seq(Steps) /\ B \in Seq(Steps) /\ C \in Seq(Steps) /\ D \in Seq(Steps)
    BY StepsAreSteps DEF SetupOps
  <1>2. /\ Ops(X) = {"mountpoint-boot", "datetime_log"} /\ Ops(B) = {"mkdir-stamp", "touch-stamp"}
        /\ Ops(C) = {"installed-to-live", "check"} /\ Ops(D) = {"embed_installer", "check"}
    BY StepsAreSteps DEF SetupOps, Ops
  <1>3. /\ Len(C) = 2 /\ C[1].kind = "tolerant" /\ C[1].op = "installed-to-live" /\ C[2] = CheckRoot
        /\ Len(X) = 2
    BY DEF Tolerant, Step
  <1> HIDE DEF X, B, C, D
  <1>4. PICK o \in Seq(Steps), n \in Nat :
          /\ o = OverlaySetup(p) /\ Len(o) = n /\ n > 2 /\ Ops(o) \subseteq SetupOps
          /\ o[n] = CheckLine /\ o[n - 1].kind = "line" /\ o[n - 1].op = "test-passwd"
          /\ Cleared(o, "umount-root", "mount-overlay", p.root)
          /\ Cleared(o, "umount-lower", "bind-lower", p.lower)
    BY OverlayIsSetUp
  <1>5. c.reset \in BOOLEAN /\ c.installer \in BOOLEAN /\ p.root \in BOOLEAN /\ p.lower \in BOOLEAN
    BY DEF Choices, Probes
  <1>6. PICK b \in Seq(Steps) : b = Optional(c.reset, B) /\ Ops(b) \subseteq Ops(B)
    BY <1>1, <1>5, Optionally
  <1>7. PICK d \in Seq(Steps) : d = Optional(c.installer, D) /\ Ops(d) \subseteq Ops(D)
    BY <1>1, <1>5, Optionally
  <1>8. PICK a \in Seq(Steps) : a = X \o o
    BY <1>1, Joined
  <1>9. /\ Len(a) = 2 + n /\ Ops(a) = Ops(X) \cup Ops(o)
        /\ a[2 + n] = o[n] /\ a[2 + n - 1] = o[n - 1]
    <2>1. /\ Len(a) = Len(X) + Len(o) /\ Ops(a) = Ops(X) \cup Ops(o)
          /\ \A i \in 1..Len(o) : a[Len(X) + i] = o[i]
      BY ONLY <1>1, <1>8, Joined, a \in Seq(Steps), o \in Seq(Steps)
    <2> QED
      BY <1>3, <1>4, <2>1
  <1>10. /\ Cleared(a, "umount-root", "mount-overlay", p.root)
         /\ Cleared(a, "umount-lower", "bind-lower", p.lower)
    <2>1. "mount-overlay" \notin Ops(X) /\ "bind-lower" \notin Ops(X)
      BY <1>2
    <2> QED
      BY ONLY <1>1, <1>4, <1>5, <1>8, <2>1, JoinedCleared, ZenonT(60)
  <1>11. PICK ab \in Seq(Steps) : ab = a \o b /\ Ops(ab) = Ops(a) \cup Ops(b)
    BY Joined
  <1>12. PICK abc \in Seq(Steps) : abc = ab \o C /\ Ops(abc) = Ops(ab) \cup Ops(C)
    BY <1>1, Joined
  <1>13. PICK s \in Seq(Steps) : s = abc \o d /\ Ops(s) = Ops(abc) \cup Ops(d)
    BY Joined
  <1>14. s = PlanSetupEnv(c, p)
    BY ONLY <1>4, <1>6, <1>7, <1>8, <1>11, <1>12, <1>13 DEF PlanSetupEnv, X, B, C, D
  <1>15. Ops(s) \subseteq SetupOps
    BY <1>2, <1>4, <1>6, <1>7, <1>9, <1>11, <1>12, <1>13 DEF SetupOps
  <1>16. /\ Cleared(s, "umount-root", "mount-overlay", p.root)
         /\ Cleared(s, "umount-lower", "bind-lower", p.lower)
    <2>1. /\ "mount-overlay" \notin Ops(b) /\ "bind-lower" \notin Ops(b)
          /\ "mount-overlay" \notin Ops(C) /\ "bind-lower" \notin Ops(C)
          /\ "mount-overlay" \notin Ops(d) /\ "bind-lower" \notin Ops(d)
      BY <1>2, <1>6, <1>7
    <2>2. /\ Cleared(ab, "umount-root", "mount-overlay", p.root)
          /\ Cleared(ab, "umount-lower", "bind-lower", p.lower)
      BY ONLY <1>5, <1>10, <1>11, <2>1, a \in Seq(Steps), b \in Seq(Steps), JoinedCleared
    <2>3. /\ Cleared(abc, "umount-root", "mount-overlay", p.root)
          /\ Cleared(abc, "umount-lower", "bind-lower", p.lower)
      BY ONLY <1>5, <1>12, <2>1, <2>2, ab \in Seq(Steps), C \in Seq(Steps), <1>1, JoinedCleared, ZenonT(60)
    <2> QED
      BY ONLY <1>5, <1>13, <2>1, <2>3, abc \in Seq(Steps), d \in Seq(Steps), JoinedCleared
  <1>17. \E m, j \in Nat : SetupShape(s, m, j)
    <2>1. Ops(b) \cap Stirs = {} /\ Ops(d) \cap Stirs = {}
      BY <1>2, <1>6, <1>7 DEF Stirs
    <2> DEFINE l == Len(b)
               r == Len(d)
    <2>2. PICK k \in Nat : k = 2 + n
      OBVIOUS
    <2>3. k > 2 /\ l \in Nat /\ r \in Nat
      BY <1>4, <2>2
    <2>7. /\ k = Len(a) /\ a[k] = CheckLine
          /\ a[k - 1].kind = "line" /\ a[k - 1].op = "test-passwd"
      BY <1>4, <1>9, <2>2
    <2>4. SetupShape(((a \o b) \o C) \o d, k - 1, k + l + 1)
      BY ONLY <1>1, <1>3, <2>1, k \in Nat, <2>3, <2>7, ShapeJoined, a \in Seq(Steps), b \in Seq(Steps),
              d \in Seq(Steps)
    <2>5. s = ((a \o b) \o C) \o d
      BY ONLY <1>11, <1>12, <1>13
    <2>6. k - 1 \in Nat /\ k + l + 1 \in Nat
      BY <2>3
    <2> QED
      BY <2>4, <2>5, <2>6
  <1> QED
    BY <1>14, <1>15, <1>16, <1>17

(* The image is made of the bind root first, and the bind root cleaned up in step 7. *)
BurnShape(p) ==
    /\ Len(p) > 7 /\ p[1].op = "mksquashfs" /\ p[7].kind = "strict" /\ p[7].op = "cleanup"
    /\ \A k \in (2..6) \cup (8..Len(p)) : p[k].op \notin Stirs

(* planCreateIso: squash first, clean up seventh, and nothing else moves the bind root. *)
LEMMA BurnIsShaped ==
    ASSUME NEW c \in Choices
    PROVE  /\ PlanCreateIso(c) \in Seq(Steps) /\ Ops(PlanCreateIso(c)) \subseteq ImageOps
           /\ BurnShape(PlanCreateIso(c))
  <1> DEFINE A == <<Strict("mksquashfs"), Line("test-linuxfs"), CheckLine,
                    Line("move-linuxfs"), CheckLine, Line("md5-linuxfs"),
                    Strict("cleanup"), Line("rm-iso.tmp"), Line("xorriso"), CheckLine,
                    Line("publish-iso"), CheckLine, Line("fsync-iso")>>
             B == <<Line("isohybrid"), CheckLine>>
             C == <<Line("md5-iso")>>
  <1>1. A \in Seq(Steps) /\ B \in Seq(Steps) /\ C \in Seq(Steps)
    BY StepsAreSteps DEF ImageOps
  <1>2. Ops(B) = {"isohybrid", "check"} /\ Ops(C) = {"md5-iso"}
    BY StepsAreSteps DEF ImageOps, Ops
  <1>3. /\ Len(A) = 13 /\ A[7].kind = "strict" /\ A[7].op = "cleanup" /\ A[1].op = "mksquashfs"
        /\ \A k \in (2..6) \cup (8..13) : A[k].op \in ImageOps \ Stirs
    BY DEF Strict, Line, CheckLine, Step, ImageOps, Stirs
  <1> HIDE DEF A, B, C
  <1>4. c.hybrid \in BOOLEAN /\ c.sums \in BOOLEAN
    BY DEF Choices
  <1>5. PICK b \in Seq(Steps) : b = Optional(c.hybrid, B) /\ Ops(b) \subseteq Ops(B)
    BY <1>1, <1>4, Optionally
  <1>6. PICK d \in Seq(Steps) : d = Optional(c.sums, C) /\ Ops(d) \subseteq Ops(C)
    BY <1>1, <1>4, Optionally
  <1>7. PICK ab \in Seq(Steps) : ab = A \o b
    BY <1>1, Joined
  <1>8. PICK s \in Seq(Steps) : s = ab \o d
    BY Joined
  <1>9. s = PlanCreateIso(c)
    BY ONLY <1>5, <1>6, <1>7, <1>8 DEF PlanCreateIso, A, B, C
  <1>10. /\ Len(ab) = 13 + Len(b) /\ Len(b) \in Nat
         /\ \A i \in 1..13 + Len(b) : ab[i] = IF i <= 13 THEN A[i] ELSE b[i - 13]
    <2>1. /\ Len(ab) = Len(A) + Len(b)
          /\ \A i \in 1..Len(A) + Len(b) : ab[i] = IF i <= Len(A) THEN A[i] ELSE b[i - Len(A)]
      BY ONLY <1>1, <1>7, Joined, b \in Seq(Steps)
    <2> QED
      BY <1>3, <2>1
  <1>11. /\ Len(s) = Len(ab) + Len(d) /\ Len(d) \in Nat /\ Len(ab) \in Nat
         /\ \A i \in 1..Len(ab) + Len(d) : s[i] = IF i <= Len(ab) THEN ab[i] ELSE d[i - Len(ab)]
    BY ONLY <1>8, Joined, ab \in Seq(Steps), d \in Seq(Steps)
  <1>12. \A i \in 1..Len(b) : b[i].op \in ImageOps \ Stirs
    <2>1. Ops(b) \subseteq ImageOps \ Stirs
      BY <1>2, <1>5 DEF ImageOps, Stirs
    <2> QED
      BY <2>1 DEF Ops
  <1>13. \A i \in 1..Len(d) : d[i].op \in ImageOps \ Stirs
    <2>1. Ops(d) \subseteq ImageOps \ Stirs
      BY <1>2, <1>6 DEF ImageOps, Stirs
    <2> QED
      BY <2>1 DEF Ops
  <1>14. \A i \in 1..13 : s[i] = A[i]
    <2> TAKE i \in 1..13
    <2>1. i \in 1..13 + Len(b) /\ i <= Len(ab) /\ i \in 1..Len(ab) + Len(d)
      BY ONLY <1>10, <1>11, i \in 1..13
    <2>2. s[i] = ab[i]
      BY ONLY <1>11, <2>1
    <2>3. ab[i] = A[i]
      BY ONLY <1>10, <2>1, i \in 1..13
    <2> QED
      BY <2>2, <2>3
  <1>15. \A i \in 14..Len(s) : s[i].op \in ImageOps \ Stirs
    <2> TAKE i \in 14..Len(s)
    <2>1. CASE i <= Len(ab)
      <3>1. i - 13 \in 1..Len(b) /\ s[i] = b[i - 13]
        <4>1. i \in 1..13 + Len(b) /\ i \in 1..Len(ab) + Len(d) /\ ~(i <= 13) /\ i - 13 \in 1..Len(b)
          BY ONLY <1>10, <1>11, <2>1, i \in 14..Len(s)
        <4> QED
          BY ONLY <1>10, <1>11, <2>1, <4>1
      <3> QED
        BY <1>12, <3>1
    <2>2. CASE ~(i <= Len(ab))
      <3>1. i - Len(ab) \in 1..Len(d) /\ s[i] = d[i - Len(ab)]
        BY <1>11, <2>2
      <3> QED
        BY <1>13, <3>1
    <2> QED
      BY <2>1, <2>2
  <1>16. BurnShape(s)
    <2>1. \A k \in (2..6) \cup (8..Len(s)) : k \in (2..6) \cup (8..13) \/ k \in 14..Len(s)
      BY <1>11
    <2>2. \A k \in (2..6) \cup (8..13) : k \in 1..13
      OBVIOUS
    <2>3. \A k \in (2..6) \cup (8..Len(s)) : s[k].op \notin Stirs
      BY <1>3, <1>14, <1>15, <2>1, <2>2
    <2>4. Len(s) > 7 /\ s[7] = A[7] /\ s[1] = A[1]
      BY <1>10, <1>11, <1>14
    <2> QED
      BY <1>3, <2>3, <2>4 DEF BurnShape
  <1>17. Ops(s) \subseteq ImageOps
    <2>1. \A i \in 1..13 : A[i].op \in ImageOps
      <3>1. {"mksquashfs", "cleanup"} \subseteq ImageOps
        BY DEF ImageOps
      <3>2. \A i \in 1..13 : i \in {1, 7} \/ i \in (2..6) \cup (8..13)
        OBVIOUS
      <3> QED
        BY ONLY <1>3, <3>1, <3>2
    <2>2. \A i \in 1..Len(s) : i \in 1..13 \/ i \in 14..Len(s)
      BY <1>11
    <2> QED
      BY <1>14, <1>15, <2>1, <2>2 DEF Ops
  <1> QED
    BY <1>9, <1>16, <1>17

(***************************************************************************)
(* The plans between the two leave the bind root alone.                    *)
(***************************************************************************)
KeptPlans(c) == {PlanCopyNewIso(c), PlanSavePackageList, PlanEditBootMenu, <<>>}
KeepShape(p) == \A k \in 1..Len(p) : p[k].op \notin Stirs \cup {"bind-lower", "umount-lower"}

(* The plans of the stages in between leave the bind root and its mounts alone. *)
LEMMA OthersKeep ==
    ASSUME NEW c PROVE \A p \in KeptPlans(c) : KeepShape(p)
  <1>1. KeepShape(PlanCopyNewIso(c))
    BY DEF KeepShape, PlanCopyNewIso, Abort, Embed, Line, CheckLine, Sure, Strict, Step, Stirs
  <1>2. KeepShape(PlanSavePackageList)
    BY DEF KeepShape, PlanSavePackageList, Line, Step, Stirs
  <1>3. KeepShape(PlanEditBootMenu)
    BY DEF KeepShape, PlanEditBootMenu, Line, Step, Stirs
  <1>4. KeepShape(<<>>)
    BY DEF KeepShape
  <1> QED
    BY <1>1, <1>2, <1>3, <1>4 DEF KeptPlans
----------------------------------------------------------------------------
(* What the commands leave mounted. *)

SameBindRoot(h) == h.root = host.root /\ h.prepared = host.prepared /\ h.conf = host.conf

(* The ways to come out that leave the machine as it was. *)
LEMMA HostUntouched ==
    /\ \A j : \A r \in OnJob(j) : r.host = host
    /\ \A o : \A r \in Unchanged(o) \cup Maybe(o) \cup Failing : r.host = host
    /\ \A b : \A r \in Verdict(b) \cup Mountpoint(b) : r.host = host
    /\ \A h : \A r \in OnHost(h) : r.host = host \/ (r.host = h /\ r.out = "ok")
    /\ \A r \in Failing : r.out = "fail"
    /\ \A r \in Deniable : r.host = host /\ r.out # "ok"
  <1>1. \A o : \A r \in Unchanged(o) : r.host = host /\ r.out \in o
    BY DEF Unchanged, Out
  <1>2. \A r \in Failing : r.host = host /\ r.out = "fail"
    BY <1>1 DEF Failing
  <1>3. \A o : \A r \in Maybe(o) : r.host = host
    BY <1>1 DEF Maybe
  <1>4. \A b : \A r \in Verdict(b) \cup Mountpoint(b) : r.host = host
    BY <1>1 DEF Verdict, Mountpoint
  <1>5. \A j : \A r \in OnJob(j) : r.host = host
    BY <1>2 DEF OnJob, Out
  <1>6. \A h : \A r \in OnHost(h) : r.host = host \/ (r.host = h /\ r.out = "ok")
    BY <1>2 DEF OnHost, Out
  <1>7. \A r \in Deniable : r.host = host /\ r.out # "ok"
    BY <1>1 DEF Deniable, Refused
  <1> QED
    BY <1>1, <1>2, <1>3, <1>4, <1>5, <1>6, <1>7

(* The commands that change the machine outside the work directory. *)
HostOps ==
    {"mkdir-overlay", "umount-root", "umount-lower", "bind-lower", "mount-overlay", "installed-to-live",
     "cleanup", "cleanup_overlay", "xorriso-final", "publish-iso", "isohybrid"}

(* Only the commands of HostOps change anything that outlives the process. *)
LEMMA OthersLeaveHost ==
    ASSUME NEW op, op \notin HostOps, NEW r \in Results(op) PROVE r.host = host
  <1>1. \A q \in Squash \cup PackInitrd \cup Xorriso : q.host = host
    BY HostUntouched DEF Squash, PackInitrd, Xorriso, Out
  <1>2. \A q \in ExtractTemplate \cup PopulateInitrd \cup CopyModules : q.host = host
    BY HostUntouched DEF ExtractTemplate, PopulateInitrd, CopyModules, Out
  <1>3. \A j : (Out("fail", host, j)).host = host
    BY DEF Out
  <1> QED
    BY <1>1, <1>2, <1>3, HostUntouched DEF Results, HostOps

(* What installed-to-live start leaves, however it comes out. *)
LEMMA StartLeaves ==
    ASSUME MachineTypeOK, NEW r \in InstalledToLive
    PROVE  /\ r.job = job /\ r.host.final = host.final
           /\ r.host.root = host.root /\ r.host.lower = host.lower /\ r.host.live = host.live
           /\ r.host.prepared => host.prepared \/ r.host.conf \in {"empty", "whole"}
           /\ r.out = "ok" => r.host.prepared /\ (RecordsHold => r.host.conf = "whole")
  <1>1. CASE \E c \in {"empty", "whole"} :
                /\ r = Out("ok", [[host EXCEPT !.conf = c] EXCEPT !.prepared = TRUE], job)
                /\ RecordsHold => c = "whole"
    <2>1. PICK c \in {"empty", "whole"} :
             /\ r = Out("ok", [[host EXCEPT !.conf = c] EXCEPT !.prepared = TRUE], job)
             /\ RecordsHold => c = "whole"
      BY <1>1
    <2>2. PICK w : w = [host EXCEPT !.conf = c]
      OBVIOUS
    <2>3. PICK d : d = [w EXCEPT !.prepared = TRUE]
      OBVIOUS
    <2>4. /\ d.root = host.root /\ d.lower = host.lower /\ d.live = host.live /\ d.final = host.final
          /\ d.conf = c /\ d.prepared
      BY <2>2, <2>3 DEF MachineTypeOK, Hosts
    <2>5. r.host = d /\ r.job = job
      BY <2>1, <2>2, <2>3 DEF Out
    <2> QED
      BY <2>1, <2>4, <2>5
  <1>2. CASE r \in Failing
    BY <1>2, HostUntouched DEF Failing, Unchanged, Out
  <1>3. CASE \E c : r = Out("fail", [host EXCEPT !.conf = c], job)
    <2>1. PICK c : r = Out("fail", [host EXCEPT !.conf = c], job)
      BY <1>3
    <2>2. PICK w : w = [host EXCEPT !.conf = c]
      OBVIOUS
    <2>3. /\ w.root = host.root /\ w.lower = host.lower /\ w.live = host.live /\ w.final = host.final
          /\ w.prepared = host.prepared
      BY <2>2 DEF MachineTypeOK, Hosts
    <2>4. r.host = w /\ r.job = job /\ r.out = "fail"
      BY <2>1, <2>2 DEF Out
    <2> QED
      BY <2>3, <2>4
  <1> QED
    BY <1>1, <1>2, <1>3 DEF InstalledToLive

(* What the helper's cleanup leaves: the bind root stays unless the record is whole. *)
LEMMA CleanupLeaves ==
    ASSUME MachineTypeOK, NEW r \in Cleanup
    PROVE  /\ r.job = job /\ r.host.final = host.final
           /\ r.host.lower = host.lower /\ r.host.live = host.live
           /\ host.conf = "whole" => r.host = host \/ (r.host.root = 0 /\ ~r.host.prepared)
           /\ host.conf # "whole" => r.host.root = host.root /\ r.host.prepared = host.prepared
           /\ r.host.conf \in {host.conf, "none"}
           /\ r.out = "ok" => r.host.conf = "none" /\ (host.conf = "whole" => r.host.root = 0)
  <1>1. PICK f : f = IF host.conf = "whole" THEN [host EXCEPT !.root = 0, !.prepared = FALSE] ELSE host
    OBVIOUS
  <1>2. PICK c : c = [f EXCEPT !.conf = "none"]
    OBVIOUS
  <1>3. \A h \in {f, c} :
           /\ h.final = host.final /\ h.lower = host.lower /\ h.live = host.live
           /\ host.conf = "whole" => h.root = 0 /\ ~h.prepared
           /\ host.conf # "whole" => h.root = host.root /\ h.prepared = host.prepared
    BY <1>1, <1>2 DEF MachineTypeOK, Hosts
  <1>4. f.conf = host.conf /\ c.conf = "none"
    BY <1>1, <1>2 DEF MachineTypeOK, Hosts
  <1>5. r \in OnHost(c) \/ r = Out("fail", f, job)
    BY <1>1, <1>2 DEF Cleanup
  <1>6. CASE r \in OnHost(c)
    <2>1. r.job = job
      BY <1>6 DEF OnHost, Failing, Unchanged, Out
    <2>2. r.host = c \/ (r.host = host /\ r.out = "fail")
      BY <1>6, HostUntouched DEF OnHost, Out
    <2> QED
      BY <1>3, <1>4, <2>1, <2>2
  <1>7. CASE r = Out("fail", f, job)
    <2>1. r.host = f /\ r.job = job /\ r.out = "fail"
      BY <1>7 DEF Out
    <2> QED
      BY <1>3, <1>4, <2>1
  <1> QED
    BY <1>5, <1>6, <1>7

(* The bind root changes under six commands only, and under two of those to a known state. *)
LEMMA BindRootLeft ==
    ASSUME MachineTypeOK, NEW op, NEW r \in Results(op)
    PROVE  /\ op \notin Stirs \/ op = "mksquashfs" => SameBindRoot(r.host)
           /\ op = "installed-to-live" =>
                 /\ r.host.root = host.root
                 /\ r.out = "ok" => r.host.prepared /\ (RecordsHold => r.host.conf = "whole")
           /\ op = "cleanup" /\ r.out = "ok" =>
                 r.host.conf = "none" /\ (host.conf = "whole" => r.host.root = 0)
           /\ op = "test-passwd" /\ r.out = "ok" => host.root > 0
  <1>1. SameBindRoot(host)
    BY DEF SameBindRoot
  <1>2. op \notin HostOps => SameBindRoot(r.host)
    BY <1>1, OthersLeaveHost
  <1>3. op = "mkdir-overlay" => SameBindRoot(r.host)
    <2>1. PICK h : h = [host EXCEPT !.base = TRUE]
      OBVIOUS
    <2>2. SameBindRoot(h)
      BY <2>1 DEF SameBindRoot, MachineTypeOK, Hosts
    <2>3. Results("mkdir-overlay") = OnHost(h)
      BY <2>1 DEF Results
    <2> QED
      BY <1>1, <2>2, <2>3, HostUntouched
  <1>4. op \in {"umount-lower", "bind-lower"} => SameBindRoot(r.host)
    <2>1. Results("umount-lower") = UmountLower /\ Results("bind-lower") = BindLower
      BY DEF Results
    <2>2. \A q \in UmountLower : SameBindRoot(q.host)
      <3> TAKE q \in UmountLower
      <3>1. PICK l : q.host = [host EXCEPT !.lower = l]
        BY DEF UmountLower, Out
      <3> QED
        BY <3>1 DEF SameBindRoot, MachineTypeOK, Hosts
    <2>3. \A q \in BindLower : SameBindRoot(q.host)
      <3>1. PICK h : h = [host EXCEPT !.lower = @ + 1]
        OBVIOUS
      <3>2. SameBindRoot(h)
        BY <3>1 DEF SameBindRoot, MachineTypeOK, Hosts
      <3>3. BindLower \subseteq OnHost(h) \cup Failing
        BY <3>1 DEF BindLower
      <3> QED
        BY <1>1, <3>2, <3>3, HostUntouched
    <2> QED
      BY <2>1, <2>2, <2>3
  <1>5. op \in {"xorriso-final", "publish-iso", "isohybrid"} => SameBindRoot(r.host)
    <2>1. /\ Results("xorriso-final") = XorrisoInPlace /\ Results("publish-iso") = Publish
          /\ Results("isohybrid") = Isohybrid
      BY DEF Results
    <2>2. PICK h : h = [host EXCEPT !.final = "partial"]
      OBVIOUS
    <2>3. PICK g : g = [host EXCEPT !.final = IF Burnt = "none" THEN "partial" ELSE Burnt]
      OBVIOUS
    <2>4. PICK p : p = [host EXCEPT !.final = job.tmp]
      OBVIOUS
    <2>5. SameBindRoot(h) /\ SameBindRoot(g) /\ SameBindRoot(p)
      BY <2>2, <2>3, <2>4 DEF SameBindRoot, MachineTypeOK, Hosts
    <2>6. /\ \A q \in XorrisoInPlace : q \in OnHost(g) \/ q.host = h
          /\ \A q \in Publish : q \in Failing \/ q.host = p
          /\ \A q \in Isohybrid : q \in Maybe({"ok"}) \/ q.host = h
      BY <2>2, <2>3, <2>4 DEF XorrisoInPlace, Publish, Isohybrid, Out
    <2> QED
      BY <1>1, <2>1, <2>5, <2>6, HostUntouched
  <1>6. op = "installed-to-live" =>
           /\ r.host.root = host.root
           /\ r.out = "ok" => r.host.prepared /\ (RecordsHold => r.host.conf = "whole")
    BY StartLeaves DEF Results
  <1>7. op = "cleanup" /\ r.out = "ok" =>
           r.host.conf = "none" /\ (host.conf = "whole" => r.host.root = 0)
    BY CleanupLeaves DEF Results
  <1>8. op = "test-passwd" /\ r.out = "ok" => host.root > 0
    BY DEF Results, Unchanged, Out
  <1>9. op \notin Stirs =>
           op \notin HostOps \/ op \in {"mkdir-overlay", "umount-lower", "bind-lower", "xorriso-final",
                                      "publish-iso", "isohybrid"}
    BY DEF HostOps, Stirs
  <1> QED
    BY <1>2, <1>3, <1>4, <1>5, <1>6, <1>7, <1>8, <1>9 DEF HostOps

----------------------------------------------------------------------------
(* Where the bind root stands in every phase. *)

Ready == host.root > 0 /\ host.prepared /\ (RecordsHold => host.conf = "whole")
Clean == host.conf = "none" /\ (RecordsHold => host.root = 0)

Ends(t, stage) == t # <<>> /\ t[Len(t)] = stage

(* The stages ahead: setupEnv can only be the next one, createIso only the last. *)
Staged(t) ==
    /\ t # <<>> => t[Len(t)] \in {"createIso", "abort"}
    /\ \A i \in 1..Len(t) :
          /\ t[i] = "setupEnv" => i = 1
          /\ t[i] = "createIso" => i = Len(t)

Going == status \in {"running", "busy"} \/ (status = "returned" /\ ~aborted)

SetupGoes(m, j) ==
    /\ SetupShape(plan, m, j) /\ \A k \in 1..Len(plan) : plan[k].op # "mksquashfs"
    /\ at = m + 1 /\ lineOk => host.root > 0
    /\ at \in m + 2..j + 1 => host.root > 0
    /\ at = j + 1 /\ rootOk => host.prepared /\ (RecordsHold => host.conf = "whole")
    /\ at > j + 1 => Ready

KeepGoes == KeepShape(plan) /\ (Ends(todo, "createIso") => Ready)

BurnGoes ==
    /\ BurnShape(plan)
    /\ at <= 7 => Ready
    /\ at > 7 => Clean

PlanGoes ==
    /\ status = "returned" => at > Len(plan)
    /\ \/ todo = <<>> /\ BurnGoes
       \/ todo # <<>> /\ todo[1] # "setupEnv" /\ (KeepGoes \/ \E m, j \in Nat : SetupGoes(m, j))

BindRootOK ==
    /\ Staged(todo)
    /\ phase = "head" =>
          /\ todo = <<>> => Clean
          /\ Ends(todo, "createIso") /\ todo[1] # "setupEnv" => Ready
    /\ phase \in {"reprobe", "replan"} => todo # <<>> /\ todo[1] # "setupEnv"
    /\ phase \in {"plan", "replan"} /\ Going => PlanGoes
    /\ verdict = "success" => phase \in {"clear", "leave", "ready", "gone"} /\ Clean

(* The stages ahead after one. *)
LEMMA StagedTail ==
    ASSUME NEW t \in Seq(StageNames), Staged(t), t # <<>>
    PROVE  /\ Staged(Tail(t)) /\ Tail(t) \in Seq(StageNames)
           /\ t[1] = "createIso" => Tail(t) = <<>>
           /\ t[1] \notin {"createIso", "abort"} => Tail(t) # <<>>
           /\ Tail(t) # <<>> => Tail(t)[1] # "setupEnv"
           /\ Ends(Tail(t), "createIso") => Ends(t, "createIso")
           /\ Head(t) = t[1]
  <1>1. /\ Len(t) \in Nat \ {0} /\ Tail(t) \in Seq(StageNames) /\ Len(Tail(t)) = Len(t) - 1
        /\ \A i \in 1..Len(t) - 1 : Tail(t)[i] = t[i + 1]
        /\ Head(t) = t[1]
    OBVIOUS
  <1>2. Tail(t) = <<>> <=> Len(t) = 1
    BY ONLY <1>1, EmptySeq, \A i \in Nat : i - 1 = 0 <=> i = 1
  <1>3. Tail(t) # <<>> => Tail(t)[Len(Tail(t))] = t[Len(t)]
    BY <1>1, <1>2
  <1>4. Staged(Tail(t))
    <2>1. Tail(t) # <<>> => Tail(t)[Len(Tail(t))] \in {"createIso", "abort"}
      BY <1>3 DEF Staged
    <2>2. ASSUME NEW i \in 1..Len(Tail(t)) PROVE Tail(t)[i] # "setupEnv"
      <3>1. i + 1 \in 1..Len(t) /\ i + 1 # 1 /\ Tail(t)[i] = t[i + 1]
        BY <1>1, <2>2
      <3> QED
        BY <3>1 DEF Staged
    <2>3. ASSUME NEW i \in 1..Len(Tail(t)), Tail(t)[i] = "createIso" PROVE i = Len(Tail(t))
      <3>1. i + 1 \in 1..Len(t) /\ Tail(t)[i] = t[i + 1]
        BY <1>1
      <3>2. i + 1 = Len(t)
        BY <2>3, <3>1 DEF Staged
      <3>3. Len(t) \in Nat /\ Len(Tail(t)) = Len(t) - 1 /\ i \in Int
        BY <1>1
      <3> QED
        BY ONLY <3>2, <3>3
    <2> QED
      BY <2>1, <2>2, <2>3 DEF Staged
  <1>5. 1 \in 1..Len(t)
    BY <1>1
  <1>6. /\ t[1] = "createIso" => Len(t) = 1
        /\ t[1] \notin {"createIso", "abort"} => Len(t) # 1
    BY <1>5 DEF Staged
  <1>7. Tail(t) # <<>> => Tail(t)[1] # "setupEnv"
    <2>1. Len(t) # 1 => 1 \in 1..Len(t) - 1 /\ 2 \in 1..Len(t) /\ 1 + 1 = 2
      BY ONLY <1>1
    <2>2. Len(t) # 1 => Tail(t)[1] = t[2]
      BY <1>1, <2>1
    <2>3. Len(t) # 1 => t[2] # "setupEnv"
      BY <2>1 DEF Staged
    <2> QED
      BY <1>2, <2>2, <2>3
  <1> QED
    BY <1>1, <1>2, <1>3, <1>4, <1>5, <1>6, <1>7 DEF Ends

(* The stages of a run before its last one. *)
Early(s) ==
    /\ s \in Seq(StageNames) /\ Len(s) > 0 /\ s[1] = "setupEnv"
    /\ \A i \in 1..Len(s) : s[i] \notin {"createIso", "abort"} /\ (s[i] = "setupEnv" => i = 1)

(* Stages joined before the last one keep setupEnv in front. *)
LEMMA EarlyJoined ==
    ASSUME NEW s, Early(s), NEW t \in Seq(StageNames),
           \A i \in 1..Len(t) : t[i] \notin {"createIso", "abort", "setupEnv"}
    PROVE  Early(s \o t)
  <1>1. s \in Seq(StageNames) /\ Len(s) \in Nat /\ Len(t) \in Nat
    BY DEF Early
  <1>2. /\ s \o t \in Seq(StageNames) /\ Len(s \o t) = Len(s) + Len(t)
        /\ \A i \in 1..Len(s) + Len(t) : (s \o t)[i] = IF i <= Len(s) THEN s[i] ELSE t[i - Len(s)]
    BY <1>1, ConcatProperties
  <1>3. ASSUME NEW i \in 1..Len(s) + Len(t)
        PROVE  (s \o t)[i] \notin {"createIso", "abort"} /\ ((s \o t)[i] = "setupEnv" => i = 1)
    <2>1. CASE i <= Len(s)
      <3>1. i \in 1..Len(s)
        BY <1>1, <2>1
      <3> QED
        BY <1>2, <2>1, <3>1 DEF Early
    <2>2. CASE ~(i <= Len(s))
      <3>1. i - Len(s) \in 1..Len(t)
        BY ONLY <1>1, <2>2, i \in 1..Len(s) + Len(t)
      <3> QED
        BY <1>2, <2>2, <3>1
    <2> QED
      BY <2>1, <2>2
  <1>4. 1 \in 1..Len(s) + Len(t) /\ 1 <= Len(s) /\ Len(s) + Len(t) > 0
    BY <1>1 DEF Early
  <1> QED
    BY <1>2, <1>3, <1>4 DEF Early

(* planOrchestration: setupEnv comes first and only there, createIso last and only there. *)
LEMMA StagesAreStaged ==
    ASSUME NEW c \in Choices
    PROVE  Staged(Stages(c)) /\ Ends(Stages(c), "createIso") /\ Stages(c)[1] = "setupEnv"
  <1> DEFINE A == <<"setupEnv">>
             B == Optional(c.space, <<"checkEnoughSpace">>)
             C == <<"copyNewIso", "savePackageList">>
             D == Optional(c.edit, <<"editBootMenu">>)
             E == <<"createIso">>
  <1>1. Early(A)
    BY DEF Early, StageNames, WorkStages
  <1>2. B \in Seq(StageNames) /\ \A i \in 1..Len(B) : B[i] \notin {"createIso", "abort", "setupEnv"}
    <2>1. /\ <<"checkEnoughSpace">> \in Seq(StageNames) /\ <<>> \in Seq(StageNames)
          /\ Len(<<"checkEnoughSpace">>) = 1 /\ <<"checkEnoughSpace">>[1] = "checkEnoughSpace"
          /\ Len(<<>>) = 0
      BY DEF StageNames
    <2>2. CASE c.space
      BY <2>1, <2>2 DEF Optional
    <2>3. CASE ~c.space
      BY <2>1, <2>3 DEF Optional
    <2> QED
      BY <2>2, <2>3
  <1>3. C \in Seq(StageNames) /\ \A i \in 1..Len(C) : C[i] \notin {"createIso", "abort", "setupEnv"}
    BY DEF StageNames, WorkStages
  <1>4. D \in Seq(StageNames) /\ \A i \in 1..Len(D) : D[i] \notin {"createIso", "abort", "setupEnv"}
    <2>1. /\ <<"editBootMenu">> \in Seq(StageNames) /\ <<>> \in Seq(StageNames)
          /\ Len(<<"editBootMenu">>) = 1 /\ <<"editBootMenu">>[1] = "editBootMenu"
          /\ Len(<<>>) = 0
      BY DEF StageNames, WorkStages
    <2>2. CASE c.edit
      BY <2>1, <2>2 DEF Optional
    <2>3. CASE ~c.edit
      BY <2>1, <2>3 DEF Optional
    <2> QED
      BY <2>2, <2>3
  <1>5. E \in Seq(StageNames) /\ Len(E) = 1 /\ E[1] = "createIso"
    BY DEF StageNames, WorkStages
  <1>6. Stages(c) = (((A \o B) \o C) \o D) \o E
    BY DEF Stages
  <1> HIDE DEF A, B, C, D, E
  <1>7. PICK s : s = ((A \o B) \o C) \o D
    OBVIOUS
  <1>8. Early(s)
    <2>1. Early(A \o B)
      BY <1>1, <1>2, EarlyJoined
    <2>2. Early((A \o B) \o C)
      BY <1>3, <2>1, EarlyJoined
    <2> QED
      BY <1>4, <1>7, <2>2, EarlyJoined
  <1>9. s \in Seq(StageNames) /\ Len(s) \in Nat /\ Len(s) > 0
    BY <1>8 DEF Early
  <1>10. PICK t : t = s \o E
    OBVIOUS
  <1>11. /\ t \in Seq(StageNames) /\ Len(t) = Len(s) + 1
         /\ \A i \in 1..Len(s) + 1 : t[i] = IF i <= Len(s) THEN s[i] ELSE E[i - Len(s)]
    <2>1. /\ s \o E \in Seq(StageNames) /\ Len(s \o E) = Len(s) + Len(E)
          /\ \A i \in 1..Len(s) + Len(E) : (s \o E)[i] = IF i <= Len(s) THEN s[i] ELSE E[i - Len(s)]
      BY ONLY <1>5, <1>9, ConcatProperties
    <2> QED
      BY <1>5, <1>10, <2>1
  <1>12. /\ \A i \in 1..Len(s) : t[i] = s[i]
         /\ t[Len(s) + 1] = "createIso" /\ t # <<>>
    <2>1. \A i \in 1..Len(s) : i \in 1..Len(s) + 1 /\ i <= Len(s)
      BY ONLY <1>9
    <2>2. Len(s) + 1 \in 1..Len(s) + 1 /\ ~(Len(s) + 1 <= Len(s)) /\ (Len(s) + 1) - Len(s) = 1
          /\ Len(s) + 1 # 0
      BY ONLY <1>9
    <2> QED
      BY <1>5, <1>11, <2>1, <2>2, EmptySeq
  <1>13. \A i \in 1..Len(t) : i \in 1..Len(s) \/ i = Len(t)
    BY ONLY <1>9, <1>11
  <1>14. Len(t) # 1 /\ 1 \in 1..Len(s)
    BY ONLY <1>9, <1>11
  <1>15. Staged(t)
    BY <1>8, <1>11, <1>12, <1>13 DEF Early, Staged
  <1> QED
    BY <1>6, <1>7, <1>8, <1>10, <1>11, <1>12, <1>14, <1>15 DEF Early, Ends

(* What a command under way does to the bind root, denied or not. *)
LEMMA CommandLeaves ==
    ASSUME MachineTypeOK, NEW r \in Results(Current.op) \cup Deniable
    PROVE  /\ Current.op \notin Stirs \/ Current.op = "mksquashfs" => SameBindRoot(r.host)
           /\ Current.op = "installed-to-live" =>
                 /\ r.host.root = host.root
                 /\ r.out = "ok" => r.host.prepared /\ (RecordsHold => r.host.conf = "whole")
           /\ Current.op = "cleanup" /\ r.out = "ok" =>
                 r.host.conf = "none" /\ (host.conf = "whole" => r.host.root = 0)
           /\ Current.op = "test-passwd" /\ r.out = "ok" => host.root > 0
  <1>1. CASE r \in Results(Current.op)
    BY <1>1, BindRootLeft
  <1>2. CASE r \in Deniable
    <2>1. r.host = host /\ r.out # "ok"
      BY <1>2, HostUntouched
    <2> QED
      BY <2>1 DEF SameBindRoot
  <1> QED
    BY <1>1, <1>2

(* When the loop goes on behind a step, the step's verdict is known. *)
LEMMA FinishAdvances ==
    ASSUME status = "busy", NEW out, Finish(out), status' = "running"
    PROVE  /\ at' = at + 1 /\ plan' = plan
           /\ Current.kind = "line" => lineOk' = (out = "ok")
           /\ Current.kind = "tolerant" => rootOk' = (out = "ok")
           /\ Current.kind = "strict" => out = "ok"
           /\ Current.kind = "checkLine" => lineOk
           /\ Current.kind = "checkRoot" => rootOk
  <1> USE DEF Advance, GiveUp, Die
  <1>1. plan' = plan
    BY DEF Finish
  <1>2. CASE FinishQuiet \/ FinishSure \/ FinishAbort
    BY <1>1, <1>2 DEF FinishQuiet, FinishSure, FinishAbort
  <1>3. CASE FinishCheckRoot \/ FinishCheckLine
    BY <1>1, <1>3 DEF FinishCheckRoot, FinishCheckLine
  <1>4. CASE FinishLine(out) \/ FinishEmbed(out)
    BY <1>1, <1>4 DEF FinishLine, FinishEmbed
  <1>5. CASE FinishRoot(out)
    BY <1>1, <1>5 DEF FinishRoot, RootKinds
  <1> QED
    BY <1>2, <1>3, <1>4, <1>5 DEF Finish

(* One command of planSetupEnv keeps what is known of the bind root so far. *)
LEMMA SetupAdvances ==
    ASSUME RunTypeOK, status = "busy", at <= Len(plan), NEW m \in Nat, NEW j \in Nat, SetupGoes(m, j),
           NEW r \in Results(Current.op) \cup Deniable, Finish(r.out), host' = r.host,
           status' = "running", world' = world
    PROVE  SetupGoes(m, j)'
  <1> DEFINE op == plan[at].op
             kind == plan[at].kind
  <1>1. /\ at' = at + 1 /\ plan' = plan
        /\ kind = "line" => lineOk' = (r.out = "ok")
        /\ kind = "tolerant" => rootOk' = (r.out = "ok")
        /\ kind = "checkLine" => lineOk
        /\ kind = "checkRoot" => rootOk
    BY FinishAdvances DEF Current
  <1>2. /\ op \notin Stirs => SameBindRoot(host')
        /\ op = "installed-to-live" =>
              /\ host'.root = host.root
              /\ r.out = "ok" => host'.prepared /\ (RecordsHold => host'.conf = "whole")
        /\ op = "test-passwd" /\ r.out = "ok" => host.root > 0
    BY CommandLeaves DEF Current, RunTypeOK
  <1>3. /\ m \in Nat \ {0} /\ m + 1 < j /\ j < Len(plan) /\ at \in Nat /\ Len(plan) \in Nat
        /\ plan[m].kind = "line" /\ plan[m].op = "test-passwd" /\ plan[m + 1] = CheckLine
        /\ plan[j].kind = "tolerant" /\ plan[j].op = "installed-to-live" /\ plan[j + 1] = CheckRoot
        /\ \A k \in (m + 2..j - 1) \cup (j + 2..Len(plan)) : plan[k].op \notin Stirs
    BY DEF SetupGoes, SetupShape, RunTypeOK, ExecutorTypeOK
  <1>4. /\ CheckLine.op \notin Stirs /\ CheckLine.kind = "checkLine"
        /\ CheckRoot.op \notin Stirs /\ CheckRoot.kind = "checkRoot" /\ "test-passwd" \notin Stirs
    BY DEF CheckLine, CheckRoot, Step, Stirs
  <1>5. SetupShape(plan, m, j)' /\ (\A k \in 1..Len(plan) : plan[k].op # "mksquashfs")'
    BY <1>1 DEF SetupGoes, SetupShape
  <1> HIDE DEF op, kind
  <1>6. at = m => op = "test-passwd" /\ kind = "line"
    BY <1>3 DEF op, kind
  <1>7. at = m + 1 => op \notin Stirs /\ kind = "checkLine"
    BY <1>3, <1>4 DEF op, kind
  <1>8. at \in m + 2..j - 1 => op \notin Stirs
    BY <1>3 DEF op
  <1>9. at = j => op = "installed-to-live" /\ kind = "tolerant"
    BY <1>3 DEF op, kind
  <1>10. at = j + 1 => op \notin Stirs /\ kind = "checkRoot"
    BY <1>3, <1>4 DEF op, kind
  <1>11. at > j + 1 => op \notin Stirs
    BY <1>3 DEF op
  <1>12. /\ at = m + 1 /\ lineOk => host.root > 0
         /\ at \in m + 2..j + 1 => host.root > 0
         /\ at = j + 1 /\ rootOk => host.prepared /\ (RecordsHold => host.conf = "whole")
         /\ at > j + 1 => Ready
    BY DEF SetupGoes
  <1>13. at' = m + 1 /\ lineOk' => host'.root > 0
    <2> HAVE at' = m + 1 /\ lineOk'
    <2>1. at = m
      BY <1>1, <1>3
    <2> QED
      BY <1>1, <1>2, <1>4, <1>6, <2>1 DEF SameBindRoot
  <1>14. at' \in m + 2..j + 1 => host'.root > 0
    <2> HAVE at' \in m + 2..j + 1
    <2>1. at = m + 1 \/ at \in m + 2..j - 1 \/ at = j
      BY <1>1, <1>3
    <2>2. CASE at = m + 1
      BY <1>1, <1>2, <1>7, <1>12, <2>2 DEF SameBindRoot
    <2>3. CASE at \in m + 2..j - 1
      <3>1. at \in m + 2..j + 1
        BY ONLY <2>3, m \in Nat, j \in Nat, at \in Nat, <1>3
      <3> QED
        BY <1>2, <1>8, <1>12, <2>3, <3>1 DEF SameBindRoot
    <2>4. CASE at = j
      <3>1. at \in m + 2..j + 1
        BY ONLY <2>4, m \in Nat, j \in Nat, <1>3
      <3> QED
        BY <1>2, <1>9, <1>12, <2>4, <3>1
    <2> QED
      BY <2>1, <2>2, <2>3, <2>4
  <1>15. at' = j + 1 /\ rootOk' => host'.prepared /\ (RecordsHold' => host'.conf = "whole")
    <2> HAVE at' = j + 1 /\ rootOk'
    <2>1. at = j
      BY <1>1, <1>3
    <2> QED
      BY <1>1, <1>2, <1>9, <2>1 DEF RecordsHold
  <1>16. at' > j + 1 => Ready'
    <2> HAVE at' > j + 1
    <2>1. at = j + 1 \/ at > j + 1
      BY <1>1, <1>3
    <2>2. CASE at = j + 1
      <3>1. at \in m + 2..j + 1
        BY <1>3, <2>2
      <3> QED
        BY <1>1, <1>2, <1>10, <1>12, <2>2, <3>1 DEF SameBindRoot, Ready, RecordsHold
    <2>3. CASE at > j + 1
      BY <1>2, <1>11, <1>12, <2>3 DEF SameBindRoot, Ready, RecordsHold
    <2> QED
      BY <2>1, <2>2, <2>3
  <1> QED
    BY <1>5, <1>13, <1>14, <1>15, <1>16 DEF SetupGoes

(* One command of a plan in between keeps the prepared bind root. *)
LEMMA KeepAdvances ==
    ASSUME RunTypeOK, status = "busy", at <= Len(plan), KeepGoes, todo' = todo,
           NEW r \in Results(Current.op) \cup Deniable, Finish(r.out), host' = r.host,
           status' = "running", world' = world
    PROVE  KeepGoes'
  <1>1. plan' = plan
    BY FinishAdvances
  <1>2. at \in 1..Len(plan)
    BY DEF RunTypeOK, ExecutorTypeOK
  <1>3. SameBindRoot(host')
    BY <1>2, CommandLeaves DEF Current, RunTypeOK, KeepGoes, KeepShape
  <1> QED
    BY <1>1, <1>3 DEF KeepGoes, KeepShape, Ready, RecordsHold, SameBindRoot, Ends

(* One command of planCreateIso: prepared up to the cleanup, clean from there on. *)
LEMMA BurnAdvances ==
    ASSUME RunTypeOK, status = "busy", at <= Len(plan), BurnGoes,
           NEW r \in Results(Current.op) \cup Deniable, Finish(r.out), host' = r.host,
           status' = "running", world' = world
    PROVE  BurnGoes'
  <1>1. at' = at + 1 /\ plan' = plan /\ (plan[at].kind = "strict" => r.out = "ok")
    BY FinishAdvances DEF Current
  <1>2. at \in Nat /\ at >= 1 /\ Len(plan) \in Nat
    BY DEF RunTypeOK, ExecutorTypeOK
  <1>3. /\ plan[at].op \notin Stirs \/ plan[at].op = "mksquashfs" => SameBindRoot(host')
        /\ plan[at].op = "cleanup" /\ r.out = "ok" =>
              host'.conf = "none" /\ (host.conf = "whole" => host'.root = 0)
    BY CommandLeaves DEF Current, RunTypeOK
  <1>4. BurnShape(plan)'
    BY <1>1 DEF BurnGoes, BurnShape
  <1>5. at = 7 => Clean'
    BY <1>1, <1>3 DEF BurnGoes, BurnShape, Ready, Clean, RecordsHold
  <1>6. at # 7 => SameBindRoot(host')
    <2>1. at = 1 \/ at = 7 \/ at \in (2..6) \cup (8..Len(plan))
      BY <1>2
    <2> QED
      BY <1>3, <2>1 DEF BurnGoes, BurnShape
  <1>7. at' <= 7 => Ready'
    <2> HAVE at' <= 7
    <2>1. at <= 7 /\ at # 7
      BY <1>1, <1>2
    <2> QED
      BY <1>6, <2>1 DEF BurnGoes, Ready, RecordsHold, SameBindRoot
  <1>8. at' > 7 => Clean'
    <2> HAVE at' > 7
    <2>1. at = 7 \/ (at > 7 /\ at # 7)
      BY <1>1, <1>2
    <2> QED
      BY <1>5, <1>6, <2>1 DEF BurnGoes, Clean, RecordsHold, SameBindRoot
  <1> QED
    BY <1>4, <1>7, <1>8 DEF BurnGoes

(* A step of the loop that is no command leaves a plan where it is. *)
LEMMA GoesOn ==
    ASSUME plan' = plan, at' = at, lineOk' = lineOk, rootOk' = rootOk, host' = host, todo' = todo,
           world' = world, PlanGoes, status' = "returned" => at > Len(plan)
    PROVE  PlanGoes'
  <1>1. Ready' = Ready /\ Clean' = Clean /\ RecordsHold' = RecordsHold
    BY DEF Ready, Clean, RecordsHold
  <1>2. BurnGoes' = BurnGoes
    BY <1>1 DEF BurnGoes, BurnShape
  <1>3. KeepGoes' = KeepGoes
    BY <1>1 DEF KeepGoes, KeepShape, Ends
  <1>4. \A m, j \in Nat : SetupGoes(m, j)' = SetupGoes(m, j)
    BY <1>1 DEF SetupGoes, SetupShape
  <1> QED
    BY <1>2, <1>3, <1>4 DEF PlanGoes

(* A stage's plan is one of the three kinds. *)
LEMMA StageGoes ==
    ASSUME RunTypeOK, BindRootOK, choices \in Choices, RunStage, world' = world
    PROVE  PlanGoes' /\ Staged(todo')
  <1>1. /\ todo \in Seq(StageNames) /\ todo # <<>> /\ Staged(todo) /\ todo' = Tail(todo)
        /\ Stage = todo[1] /\ todo[1] \in WorkStages
    <2>1. todo \in Seq(StageNames) /\ todo # <<>> /\ Staged(todo)
      BY DEF RunTypeOK, StageNames, RunStage, BindRootOK
    <2> QED
      BY <2>1, StagedTail DEF RunStage, Stage, NextStage
  <1>2. /\ plan' = WorkPlan(todo[1], choices, probes) /\ at' = 1 /\ status' = "running" /\ host' = host
        /\ rootOk' = FALSE
    BY <1>1 DEF RunStage, Call, machineVars
  <1>3. Ends(todo, "createIso") /\ todo[1] # "setupEnv" => Ready'
    BY <1>2 DEF BindRootOK, RunStage, Ready, RecordsHold
  <1>4. /\ Staged(todo')
        /\ todo[1] = "createIso" => todo' = <<>>
        /\ todo[1] # "createIso" => todo' # <<>> /\ todo'[1] # "setupEnv"
        /\ Ends(todo', "createIso") => Ends(todo, "createIso")
    <2>1. todo[1] # "abort"
      BY <1>1 DEF WorkStages
    <2> QED
      BY <1>1, <2>1, StagedTail
  <1>5. CASE todo[1] = "setupEnv"
    <2>1. plan' = PlanSetupEnv(choices, probes)
      BY <1>2, <1>5 DEF WorkPlan
    <2>2. probes \in Probes
      BY DEF RunTypeOK
    <2>3. PICK m \in Nat, j \in Nat : SetupShape(plan', m, j)
      BY <2>1, <2>2, SetupIsShaped
    <2>4. \A k \in 1..Len(plan') : plan'[k].op # "mksquashfs"
      <3>1. Ops(plan') \subseteq SetupOps
        BY <2>1, <2>2, SetupIsShaped
      <3> QED
        BY <3>1 DEF Ops, SetupOps
    <2>5. SetupGoes(m, j)'
      <3>1. m \in Nat \ {0} /\ m + 1 < j
        BY <2>3 DEF SetupShape
      <3>2. at' # m + 1 /\ at' \notin m + 2..j + 1 /\ at' # j + 1 /\ ~(at' > j + 1)
        BY ONLY <1>2, <3>1, m \in Nat, j \in Nat
      <3>3. SetupShape(plan, m, j)'
        BY <2>3 DEF SetupShape
      <3> QED
        BY <2>4, <3>2, <3>3 DEF SetupGoes
    <2> QED
      BY <1>2, <1>4, <1>5, <2>5 DEF PlanGoes
  <1>6. CASE todo[1] = "createIso"
    <2>1. plan' = PlanCreateIso(choices)
      BY <1>2, <1>6 DEF WorkPlan
    <2>2. BurnShape(plan')
      BY <2>1, BurnIsShaped
    <2>3. Ends(todo, "createIso")
      <3>1. Len(todo) = 1
        <4>1. Len(todo) \in Nat \ {0}
          BY <1>1
        <4>2. 1 \in 1..Len(todo)
          BY <4>1
        <4> QED
          BY <1>1, <1>6, <4>2 DEF Staged
      <3> QED
        BY <1>1, <1>6, <3>1 DEF Ends
    <2>4. BurnGoes'
      BY <1>2, <1>3, <1>6, <2>2, <2>3 DEF BurnGoes, BurnShape
    <2> QED
      BY <1>2, <1>4, <1>6, <2>4 DEF PlanGoes
  <1>7. CASE todo[1] \notin {"setupEnv", "createIso"}
    <2>1. plan' \in KeptPlans(choices)
      BY <1>1, <1>2, <1>7 DEF WorkPlan, KeptPlans, WorkStages
    <2>2. KeepShape(plan')
      BY <2>1, OthersKeep
    <2>3. KeepGoes'
      BY <1>3, <1>4, <1>7, <2>2 DEF KeepGoes, KeepShape, Ends
    <2> QED
      BY <1>2, <1>4, <1>7, <2>3 DEF PlanGoes
  <1> QED
    BY <1>4, <1>5, <1>6, <1>7

(* What a plan that came through leaves for the next stage. *)
LEMMA PlanLeaves ==
    ASSUME RunTypeOK, PlanGoes, status = "returned"
    PROVE  /\ todo = <<>> => Clean
           /\ Ends(todo, "createIso") => Ready
           /\ todo # <<>> => todo[1] # "setupEnv"
  <1>1. at > Len(plan) /\ at \in Nat /\ Len(plan) \in Nat
    BY DEF PlanGoes, RunTypeOK, ExecutorTypeOK
  <1>2. BurnGoes => Clean
    BY <1>1 DEF BurnGoes, BurnShape
  <1>3. \A m, j \in Nat : SetupGoes(m, j) => Ready
    BY <1>1 DEF SetupGoes, SetupShape
  <1> QED
    BY <1>2, <1>3 DEF PlanGoes, KeepGoes, Ends

(* Wherever mksquashfs is the step under way, the bind root is ready. *)
LEMMA SquashIsReady ==
    ASSUME RunTypeOK, PlanGoes, at <= Len(plan), plan[at].op = "mksquashfs" PROVE Ready
  <1>1. at \in Nat /\ at >= 1 /\ Len(plan) \in Nat /\ at \in 1..Len(plan)
    BY DEF RunTypeOK, ExecutorTypeOK
  <1>2. ~KeepGoes /\ \A m, j \in Nat : ~SetupGoes(m, j)
    BY <1>1 DEF KeepGoes, KeepShape, SetupGoes, Stirs
  <1>3. BurnGoes => at = 1
    <2>1. at = 1 \/ at = 7 \/ at \in (2..6) \cup (8..Len(plan))
      BY <1>1
    <2> QED
      BY <2>1 DEF BurnGoes, BurnShape, Stirs
  <1> QED
    BY <1>2, <1>3 DEF PlanGoes, BurnGoes

(* Every step of a run keeps what each phase knows of the bind root. *)
LEMMA BindRootKept == ASSUME RunInv, BindRootOK, RunStep PROVE BindRootOK'
  <1> USE DEF Step1, End, machineVars
  <1> DEFINE Idling == UNCHANGED <<executorVars, host, todo>>
  <1>1. RunTypeOK /\ choices \in Choices /\ Staged(todo) /\ todo \in Seq(StageNames)
        /\ (status = "busy" => at <= Len(plan))
    BY WorldIsKnown DEF RunInv, RunTypeOK, ExecutorInv, InStep, BindRootOK, StageNames
  <1>a. world' = world /\ RecordsHold' = RecordsHold
    BY DEF RunStep, RecordsHold
  <1>b. host' = host => Ready' = Ready /\ Clean' = Clean
    BY <1>a DEF Ready, Clean
  <1>2. Idling => /\ Ready' = Ready /\ Clean' = Clean /\ Staged(todo)' = Staged(todo)
                  /\ Ends(todo, "createIso")' = Ends(todo, "createIso") /\ todo' = todo
                  /\ Going' = Going /\ (Going /\ PlanGoes => PlanGoes')
    <2> HAVE Idling
    <2>1. Going /\ PlanGoes => PlanGoes'
      <3> HAVE Going /\ PlanGoes
      <3>1. status' = "returned" => at > Len(plan)
        BY DEF PlanGoes, executorVars, callVars
      <3> QED
        BY <1>a, <3>1, GoesOn DEF executorVars, callVars
    <2> QED
      BY <1>b, <2>1 DEF Staged, Ends, Going, executorVars, callVars
  <1>3. CASE UNCHANGED <<runVars, world>>
    BY <1>2, <1>3 DEF BindRootOK, runVars, runnerVars, executorVars, callVars
  <1>4. CASE Launch \/ Kill \/ SignalKills \/ Denied
    <2>1. todo' = todo /\ host' = host /\ phase' \in {"ready", "gone"}
          /\ (verdict' = "success" => verdict = "success")
      BY <1>4 DEF Launch, Kill, SignalKills, Denied, AtSpaceCheck, Vanish
    <2> QED
      BY <1>1, <1>b, <2>1 DEF BindRootOK
  <1>5. CASE AskedToStop \/ AllRunsDone
    <2>1. /\ todo' = todo /\ host' = host /\ phase' = phase /\ verdict' = verdict
          /\ UNCHANGED <<plan, at, status, lineOk, rootOk, aborted>>
      BY <1>5 DEF AskedToStop, RequestStop, AllRunsDone, runVars, runnerVars, executorVars, callVars
    <2>2. Going /\ PlanGoes => PlanGoes'
      BY <1>a, <2>1, GoesOn DEF PlanGoes
    <2> QED
      BY <1>1, <1>b, <2>1, <2>2 DEF BindRootOK, Going, Staged, Ends
  <1>6. ASSUME NEW c \in world.choices, Begin(c) PROVE BindRootOK'
    <2>1. todo' = <<>> /\ phase' = "checks" /\ verdict' = "none"
      BY <1>6 DEF Begin
    <2> QED
      BY <2>1 DEF BindRootOK, Staged
  <1>7. ASSUME Progress PROVE BindRootOK'
    <2>1. CASE CompressionUnsupported
      <3>1. todo' = <<"abort">> /\ phase' = "head" /\ verdict' = verdict /\ phase = "checks"
        BY <2>1 DEF CompressionUnsupported, RejectedStages
      <3> QED
        BY <3>1 DEF BindRootOK, Staged, Ends
    <2>2. ASSUME NEW snapshotOk \in BOOLEAN, NEW tempOk \in BOOLEAN, CheckDirectories(snapshotOk, tempOk)
          PROVE  BindRootOK'
      <3>1. /\ verdict' = verdict /\ phase = "checks"
            /\ \/ phase' = "embed" /\ todo' = <<>>
               \/ phase' = "head" /\ todo' = <<"cleanUp", "abort">>
        BY <2>2 DEF CheckDirectories, MisplacedStages
      <3> QED
        BY <3>1 DEF BindRootOK, Staged, Ends
    <2>3. CASE CreateEmbedded \/ InstallSignalCleanup \/ ExtractAssets \/ PrepareFails
      <3>1. todo' = todo /\ phase' \in {"install", "extract", "probe", "leave"}
            /\ verdict' # "success" /\ phase \in {"embed", "install", "extract"}
        BY <2>3 DEF CreateEmbedded, InstallSignalCleanup, ExtractAssets, PrepareFails, BindRootOK
      <3> QED
        BY <1>1, <3>1 DEF BindRootOK
    <2>4. CASE ProbeAndPlan
      <3>1. todo' = Stages(choices) /\ phase' = "head" /\ verdict' = verdict /\ phase = "probe"
        BY <2>4 DEF ProbeAndPlan
      <3>2. Stages(choices) # <<>>
        BY <1>1, StagesAreStaged DEF Ends
      <3> QED
        BY <1>1, <3>1, <3>2, StagesAreStaged DEF BindRootOK
    <2>5. CASE StageLoopEnds
      <3>1. Clean /\ todo' = todo /\ host' = host /\ phase' \in {"clear", "leave"}
        BY <2>5 DEF StageLoopEnds, BindRootOK, Closing
      <3> QED
        BY <1>1, <1>b, <3>1 DEF BindRootOK
    <2>6. CASE StopSeenAtStage \/ PlannedAbort \/ SpaceRunsOut
      <3>1. todo' = todo /\ phase' \in {"kill", "clear", "leave"} /\ verdict' # "success"
        BY <2>6 DEF StopSeenAtStage, PlannedAbort, SpaceRunsOut, AtSpaceCheck, BindRootOK, Closing
      <3> QED
        BY <1>1, <3>1 DEF BindRootOK
    <2>7. CASE RunStage
      <3>1. PlanGoes' /\ Staged(todo')
        BY <1>1, <1>a, <2>7, StageGoes
      <3>2. phase' = "plan" /\ verdict' # "success"
        BY <2>7 DEF RunStage, BindRootOK
      <3> QED
        BY <3>1, <3>2 DEF BindRootOK
    <2>8. CASE SpaceSuffices \/ MoveWorkDir
      <3>1. /\ phase = "head" /\ phase' \in {"head", "reprobe"} /\ todo # <<>> /\ Stage = "checkEnoughSpace"
            /\ todo' = Tail(todo) /\ host' = host /\ verdict' = verdict
        BY <2>8 DEF SpaceSuffices, MoveWorkDir, AtSpaceCheck, NextStage
      <3>2. todo[1] = "checkEnoughSpace"
        BY <1>1, <3>1, StagedTail DEF Stage
      <3>3. Staged(todo') /\ todo' # <<>> /\ todo'[1] # "setupEnv"
            /\ (Ends(todo', "createIso") => Ends(todo, "createIso"))
        BY <1>1, <3>1, <3>2, StagedTail
      <3> QED
        BY <1>b, <3>1, <3>2, <3>3 DEF BindRootOK
    <2>9. CASE SetupEnvAgain
      <3>1. PICK p \in Probed : Call(PlanSetupEnv(choices, p))
        BY <2>9 DEF SetupEnvAgain
      <3>2. p \in Probes
        BY <3>1, ProbedAreProbes
      <3>3. /\ phase = "reprobe" /\ phase' = "replan" /\ todo' = todo /\ verdict' = verdict
            /\ plan' = PlanSetupEnv(choices, p) /\ at' = 1 /\ status' = "running"
        BY <2>9, <3>1 DEF SetupEnvAgain, Call
      <3>4. PICK m \in Nat, j \in Nat : SetupShape(plan', m, j)
        BY <1>1, <3>2, <3>3, SetupIsShaped
      <3>5. \A k \in 1..Len(plan') : plan'[k].op # "mksquashfs"
        <4>1. Ops(plan') \subseteq SetupOps
          BY <1>1, <3>2, <3>3, SetupIsShaped
        <4> QED
          BY <4>1 DEF Ops, SetupOps
      <3>6. SetupGoes(m, j)'
        <4>1. m \in Nat \ {0} /\ m + 1 < j
          BY <3>4 DEF SetupShape
        <4>2. at' # m + 1 /\ at' \notin m + 2..j + 1 /\ at' # j + 1 /\ ~(at' > j + 1)
          BY ONLY <3>3, <4>1, m \in Nat, j \in Nat
        <4>3. SetupShape(plan, m, j)'
          BY <3>4 DEF SetupShape
        <4> QED
          BY <3>5, <4>2, <4>3 DEF SetupGoes
      <3>7. PlanGoes'
        BY <3>3, <3>6 DEF PlanGoes, BindRootOK
      <3> QED
        BY <1>1, <3>3, <3>7 DEF BindRootOK, Staged
    <2>10. HandleSignalStop => host' = host
      BY DEF HandleSignalStop
    <2>11. CASE CallGoesOn
      <3>1. /\ phase' = phase /\ todo' = todo /\ verdict' = verdict /\ host' = host
            /\ plan' = plan /\ at' = at /\ lineOk' = lineOk /\ rootOk' = rootOk
        BY <2>10, <2>11 DEF CallGoesOn, runnerVars, HeadEnd, HeadStart, HeadStop
      <3>2. Going' => Going /\ (status' = "returned" => at > Len(plan))
        BY <2>11 DEF CallGoesOn, Going, HeadEnd, HeadStart, HeadStop, RunInv, RunTypeOK, ExecutorTypeOK
      <3>3. Going' /\ PlanGoes => PlanGoes'
        BY <1>a, <3>1, <3>2, GoesOn
      <3> QED
        BY <1>1, <1>b, <3>1, <3>2, <3>3 DEF BindRootOK, Staged, Ends
    <2>12. CASE CommandEnds
      <3>1. PICK r \in Results(Current.op) \cup Deniable : Finish(r.out) /\ host' = r.host
        BY <2>12 DEF CommandEnds
      <3>2. status = "busy" /\ todo' = todo /\ phase' \in {phase, "gone"} /\ InCall
            /\ (verdict' = "success" => verdict = "success")
        BY <2>12 DEF CommandEnds
      <3>3. Going' => status' = "running"
        BY <3>1 DEF Going, Finish, FinishQuiet, FinishSure, FinishAbort, FinishCheckRoot, FinishCheckLine,
           FinishLine, FinishEmbed, FinishRoot, Advance, GiveUp, Die
      <3>4. PlanGoes /\ status' = "running" => PlanGoes'
        BY <1>1, <1>a, <3>1, <3>2, SetupAdvances, KeepAdvances, BurnAdvances DEF PlanGoes
      <3>5. phase # "head" /\ verdict # "success"
        BY <3>2 DEF InCall, BindRootOK
      <3>6. phase' \in {"plan", "replan"} => PlanGoes
        BY <3>2 DEF BindRootOK, Going
      <3> QED
        BY <1>1, <3>2, <3>3, <3>4, <3>5, <3>6 DEF BindRootOK, InCall
    <2>13. CASE FailedCheckCommandEnds
      <3>1. /\ ~Going' /\ todo' = todo /\ phase' \in {phase, "gone"} /\ InCall
            /\ (verdict' = "success" => verdict = "success")
        BY <2>13 DEF FailedCheckCommandEnds, FailedCheckChown, FailedCheckOverlay, Going, GiveUp, Die
      <3>2. phase # "head" /\ verdict # "success"
        BY <3>1 DEF InCall, BindRootOK
      <3> QED
        BY <1>1, <3>1, <3>2 DEF BindRootOK, InCall
    <2>14. CASE CallReturns
      <3>1. /\ todo' = todo /\ host' = host /\ phase \in {"plan", "replan"} /\ status = "returned"
            /\ verdict' # "success"
            /\ phase' = "head" => ~aborted
            /\ phase' \in {"head", "kill", "clear", "leave"}
        BY <2>14 DEF CallReturns, Closing, BindRootOK
      <3>2. phase' = "head" => PlanGoes
        BY <3>1 DEF BindRootOK, Going
      <3> QED
        BY <1>1, <1>b, <3>1, <3>2, PlanLeaves DEF BindRootOK
    <2>15. CASE InterruptCleanup \/ InterruptCleanupReturns
      <3>1. todo' = todo /\ phase' \in {"interrupt", "clear", "leave"} /\ verdict' # "success"
        BY <2>15 DEF InterruptCleanup, InterruptCleanupReturns, Closing, BindRootOK
      <3> QED
        BY <1>1, <3>1 DEF BindRootOK
    <2>16. CASE ClearSignalCleanup \/ Leave
      <3>1. todo' = todo /\ host' = host /\ phase' \in {"leave", "gone", "ready"} /\ verdict' = verdict
        BY <2>10, <2>16 DEF ClearSignalCleanup, Leave
      <3> QED
        BY <1>1, <1>b, <3>1 DEF BindRootOK
    <2> QED
      BY <1>7, <2>1, <2>2, <2>3, <2>4, <2>5, <2>6, <2>7, <2>8, <2>9, <2>11, <2>12, <2>13, <2>14, <2>15,
         <2>16 DEF Progress
  <1> QED
    BY <1>3, <1>4, <1>5, <1>6, <1>7 DEF RunStep, RunNext

(* Every run keeps what each phase knows of the bind root, from the setup plan to the cleanup. *)
THEOREM BindRootIsKept == RunSpec => [](RunInv /\ BindRootOK)
  <1>1. RunInit => BindRootOK
    BY DEF RunInit, BindRootOK, Staged
  <1>2. RunInv /\ BindRootOK /\ RunStep => BindRootOK'
    BY BindRootKept
  <1> QED
    BY RunIsKept, <1>1, <1>2, PTL DEF RunSpec, RunStep

(***************************************************************************)
(* mksquashfs only ever reads a mounted bind root that installed-to-live   *)
(* has prepared: not in a run after one that was killed half way, not      *)
(* after a move of the work directory, not with any command failing.       *)
(***************************************************************************)
THEOREM RunSquashesPreparedRoot == RunSpec => []SquashesPreparedRoot
  <1>1. RunInv /\ BindRootOK => SquashesPreparedRoot
    <2> SUFFICES ASSUME RunInv, BindRootOK, InCall, status = "busy", Current.op = "mksquashfs" PROVE Ready
      BY DEF SquashesPreparedRoot, Ready
    <2>1. at <= Len(plan) /\ RunTypeOK
      BY DEF RunInv, ExecutorInv, InStep
    <2>2. phase # "interrupt"
      BY DEF RunInv, DirOK
    <2>3. PlanGoes
      BY <2>2 DEF InCall, BindRootOK, Going
    <2> QED
      BY <2>1, <2>3, SquashIsReady DEF Current
  <1> QED
    BY <1>1, BindRootIsKept, PTL

(***************************************************************************)
(* A run that reports success has removed installed-to-live's record, and, *)
(* where the writing of records is not refused, taken the bind root down:  *)
(* the cleanup that planCreateIso asks for strictly came through.          *)
(***************************************************************************)
THEOREM RunSuccessLeavesNoBindRoot == RunSpec => []SuccessLeavesNoBindRoot
  <1>1. BindRootOK => SuccessLeavesNoBindRoot
    BY DEF BindRootOK, SuccessLeavesNoBindRoot, Clean
  <1> QED
    BY <1>1, BindRootIsKept, PTL

----------------------------------------------------------------------------
(* What never reaches the running system. *)

(* A mount of the plan still ahead finds its point free, or a umount before it, and is the last. *)
Freed(umount, mount, count) ==
    \A q \in at..Len(plan) : plan[q].op = mount =>
        /\ count = 0 \/ \E k \in at..q - 1 : plan[k].op = umount
        /\ \A k \in q + 1..Len(plan) : plan[k].op # mount

MountsFreed ==
    Freed("umount-root", "mount-overlay", host.root) /\ Freed("umount-lower", "bind-lower", host.lower)

(* On a sound machine no mount is ever stacked on another. *)
MountsOK ==
    /\ host.root <= 1 /\ host.lower <= 1 /\ host.live
    /\ phase = "head" /\ todo # <<>> /\ todo[1] = "setupEnv" =>
          (probes.root <=> host.root > 0) /\ (probes.lower <=> host.lower > 0)
    /\ phase \in {"plan", "replan"} /\ status \in {"running", "busy"} => MountsFreed

(* A mount adds one at most, a umount takes the only one away, and nothing else adds any. *)
Stacks(op, umount, mount, count, left) ==
    /\ op # mount => left <= count
    /\ op = mount => left <= count + 1
    /\ op = umount /\ count <= 1 => left = 0

(* On a sound machine every command keeps to one mount more or less, and harms no file. *)
LEMMA HostStacks ==
    ASSUME MachineTypeOK, world.refusals \subseteq {"record"}, NEW op, NEW r \in Results(op)
    PROVE  /\ Stacks(op, "umount-root", "mount-overlay", host.root, r.host.root)
           /\ Stacks(op, "umount-lower", "bind-lower", host.lower, r.host.lower)
           /\ host.root <= 1 /\ host.lower <= 1 /\ host.live => r.host.live
  <1> DEFINE Good(h) == /\ Stacks(op, "umount-root", "mount-overlay", host.root, h.root)
                        /\ Stacks(op, "umount-lower", "bind-lower", host.lower, h.lower)
                        /\ host.root <= 1 /\ host.lower <= 1 /\ host.live => h.live
  <1>1. host.root \in Nat /\ host.lower \in Nat
    BY DEF MachineTypeOK, Hosts
  <1>2. op \notin {"umount-root", "umount-lower"} => Good(host)
    BY <1>1 DEF Stacks
  <1>3. op \notin HostOps => Good(r.host)
    BY <1>2, OthersLeaveHost DEF HostOps
  <1>4. ASSUME NEW h, h.root = host.root, h.lower = host.lower, h.live = host.live,
               op \notin {"umount-root", "umount-lower"}
        PROVE  Good(h)
    BY <1>1, <1>4 DEF Stacks
  <1>5. op \in {"mkdir-overlay", "xorriso-final", "publish-iso", "isohybrid"} => Good(r.host)
    <2> HAVE op \in {"mkdir-overlay", "xorriso-final", "publish-iso", "isohybrid"}
    <2>1. PICK h : h = [host EXCEPT !.final = "partial"]
      OBVIOUS
    <2>2. PICK g : g = [host EXCEPT !.final = IF Burnt = "none" THEN "partial" ELSE Burnt]
      OBVIOUS
    <2>3. PICK p : p = [host EXCEPT !.final = job.tmp]
      OBVIOUS
    <2>4. PICK b : b = [host EXCEPT !.base = TRUE]
      OBVIOUS
    <2>5. \A x \in {h, g, p, b} : x.root = host.root /\ x.lower = host.lower /\ x.live = host.live
      BY <2>1, <2>2, <2>3, <2>4 DEF MachineTypeOK, Hosts
    <2>6. \A x \in {h, g, p, b, host} : Good(x)
      BY <1>2, <1>4, <2>5
    <2>7. /\ op = "mkdir-overlay" => Results(op) = OnHost(b)
          /\ op = "xorriso-final" => Results(op) = XorrisoInPlace
          /\ op = "publish-iso" => Results(op) = Publish
          /\ op = "isohybrid" => Results(op) = Isohybrid
      BY <2>4 DEF Results
    <2>8. /\ \A q \in XorrisoInPlace : q \in OnHost(g) \/ q.host = h
          /\ \A q \in Publish : q \in Failing \/ q.host = p
          /\ \A q \in Isohybrid : q \in Maybe({"ok"}) \/ q.host = h
      BY <2>1, <2>2, <2>3 DEF XorrisoInPlace, Publish, Isohybrid, Out
    <2>9. r.host \in {h, g, p, b, host}
      BY <2>7, <2>8, HostUntouched
    <2> QED
      BY <2>6, <2>9
  <1>6. op = "installed-to-live" => Good(r.host)
    <2> HAVE op = "installed-to-live"
    <2>1. r.host.root = host.root /\ r.host.lower = host.lower /\ r.host.live = host.live
      BY StartLeaves DEF Results
    <2> QED
      BY <1>4, <2>1
  <1>7. op = "cleanup" => Good(r.host)
    <2> HAVE op = "cleanup"
    <2>1. /\ r.host.lower = host.lower /\ r.host.live = host.live
          /\ r.host.root = host.root \/ r.host.root = 0
      BY CleanupLeaves DEF Results
    <2> QED
      BY <1>1, <2>1 DEF Stacks
  <1>8. op \in {"bind-lower", "mount-overlay"} => Good(r.host)
    <2> HAVE op \in {"bind-lower", "mount-overlay"}
    <2>1. PICK l : l = [host EXCEPT !.lower = @ + 1]
      OBVIOUS
    <2>2. PICK m : m = [host EXCEPT !.root = @ + 1, !.prepared = FALSE]
      OBVIOUS
    <2>3. /\ l.root = host.root /\ l.lower = host.lower + 1 /\ l.live = host.live
          /\ m.root = host.root + 1 /\ m.lower = host.lower /\ m.live = host.live
      BY <2>1, <2>2 DEF MachineTypeOK, Hosts
    <2>4. (op = "bind-lower" => Good(l)) /\ (op = "mount-overlay" => Good(m))
      BY <1>1, <2>3 DEF Stacks
    <2>5. /\ op = "bind-lower" => Results(op) = BindLower
          /\ op = "mount-overlay" => Results(op) = MountOverlay
      BY DEF Results
    <2>6. /\ \A q \in BindLower : q.host \in {l, host}
          /\ \A q \in MountOverlay : q.host \in {m, host}
      BY <2>1, <2>2, HostUntouched DEF BindLower, MountOverlay
    <2> QED
      BY <1>2, <2>4, <2>5, <2>6
  <1>9. \A count \in Nat : UmountLeaves(count) = {IF count = 0 THEN 0 ELSE count - 1}
    BY DEF UmountLeaves
  <1>10. op = "umount-root" => Good(r.host)
    <2> HAVE op = "umount-root"
    <2> DEFINE Leaving(n) == IF n < host.root
                             THEN Out("ok", [host EXCEPT !.root = n, !.prepared = FALSE], job)
                             ELSE Out("fail", host, job)
    <2>6. UmountRoot = { Leaving(n) : n \in UmountLeaves(host.root) }
      BY DEF UmountRoot
    <2> HIDE DEF Leaving
    <2>7. Results(op) = UmountRoot
      BY DEF Results
    <2>1. Results(op) = { Leaving(n) : n \in UmountLeaves(host.root) }
      BY <2>6, <2>7
    <2>5. PICK n \in UmountLeaves(host.root) : r = Leaving(n)
      BY <2>1
    <2>2. r = IF n < host.root
              THEN Out("ok", [host EXCEPT !.root = n, !.prepared = FALSE], job)
              ELSE Out("fail", host, job)
      BY <2>5 DEF Leaving
    <2>3. n = IF host.root = 0 THEN 0 ELSE host.root - 1
      BY <1>1, <1>9, <2>5
    <2>4. r.host.root = n /\ r.host.lower = host.lower /\ r.host.live = host.live
      <3>1. CASE n < host.root
        <4>1. PICK u : u = [host EXCEPT !.root = n, !.prepared = FALSE]
          OBVIOUS
        <4>2. u.root = n /\ u.lower = host.lower /\ u.live = host.live
          BY <4>1 DEF MachineTypeOK, Hosts
        <4>3. r.host = u
          BY <2>2, <3>1, <4>1 DEF Out
        <4> QED
          BY <4>2, <4>3
      <3>2. CASE ~(n < host.root)
        <4>1. n = host.root
          BY <1>1, <2>3, <3>2
        <4>2. r.host = host
          BY <2>2, <3>2 DEF Out
        <4> QED
          BY <4>1, <4>2
      <3> QED
        BY <3>1, <3>2
    <2> QED
      BY <1>1, <2>3, <2>4 DEF Stacks
  <1>11. op = "umount-lower" => Good(r.host)
    <2> HAVE op = "umount-lower"
    <2>1. Results(op) = UmountLower
      BY DEF Results
    <2>2. PICK n \in UmountLeaves(host.lower) : r.host = [host EXCEPT !.lower = n]
      BY <2>1 DEF UmountLower, Out
    <2>3. n = IF host.lower = 0 THEN 0 ELSE host.lower - 1
      BY <1>1, <1>9, <2>2
    <2>4. r.host.root = host.root /\ r.host.lower = n /\ r.host.live = host.live
      BY <2>2 DEF MachineTypeOK, Hosts
    <2> QED
      BY <1>1, <2>3, <2>4 DEF Stacks
  <1>12. op = "cleanup_overlay" => Good(r.host)
    <2> HAVE op = "cleanup_overlay"
    <2>1. r \in RemoveOverlay \cup LeaveOverlay
      BY DEF Results, CleanupOverlay
    <2>2. CASE r \in RemoveOverlay
      <3> DEFINE Left(n, l) ==
            [host EXCEPT !.root = n, !.lower = l, !.prepared = @ /\ n = host.root, !.base = @ /\ n > 0,
                         !.live = @ /\ ~(l > 0 \/ (n > 0 /\ host.prepared))]
                 Leaving(n, l) == Out(IF l = 0 /\ n = 0 THEN "ok" ELSE "fail", Left(n, l), job)
      <3>1. RemoveOverlay =
              { Leaving(n, l) : n \in UmountLeaves(host.root), l \in UmountLeaves(host.lower) }
        BY DEF RemoveOverlay
      <3> HIDE DEF Leaving, Left
      <3>2. PICK n \in UmountLeaves(host.root), l \in UmountLeaves(host.lower) : r = Leaving(n, l)
        BY <2>2, <3>1
      <3>3. r.host = Left(n, l)
        BY <3>2 DEF Leaving, Out
      <3>4. /\ n = IF host.root = 0 THEN 0 ELSE host.root - 1
            /\ l = IF host.lower = 0 THEN 0 ELSE host.lower - 1
        BY <1>1, <1>9, <3>2
      <3>5. /\ r.host.root = n /\ r.host.lower = l
            /\ r.host.live = (host.live /\ ~(l > 0 \/ (n > 0 /\ host.prepared)))
        BY <3>3 DEF Left, MachineTypeOK, Hosts
      <3>6. n <= host.root /\ l <= host.lower
        BY <1>1, <3>4
      <3>7. host.root <= 1 /\ host.lower <= 1 => n = 0 /\ l = 0
        BY <1>1, <3>4
      <3>8. host.root <= 1 /\ host.lower <= 1 /\ host.live => r.host.live
        <4> HAVE host.root <= 1 /\ host.lower <= 1 /\ host.live
        <4>1. ~(l > 0) /\ ~(n > 0)
          BY <1>1, <3>7
        <4> QED
          BY <3>5, <4>1
      <3> QED
        BY <3>5, <3>6, <3>8 DEF Stacks
    <2>3. CASE r \in LeaveOverlay
      <3> DEFINE Left(n, l) ==
            [host EXCEPT !.root = n, !.lower = l, !.prepared = @ /\ n = host.root]
                 Kept(n, l) == Out("fail", Left(n, l), job)
      <3>1. LeaveOverlay = { Kept(n, l) : n \in UmountLeaves(host.root) \cup {host.root},
                                         l \in UmountLeaves(host.lower) \cup {host.lower} }
        BY DEF LeaveOverlay
      <3>2. \A n, l : Kept(n, l).host = Left(n, l)
        BY DEF Out
      <3> HIDE DEF Kept, Left
      <3>3. PICK n \in UmountLeaves(host.root) \cup {host.root},
                 l \in UmountLeaves(host.lower) \cup {host.lower} : r.host = Left(n, l)
        BY <2>3, <3>1, <3>2
      <3>4. n <= host.root /\ l <= host.lower
        BY <1>1, <1>9, <3>3
      <3>5. r.host.root = n /\ r.host.lower = l /\ r.host.live = host.live
        BY <3>3 DEF Left, MachineTypeOK, Hosts
      <3> QED
        BY <3>4, <3>5 DEF Stacks
    <2> QED
      BY <2>1, <2>2, <2>3
  <1> QED
    BY <1>3, <1>5, <1>6, <1>7, <1>8, <1>10, <1>11, <1>12 DEF HostOps

(* A command that the run survives has done to the mounts what it does. *)
LEMMA CommandStacks ==
    ASSUME RunTypeOK, world.refusals \subseteq {"record"}, NEW r \in Results(Current.op) \cup Deniable, Finish(r.out)
    PROVE  /\ host.root <= 1 /\ host.lower <= 1 /\ host.live => r.host.live
           /\ status' = "running" \/ r.host # host =>
                /\ Stacks(Current.op, "umount-root", "mount-overlay", host.root, r.host.root)
                /\ Stacks(Current.op, "umount-lower", "bind-lower", host.lower, r.host.lower)
  <1>1. CASE r \in Results(Current.op)
    BY <1>1, HostStacks DEF RunTypeOK
  <1>2. CASE r \in Deniable
    <2>1. r.host = host /\ r.out # "ok"
      BY <1>2, HostUntouched
    <2>2. status' = "running" => Current.op \notin {"umount-root", "umount-lower"}
      <3> SUFFICES ASSUME Current.op \in {"umount-root", "umount-lower"} PROVE status' # "running"
        OBVIOUS
      <3>1. world.exits /\ Current.kind \in RootKinds /\ r.out = "denied"
        BY <1>2 DEF Deniable, Refused, Unchanged, Out
      <3>2. ExitsOnDenied
        <4>1. world \in Worlds
          BY DEF RunTypeOK, MachineTypeOK
        <4> QED
          BY <3>1, <4>1, RunnerAssumption
      <3> QED
        BY <3>1, <3>2 DEF Finish, FinishLine, FinishEmbed, FinishRoot, Die
    <2>3. host.root \in Nat /\ host.lower \in Nat
      BY DEF RunTypeOK, MachineTypeOK, Hosts
    <2> QED
      BY <2>1, <2>2, <2>3 DEF Stacks
  <1> QED
    BY <1>1, <1>2

(* One step of a plan. *)
LEMMA FreedAdvances ==
    ASSUME RunTypeOK, at <= Len(plan), NEW umount, NEW mount, NEW count \in 0..1, NEW left \in Nat,
           Freed(umount, mount, count), Stacks(plan[at].op, umount, mount, count, left)
    PROVE  /\ left <= 1
           /\ plan' = plan /\ at' = at + 1 => Freed(umount, mount, left)'
  <1>1. at \in Nat /\ Len(plan) \in Nat /\ at \in at..Len(plan) /\ at >= 1
    BY DEF RunTypeOK, ExecutorTypeOK
  <1>2. plan[at].op = mount => count = 0 /\ \A k \in at + 1..Len(plan) : plan[k].op # mount
    <2>1. ~ \E k \in at..at - 1 : plan[k].op = umount
      BY <1>1
    <2> QED
      BY <1>1, <2>1 DEF Freed
  <1>3. left <= 1
    BY <1>2 DEF Stacks
  <1>4. ASSUME plan' = plan, at' = at + 1,
               NEW q \in at + 1..Len(plan), plan[q].op = mount
        PROVE  /\ left = 0 \/ \E k \in at + 1..q - 1 : plan[k].op = umount
               /\ \A k \in q + 1..Len(plan) : plan[k].op # mount
    <2>1. plan[at].op # mount
      BY <1>2, <1>4
    <2>2. left <= count /\ (plan[at].op = umount => left = 0)
      BY <2>1 DEF Stacks
    <2>3. q \in at..Len(plan)
      BY <1>1
    <2>4. /\ count = 0 \/ \E k \in at..q - 1 : plan[k].op = umount
          /\ \A k \in q + 1..Len(plan) : plan[k].op # mount
      BY <1>4, <2>3 DEF Freed
    <2>5. ASSUME NEW k \in at..q - 1, plan[k].op = umount, plan[at].op # umount
          PROVE  k \in at + 1..q - 1
      BY <1>1, <2>5
    <2> QED
      BY <2>2, <2>4, <2>5
  <1> QED
    BY <1>3, <1>4 DEF Freed

(* A plan that starts and unmounts first where the probes p saw a mount. *)
LEMMA PlanFreed ==
    ASSUME RunTypeOK, NEW p \in Probes, plan' \in Seq(Steps), at' = 1, host' = host,
           (p.root <=> host.root > 0) /\ (p.lower <=> host.lower > 0),
           Cleared(plan', "umount-root", "mount-overlay", p.root),
           Cleared(plan', "umount-lower", "bind-lower", p.lower)
    PROVE  MountsFreed'
  <1>1. host.root \in Nat /\ host.lower \in Nat /\ p.root \in BOOLEAN /\ p.lower \in BOOLEAN
    BY DEF RunTypeOK, MachineTypeOK, Hosts, Probes
  <1>2. PICK s \in Seq(Steps), c \in Nat, d \in Nat, r \in BOOLEAN, l \in BOOLEAN :
           s = plan' /\ c = host.root /\ d = host.lower /\ r = p.root /\ l = p.lower
    BY <1>1
  <1>3. /\ Cleared(s, "umount-root", "mount-overlay", r) /\ (r <=> c > 0)
        /\ Cleared(s, "umount-lower", "bind-lower", l) /\ (l <=> d > 0)
    BY <1>2
  <1>4. \A q \in 1..Len(s) : s[q].op = "mount-overlay" =>
           /\ c = 0 \/ \E k \in 1..q - 1 : s[k].op = "umount-root"
           /\ \A k \in q + 1..Len(s) : s[k].op # "mount-overlay"
    <2> TAKE q \in 1..Len(s)
    <2> HAVE s[q].op = "mount-overlay"
    <2>1. /\ r => \E k \in 1..q - 1 : s[k].op = "umount-root"
          /\ \A k \in q + 1..Len(s) : s[k].op # "mount-overlay"
      BY <1>3 DEF Cleared
    <2>2. ~r => c = 0
      BY <1>3
    <2> QED
      BY <2>1, <2>2
  <1>5. \A q \in 1..Len(s) : s[q].op = "bind-lower" =>
           /\ d = 0 \/ \E k \in 1..q - 1 : s[k].op = "umount-lower"
           /\ \A k \in q + 1..Len(s) : s[k].op # "bind-lower"
    <2> TAKE q \in 1..Len(s)
    <2> HAVE s[q].op = "bind-lower"
    <2>1. /\ l => \E k \in 1..q - 1 : s[k].op = "umount-lower"
          /\ \A k \in q + 1..Len(s) : s[k].op # "bind-lower"
      BY <1>3 DEF Cleared
    <2>2. ~l => d = 0
      BY <1>3
    <2> QED
      BY <2>1, <2>2
  <1> QED
    BY <1>2, <1>4, <1>5 DEF MountsFreed, Freed

(* A plan without mounts needs nothing freed. *)
LEMMA FreedWithout ==
    ASSUME NEW umount, NEW mount, NEW count, \A k \in 1..Len(plan') : plan'[k].op # mount, at' = 1
    PROVE  Freed(umount, mount, count)'
  BY DEF Freed

(* A stage that starts finds its mount points free, or unmounts first. *)
LEMMA StageFreed ==
    ASSUME RunTypeOK, BindRootOK, MountsOK, choices \in Choices, RunStage PROVE MountsFreed'
  <1>1. /\ todo \in Seq(StageNames) /\ todo # <<>>
        /\ Stage = todo[1] /\ todo[1] \in WorkStages
    <2>1. todo \in Seq(StageNames) /\ todo # <<>> /\ Staged(todo)
      BY DEF RunTypeOK, StageNames, RunStage, BindRootOK
    <2> QED
      BY <2>1, StagedTail DEF RunStage, Stage
  <1>2. plan' = WorkPlan(todo[1], choices, probes) /\ at' = 1 /\ host' = host
    BY <1>1 DEF RunStage, Call, machineVars
  <1>3. CASE todo[1] = "setupEnv"
    <2>1. plan' = PlanSetupEnv(choices, probes) /\ probes \in Probes
      BY <1>2, <1>3 DEF WorkPlan, RunTypeOK
    <2>2. /\ plan' \in Seq(Steps)
          /\ Cleared(plan', "umount-root", "mount-overlay", probes.root)
          /\ Cleared(plan', "umount-lower", "bind-lower", probes.lower)
      BY <2>1, SetupIsShaped
    <2>3. (probes.root <=> host.root > 0) /\ (probes.lower <=> host.lower > 0)
      BY <1>1, <1>3 DEF MountsOK, RunStage
    <2> QED
      BY <1>2, <2>1, <2>2, <2>3, PlanFreed
  <1>4. CASE todo[1] # "setupEnv"
    <2>1. \A k \in 1..Len(plan') : plan'[k].op \notin {"mount-overlay", "bind-lower"}
      <3>1. CASE todo[1] = "createIso"
        <4>1. Ops(plan') \subseteq ImageOps
          BY <1>2, <3>1, BurnIsShaped DEF WorkPlan
        <4> QED
          BY <4>1 DEF Ops, ImageOps
      <3>2. CASE todo[1] # "createIso"
        <4>1. plan' \in KeptPlans(choices)
          BY <1>1, <1>2, <1>4, <3>2 DEF WorkPlan, KeptPlans, WorkStages
        <4>2. KeepShape(plan')
          BY <4>1, OthersKeep
        <4> QED
          BY <4>2 DEF KeepShape, Stirs
      <3> QED
        BY <3>1, <3>2
    <2> QED
      BY <1>2, <2>1, FreedWithout DEF MountsFreed, Freed
  <1> QED
    BY <1>3, <1>4

(* On a sound machine the probes of the mount points are right. *)
LEMMA ProbedIsSeen ==
    ASSUME world.refusals \subseteq {"record"}, NEW p, p \in Probed
    PROVE  (p.root <=> host.root > 0) /\ (p.lower <=> host.lower > 0)
  <1> DEFINE Seen(count) ==
        {count > 0} \cup (IF "mountpoint" \in world.refusals THEN {FALSE} ELSE {})
             Sees(r, l) == [NoProbes EXCEPT !.root = r, !.lower = l]
  <1>1. "mountpoint" \notin world.refusals
    OBVIOUS
  <1>2. Probed = { Sees(r, l) : r \in Seen(host.root), l \in Seen(host.lower) }
    BY ONLY DEF Probed
  <1>3. Seen(host.root) = {host.root > 0} /\ Seen(host.lower) = {host.lower > 0}
    BY ONLY <1>1
  <1> HIDE DEF Seen, Sees
  <1>4. PICK r \in {host.root > 0}, l \in {host.lower > 0} : p = Sees(r, l)
    BY <1>2, <1>3
  <1>5. p.root = r /\ p.lower = l
    BY <1>4 DEF Sees, NoProbes
  <1>6. (r <=> host.root > 0) /\ (l <=> host.lower > 0)
    BY <1>4
  <1> QED
    BY <1>5, <1>6

(* The setup planned again finds its mount points free, or unmounts first. *)
LEMMA SetupFreed ==
    ASSUME RunTypeOK, world.refusals \subseteq {"record"}, choices \in Choices, Probed \subseteq Probes,
           SetupEnvAgain PROVE MountsFreed'
  <1>1. PICK p \in Probed : plan' = PlanSetupEnv(choices, p) /\ at' = 1 /\ host' = host
    BY DEF SetupEnvAgain, Call, machineVars
  <1>2. /\ plan' \in Seq(Steps)
        /\ Cleared(plan', "umount-root", "mount-overlay", p.root)
        /\ Cleared(plan', "umount-lower", "bind-lower", p.lower)
    BY <1>1, SetupIsShaped
  <1>3. (p.root <=> host.root > 0) /\ (p.lower <=> host.lower > 0)
    BY ProbedIsSeen
  <1> QED
    BY <1>1, <1>2, <1>3, PlanFreed

(* On a sound machine every step of a run keeps the mounts from stacking. *)
LEMMA MountsKept ==
    ASSUME RunInv, BindRootOK, world.refusals \subseteq {"record"}, MountsOK, RunStep PROVE MountsOK'
  <1> USE DEF Step1, End, machineVars
  <1>1. RunTypeOK /\ choices \in Choices /\ Staged(todo) /\ todo \in Seq(StageNames)
        /\ (status = "busy" => at <= Len(plan))
    BY WorldIsKnown DEF RunInv, RunTypeOK, ExecutorInv, InStep, BindRootOK, StageNames
  <1>2. host.root <= 1 /\ host.lower <= 1 /\ host.live /\ host.root \in Nat /\ host.lower \in Nat
    BY <1>1 DEF MountsOK, RunTypeOK, MachineTypeOK, Hosts
  <1> DEFINE AsBefore == host' = host /\ ~(phase' = "head" /\ todo' # <<>> /\ todo'[1] = "setupEnv")
  <1>3. AsBefore /\ phase' \notin {"plan", "replan"} => MountsOK'
    BY <1>2 DEF MountsOK
  <1>4. AsBefore /\ (phase' \in {"plan", "replan"} /\ status' \in {"running", "busy"} => MountsFreed')
        => MountsOK'
    BY <1>2 DEF MountsOK
  <1>5. ASSUME host' = host, plan' = plan, at' = at PROVE MountsFreed' = MountsFreed
    BY <1>5 DEF MountsFreed, Freed
  <1>6. CASE UNCHANGED <<runVars, world>>
    BY <1>5, <1>6 DEF MountsOK, runVars, runnerVars, executorVars, callVars
  <1>7. CASE Launch \/ Kill \/ SignalKills \/ Denied
    BY <1>3, <1>7 DEF Launch, Kill, SignalKills, Denied, AtSpaceCheck, Vanish
  <1>8. CASE AskedToStop \/ AllRunsDone
    BY <1>5, <1>8 DEF MountsOK, AskedToStop, RequestStop, AllRunsDone, runVars, runnerVars,
       executorVars, callVars
  <1>9. ASSUME NEW c \in world.choices, Begin(c) PROVE MountsOK'
    <2>1. /\ host' = [host EXCEPT !.final = IF @ = "good" THEN "old" ELSE @]
          /\ phase' = "checks"
      BY <1>9 DEF Begin
    <2>2. host'.root = host.root /\ host'.lower = host.lower /\ host'.live = host.live
      BY <1>1, <2>1 DEF RunTypeOK, MachineTypeOK, Hosts
    <2> QED
      BY <1>2, <2>1, <2>2 DEF MountsOK
  <1>10. ASSUME Progress PROVE MountsOK'
    <2>1. CASE CompressionUnsupported
      BY <1>3, <2>1 DEF CompressionUnsupported, RejectedStages
    <2>2. ASSUME NEW snapshotOk \in BOOLEAN, NEW tempOk \in BOOLEAN, CheckDirectories(snapshotOk, tempOk)
          PROVE  MountsOK'
      <3>1. /\ host' = host /\ phase' \in {"embed", "head"}
            /\ todo' = <<>> \/ todo' = <<"cleanUp", "abort">>
        BY <2>2 DEF CheckDirectories, MisplacedStages
      <3> QED
        BY <1>3, <3>1
    <2>3. CASE CreateEmbedded \/ InstallSignalCleanup \/ ExtractAssets \/ PrepareFails
      BY <1>3, <2>3 DEF CreateEmbedded, InstallSignalCleanup, ExtractAssets, PrepareFails
    <2>4. CASE ProbeAndPlan
      <3>1. phase' = "head" /\ host' = host /\ probes' \in Probed
        BY <2>4 DEF ProbeAndPlan
      <3>2. (probes'.root <=> host.root > 0) /\ (probes'.lower <=> host.lower > 0)
        <4>1. PICK p \in Probed : p = probes'
          BY <3>1
        <4> QED
          BY <4>1, ProbedIsSeen
      <3> QED
        BY <1>2, <3>1, <3>2 DEF MountsOK
    <2>5. CASE StageLoopEnds \/ StopSeenAtStage \/ PlannedAbort \/ SpaceRunsOut
      BY <1>3, <2>5 DEF StageLoopEnds, StopSeenAtStage, PlannedAbort, SpaceRunsOut, Closing
    <2>6. CASE RunStage
      <3>1. host' = host /\ phase' = "plan"
        BY <2>6 DEF RunStage
      <3> QED
        BY <1>1, <1>4, <2>6, <3>1, StageFreed
    <2>7. CASE SpaceSuffices \/ MoveWorkDir
      <3>1. /\ todo # <<>> /\ todo' = Tail(todo) /\ host' = host /\ phase' \in {"head", "reprobe"}
        BY <2>7 DEF SpaceSuffices, MoveWorkDir, AtSpaceCheck, NextStage
      <3>2. todo' # <<>> => todo'[1] # "setupEnv"
        BY <1>1, <3>1, StagedTail
      <3> QED
        BY <1>3, <3>1, <3>2
    <2>8. CASE SetupEnvAgain
      <3>1. host' = host /\ phase' = "replan"
        BY <2>8 DEF SetupEnvAgain
      <3> QED
        BY <1>1, <1>4, <2>8, <3>1, SetupFreed, ProbedAreProbes
    <2>9. HandleSignalStop => host' = host
      BY DEF HandleSignalStop
    <2>10. CASE CallGoesOn
      <3>1. /\ phase' = phase /\ todo' = todo /\ host' = host /\ plan' = plan /\ at' = at
            /\ status = "running" /\ InCall
        BY <2>9, <2>10 DEF CallGoesOn, runnerVars, HeadEnd, HeadStart, HeadStop
      <3>2. phase' \in {"plan", "replan"} => MountsFreed'
        BY <1>5, <3>1 DEF MountsOK
      <3> QED
        BY <1>4, <3>1, <3>2 DEF InCall
    <2>11. CASE CommandEnds
      <3>1. PICK r \in Results(Current.op) \cup Deniable : Finish(r.out) /\ host' = r.host
        BY <2>11 DEF CommandEnds
      <3>2. status = "busy" /\ todo' = todo /\ InCall /\ phase' \in {phase, "gone"}
            /\ phase \in {"plan", "replan"}
        BY <2>11 DEF CommandEnds, InCall, RunInv, DirOK
      <3>3. PICK n \in Nat, l \in Nat, c \in 0..1, d \in 0..1 :
              n = host'.root /\ l = host'.lower /\ c = host.root /\ d = host.lower
        <4>1. host' \in Hosts
          BY <1>1, <3>1, ResultsAreFine, DeniableIsFine DEF AllFine, Fine, RunTypeOK
        <4> QED
          BY <1>2, <4>1 DEF Hosts
      <3>4. Freed("umount-root", "mount-overlay", c) /\ Freed("umount-lower", "bind-lower", d)
        BY <3>2, <3>3 DEF MountsOK, MountsFreed
      <3>5. /\ host'.live
            /\ status' = "running" \/ host' # host =>
                 /\ Stacks(plan[at].op, "umount-root", "mount-overlay", c, n)
                 /\ Stacks(plan[at].op, "umount-lower", "bind-lower", d, l)
        BY <1>1, <1>2, <3>1, <3>3, CommandStacks DEF Current
      <3>6. status' = "running" \/ host' # host => n <= 1 /\ l <= 1
        BY <1>1, <3>2, <3>4, <3>5, FreedAdvances
      <3>7. n <= 1 /\ l <= 1
        BY <1>2, <3>3, <3>6
      <3>8. status' = "running" => MountsFreed'
        <4> HAVE status' = "running"
        <4>1. plan' = plan /\ at' = at + 1
          BY <1>1, <3>1, <3>2, FinishAdvances
        <4>2. Freed("umount-root", "mount-overlay", n)' /\ Freed("umount-lower", "bind-lower", l)'
          BY <1>1, <3>2, <3>4, <3>5, <4>1, FreedAdvances
        <4> QED
          BY <3>3, <4>2 DEF MountsFreed
      <3>9. status' # "busy"
        BY <3>1 DEF Finish, FinishQuiet, FinishSure, FinishAbort, FinishCheckRoot, FinishCheckLine,
           FinishLine, FinishEmbed, FinishRoot, Advance, GiveUp, Die
      <3> QED
        BY <3>2, <3>3, <3>5, <3>7, <3>8, <3>9 DEF MountsOK
    <2>12. CASE FailedCheckCommandEnds
      <3>1. status' \notin {"running", "busy"} /\ phase' # "head"
        BY <2>12 DEF FailedCheckCommandEnds, FailedCheckChown, FailedCheckOverlay, GiveUp, Die, InCall
      <3>2. host' = host \/ \E r \in Results("cleanup_overlay") : host' = r.host
        BY <2>12 DEF FailedCheckCommandEnds, Unchanged, Out
      <3>3. host'.root <= 1 /\ host'.lower <= 1 /\ host'.live
        <4>1. CASE host' = host
          BY <1>2, <4>1
        <4>2. ASSUME NEW r \in Results("cleanup_overlay"), host' = r.host
              PROVE  host'.root <= 1 /\ host'.lower <= 1 /\ host'.live
          <5>1. r.host.root <= host.root /\ r.host.lower <= host.lower /\ r.host.live
            BY <1>1, <1>2, HostStacks DEF Stacks, RunTypeOK
          <5>2. r.host \in Hosts
            BY <1>1, ResultsAreFine DEF AllFine, Fine, RunTypeOK
          <5> QED
            BY <1>2, <4>2, <5>1, <5>2 DEF Hosts
        <4> QED
          BY <3>2, <4>1, <4>2
      <3> QED
        BY <3>1, <3>3 DEF MountsOK
    <2>13. CASE CallReturns
      <3>1. /\ todo' = todo /\ host' = host /\ status = "returned" /\ phase \in {"plan", "replan"}
            /\ phase' \in {"head", "kill", "clear", "leave"}
            /\ (phase' = "head" => ~aborted)
        BY <2>13 DEF CallReturns, Closing
      <3>2. phase' = "head" => PlanGoes
        BY <3>1 DEF BindRootOK, Going
      <3> QED
        BY <1>1, <1>3, <3>1, <3>2, PlanLeaves
    <2>14. CASE InterruptCleanup \/ InterruptCleanupReturns \/ ClearSignalCleanup \/ Leave
      <3>1. host' = host /\ phase' \in {"interrupt", "clear", "leave", "gone", "ready"}
        BY <2>9, <2>14 DEF InterruptCleanup, InterruptCleanupReturns, ClearSignalCleanup, Leave, Closing
      <3> QED
        BY <1>3, <3>1
    <2> QED
      BY <1>10, <2>1, <2>2, <2>3, <2>4, <2>5, <2>6, <2>7, <2>8, <2>10, <2>11, <2>12, <2>13, <2>14
         DEF Progress
  <1> QED
    BY <1>6, <1>7, <1>8, <1>9, <1>10 DEF RunStep, RunNext

(***************************************************************************)
(* Where umount and mountpoint do their work, removing the overlay         *)
(* workspace never reaches the running system: no mount is ever stacked    *)
(* on another, so one umount frees each point before remove_all.           *)
(***************************************************************************)
THEOREM RunSparesLiveSystem == RunSpec => [](world.refusals \subseteq {"record"} => LiveSystemIntact)
  <1> DEFINE Sound == world.refusals \subseteq {"record"} => MountsOK
  <1>1. RunInit => Sound
    BY DEF RunInit, MountsOK, NewHost
  <1>2. RunInv /\ BindRootOK /\ Sound /\ RunStep => Sound'
    <2> SUFFICES ASSUME RunInv, BindRootOK, Sound, RunStep, world'.refusals \subseteq {"record"} PROVE MountsOK'
      OBVIOUS
    <2>1. world' = world
      BY DEF RunStep
    <2> QED
      BY <2>1, MountsKept
  <1>3. Sound => (world.refusals \subseteq {"record"} => LiveSystemIntact)
    BY DEF MountsOK, LiveSystemIntact
  <1> QED
    BY <1>1, <1>2, <1>3, BindRootIsKept, PTL DEF RunSpec, RunStep

(***************************************************************************)
(* The bind root, as BindRoot sees it.                                     *)
(***************************************************************************)

(* Whether the root is prepared, as a count that mount-overlay clears. *)
Prep(h) == IF h.prepared THEN 1 ELSE 0

(* On a sound machine no start finds a root that is prepared already. *)
PreparedOK ==
    /\ host.prepared => host.root > 0
    /\ phase \in {"plan", "replan"} /\ status \in {"running", "busy"} =>
          Freed("mount-overlay", "installed-to-live", Prep(host))

(* How the bind root goes on behind every command but installed-to-live. *)
RootLeft(h) ==
    \/ SameBindRoot(h)
    \/ h.root > 0 /\ ~h.prepared /\ h.conf = host.conf
    \/ host.root > 0 /\ ~h.prepared /\ h.conf = host.conf
    \/ host.conf = "whole" /\ h.root = 0 /\ ~h.prepared /\ h.conf = "none"
    \/ host.conf = "empty" /\ h.root = host.root /\ h.prepared = host.prepared /\ h.conf = "none"

LEMMA CommandsLeaveRoot ==
    ASSUME MachineTypeOK, host.prepared => host.root > 0,
           NEW op, op # "installed-to-live", NEW r \in Results(op)
    PROVE  RootLeft(r.host)
  <1>1. /\ host \in Hosts /\ host.root \in Nat
        /\ host.prepared \in BOOLEAN /\ host.conf \in {"none", "empty", "whole"} /\ RootLeft(host)
    BY DEF MachineTypeOK, Hosts, RootLeft, SameBindRoot
  <1>2. CASE op \notin Stirs \/ op = "mksquashfs"
    BY <1>2, BindRootLeft DEF RootLeft
  <1>3. CASE op = "umount-root"
    <2>1. r \in UmountRoot
      BY <1>3 DEF Results
    <2>2. PICK n \in UmountLeaves(host.root) :
             r = IF n < host.root
                 THEN Out("ok", [host EXCEPT !.root = n, !.prepared = FALSE], job)
                 ELSE Out("fail", host, job)
      BY <2>1 DEF UmountRoot
    <2>3. CASE n < host.root
      <3>1. r.host = [host EXCEPT !.root = n, !.prepared = FALSE]
        BY <2>2, <2>3 DEF Out
      <3>2. n \in Nat
        BY <1>1 DEF UmountLeaves
      <3>3. host.root > 0
        BY <1>1, <2>3, <3>2
      <3> QED
        BY <1>1, <3>1, <3>3 DEF RootLeft, Hosts
    <2>4. CASE ~(n < host.root)
      BY <1>1, <2>2, <2>4 DEF Out
    <2> QED
      BY <2>3, <2>4
  <1>4. CASE op = "mount-overlay"
    <2>1. PICK h : h = [host EXCEPT !.root = @ + 1, !.prepared = FALSE]
      OBVIOUS
    <2>2. h.root > 0 /\ ~h.prepared /\ h.conf = host.conf
      BY <1>1, <2>1 DEF Hosts
    <2>3. r \in OnHost(h) \cup Failing
      BY <1>4, <2>1 DEF Results, MountOverlay
    <2>4. r.host = host \/ r.host = h
      BY <2>3, HostUntouched
    <2> QED
      BY <1>1, <2>2, <2>4 DEF RootLeft
  <1>5. CASE op = "cleanup"
    <2>1. r \in Cleanup
      BY <1>5 DEF Results
    <2>2. CASE host.conf = "whole"
      <3>1. r.host = host \/ (r.host.root = 0 /\ ~r.host.prepared /\ r.host.conf \in {host.conf, "none"})
        BY <2>1, <2>2, CleanupLeaves
      <3>2. CASE r.host.root = 0 /\ ~r.host.prepared /\ r.host.conf = host.conf
        <4>1. CASE host.root > 0
          BY <3>2, <4>1 DEF RootLeft
        <4>2. CASE ~(host.root > 0)
          <5>1. host.root = 0 /\ host.prepared = FALSE
            BY <1>1, <4>2
          <5>2. r.host.prepared = FALSE
            <6>1. r.host \in Hosts
              BY ResultsAreFine DEF AllFine, Fine
            <6> QED
              BY <3>2, <6>1 DEF Hosts
          <5> QED
            BY <3>2, <5>1, <5>2 DEF RootLeft, SameBindRoot
        <4> QED
          BY <4>1, <4>2
      <3> QED
        BY <1>1, <2>2, <3>1, <3>2 DEF RootLeft
    <2>3. CASE host.conf # "whole"
      <3>1. /\ r.host.root = host.root /\ r.host.prepared = host.prepared
            /\ r.host.conf \in {host.conf, "none"} /\ host.conf \in {"none", "empty"}
        BY <1>1, <2>1, <2>3, CleanupLeaves
      <3> QED
        BY <3>1 DEF RootLeft, SameBindRoot
    <2> QED
      BY <2>2, <2>3
  <1>6. CASE op = "cleanup_overlay"
    <2> DEFINE GivesUp(h, n) == /\ h.root = n /\ (h.prepared <=> host.prepared /\ n = host.root)
                                /\ h.prepared \in BOOLEAN /\ h.conf = host.conf
    <2>1. r \in RemoveOverlay \cup LeaveOverlay
      BY <1>6 DEF Results, CleanupOverlay
    <2>2. PICK n \in UmountLeaves(host.root) \cup {host.root} : GivesUp(r.host, n)
      <3> DEFINE Left(n, l) == [host EXCEPT !.root = n, !.lower = l,
                                            !.prepared = @ /\ n = host.root,
                                            !.base = @ /\ n > 0,
                                            !.live = @ /\ ~(l > 0 \/ (n > 0 /\ host.prepared))]
                 Gone(n, l) == Out(IF l = 0 /\ n = 0 THEN "ok" ELSE "fail", Left(n, l), job)
                 Kept(n, l) == [host EXCEPT !.root = n, !.lower = l, !.prepared = @ /\ n = host.root]
                 Stayed(n, l) == Out("fail", Kept(n, l), job)
      <3>1. RemoveOverlay =
              { Gone(n, l) : n \in UmountLeaves(host.root), l \in UmountLeaves(host.lower) }
        BY DEF RemoveOverlay
      <3>2. LeaveOverlay =
              { Stayed(n, l) : n \in UmountLeaves(host.root) \cup {host.root},
                               l \in UmountLeaves(host.lower) \cup {host.lower} }
        BY DEF LeaveOverlay
      <3>3. ASSUME NEW n, NEW l PROVE GivesUp(Left(n, l), n) /\ GivesUp(Kept(n, l), n)
        BY <1>1 DEF Hosts
      <3> HIDE DEF Left, Kept, GivesUp
      <3>4. ASSUME NEW n, NEW l PROVE GivesUp(Gone(n, l).host, n) /\ GivesUp(Stayed(n, l).host, n)
        BY <3>3 DEF Out
      <3> HIDE DEF Gone, Stayed
      <3> QED
        BY <2>1, <3>1, <3>2, <3>4
    <2>3. CASE n = host.root
      <3>1. r.host.prepared = host.prepared
        BY <1>1, <2>2, <2>3
      <3> QED
        BY <2>2, <2>3, <3>1 DEF RootLeft, SameBindRoot
    <2>4. CASE n # host.root
      <3>1. host.root > 0
        BY <1>1, <2>4 DEF UmountLeaves
      <3>2. ~r.host.prepared
        BY <2>2, <2>4
      <3> QED
        BY <2>2, <3>1, <3>2 DEF RootLeft
    <2> QED
      BY <2>3, <2>4
  <1> QED
    BY <1>2, <1>3, <1>4, <1>5, <1>6 DEF Stirs

(* Seen through BindRoot: what leaves the three fields alone is no step of it. *)
LEMMA RootUnseen ==
    ASSUME SameBindRoot(host') PROVE UNCHANGED Root!rootVars
  BY DEF SameBindRoot, Root!rootVars

LEMMA RootSeen ==
    ASSUME MachineTypeOK, host' \in Hosts, RootLeft(host') PROVE [Root!RootNext]_Root!rootVars
  <1>1. /\ host.root \in Nat /\ host'.root \in Nat /\ host.prepared \in BOOLEAN
        /\ host'.prepared \in BOOLEAN
        /\ host.conf \in {"none", "empty", "whole"} /\ host'.conf \in {"none", "empty", "whole"}
    BY DEF MachineTypeOK, Hosts
  <1>2. CASE SameBindRoot(host')
    BY <1>2, RootUnseen
  <1>3. CASE host'.root > 0 /\ ~host'.prepared /\ host'.conf = host.conf
    <2>1. Root!Mount
      BY <1>3 DEF Root!Mount
    <2> QED
      BY <2>1 DEF Root!RootNext
  <1>4. CASE host.root > 0 /\ ~host'.prepared /\ host'.conf = host.conf
    <2>1. Root!Unmount
      BY <1>4 DEF Root!Unmount
    <2> QED
      BY <2>1 DEF Root!RootNext
  <1>5. CASE host.conf = "whole" /\ host'.root = 0 /\ ~host'.prepared /\ host'.conf = "none"
    <2>1. Root!CleanUp
      BY <1>5 DEF Root!CleanUp
    <2> QED
      BY <2>1 DEF Root!RootNext
  <1>6. CASE /\ host.conf = "empty" /\ host'.conf = "none"
             /\ host'.root = host.root /\ host'.prepared = host.prepared
    <2>1. Root!Discard
      BY <1>6 DEF Root!Discard
    <2> QED
      BY <2>1 DEF Root!RootNext
  <1> QED
    BY <1>2, <1>3, <1>4, <1>5, <1>6 DEF RootLeft

(* A start on a mounted root that is not prepared. *)
LEMMA StartSeen ==
    ASSUME MachineTypeOK, host' \in Hosts, host.root > 0, ~host.prepared, host'.root = host.root,
           host'.prepared => host'.conf \in {"empty", "whole"}
    PROVE  [Root!RootNext]_Root!rootVars
  <1>1. /\ host.root \in Nat /\ host.prepared \in BOOLEAN
        /\ host'.prepared \in BOOLEAN
        /\ host.conf \in {"none", "empty", "whole"} /\ host'.conf \in {"none", "empty", "whole"}
    BY DEF MachineTypeOK, Hosts
  <1>2. CASE host'.prepared
    <2>1. Root!Prepare
      BY <1>2 DEF Root!Prepare
    <2> QED
      BY <2>1 DEF Root!RootNext
  <1>3. CASE ~host'.prepared
    <2>1. host'.prepared = host.prepared
      BY <1>1, <1>3
    <2>2. Root!Record
      BY <1>1, <2>1 DEF Root!Record
    <2> QED
      BY <2>2 DEF Root!RootNext
  <1> QED
    BY <1>2, <1>3

(* planSetupEnv prepares the root once, behind mounting it. *)
LEMMA SetupPreparesOnce ==
    ASSUME NEW c \in Choices, NEW p \in Probes
    PROVE  Cleared(PlanSetupEnv(c, p), "mount-overlay", "installed-to-live", TRUE)
  <1> DEFINE X == <<Line("mountpoint-boot"), Strict("datetime_log")>>
             B == <<Strict("mkdir-stamp"), Strict("touch-stamp")>>
             C == <<Tolerant("installed-to-live"), CheckRoot>>
             D == <<Tolerant("embed_installer"), CheckRoot>>
             Once(s) == Cleared(s, "mount-overlay", "installed-to-live", TRUE)
             Alone(s) == Cleared(s, "mount-overlay", "installed-to-live", FALSE)
  <1>1. X \in Seq(Steps) /\ B \in Seq(Steps) /\ C \in Seq(Steps) /\ D \in Seq(Steps)
    BY StepsAreSteps DEF SetupOps
  <1>2. /\ Ops(X) = {"mountpoint-boot", "datetime_log"} /\ Ops(B) = {"mkdir-stamp", "touch-stamp"}
        /\ Ops(D) = {"embed_installer", "check"}
    BY StepsAreSteps DEF SetupOps, Ops
  <1>3. Alone(C)
    <2>1. Len(C) = 2 /\ C[2].op # "installed-to-live"
      BY DEF CheckRoot, Step
    <2> QED
      BY <2>1 DEF Cleared
  <1> HIDE DEF X, B, C, D
  <1>4. PICK o \in Seq(Steps) :
          /\ o = OverlaySetup(p) /\ "mount-overlay" \in Ops(o) /\ "installed-to-live" \notin Ops(o)
    BY OverlayIsSetUp
  <1>5. c.reset \in BOOLEAN /\ c.installer \in BOOLEAN
    BY DEF Choices
  <1>6. PICK b \in Seq(Steps) : b = Optional(c.reset, B) /\ Ops(b) \subseteq Ops(B)
    BY <1>1, <1>5, Optionally
  <1>7. PICK d \in Seq(Steps) : d = Optional(c.installer, D) /\ Ops(d) \subseteq Ops(D)
    BY <1>1, <1>5, Optionally
  <1>8. PICK a \in Seq(Steps) : a = X \o o /\ Ops(a) = Ops(X) \cup Ops(o)
    BY ONLY <1>1, Joined, o \in Seq(Steps), ZenonT(60)
  <1>9. PICK ab \in Seq(Steps) : ab = a \o b /\ Ops(ab) = Ops(a) \cup Ops(b)
    BY Joined
  <1>10. PICK abc \in Seq(Steps) : abc = ab \o C
    BY <1>1, Joined
  <1>11. "mount-overlay" \in Ops(ab) /\ "installed-to-live" \notin Ops(ab)
    BY <1>2, <1>4, <1>6, <1>8, <1>9
  <1>12. Once(abc)
    BY ONLY <1>1, <1>3, <1>10, <1>11, ab \in Seq(Steps), JoinedCleared
  <1>13. "installed-to-live" \notin Ops(d)
    BY <1>2, <1>7
  <1>14. Once(abc \o d)
    BY ONLY <1>12, <1>13, abc \in Seq(Steps), d \in Seq(Steps), JoinedCleared
  <1>15. abc \o d = PlanSetupEnv(c, p)
    BY ONLY <1>4, <1>6, <1>7, <1>8, <1>9, <1>10 DEF PlanSetupEnv, X, B, C, D
  <1> QED
    BY <1>14, <1>15

(* Every plan of a stage finds the root not prepared, or mounts it anew. *)
LEMMA PlansPrepareOnce ==
    ASSUME RunTypeOK, BindRootOK, choices \in Choices, Probed \subseteq Probes, RunStage \/ SetupEnvAgain
    PROVE  Freed("mount-overlay", "installed-to-live", Prep(host))'
  <1> DEFINE Once(s) == Cleared(s, "mount-overlay", "installed-to-live", TRUE)
  <1>1. at' = 1 /\ Once(plan')
    <2>1. CASE RunStage
      <3>1. /\ todo \in Seq(StageNames) /\ todo # <<>>
            /\ Stage = todo[1] /\ todo[1] \in WorkStages
        <4>1. todo \in Seq(StageNames) /\ todo # <<>> /\ Staged(todo)
          BY <2>1 DEF RunTypeOK, StageNames, RunStage, BindRootOK
        <4> QED
          BY <2>1, <4>1, StagedTail DEF RunStage, Stage
      <3>2. plan' = WorkPlan(todo[1], choices, probes) /\ at' = 1
        BY <2>1, <3>1 DEF RunStage, Call
      <3>3. CASE todo[1] = "setupEnv"
        <4>1. plan' = PlanSetupEnv(choices, probes) /\ probes \in Probes
          BY <3>2, <3>3 DEF WorkPlan, RunTypeOK
        <4> QED
          BY <3>2, <4>1, SetupPreparesOnce
      <3>4. CASE todo[1] # "setupEnv"
        <4>1. \A k \in 1..Len(plan') : plan'[k].op # "installed-to-live"
          <5>1. CASE todo[1] = "createIso"
            <6>1. Ops(plan') \subseteq ImageOps
              BY <3>2, <5>1, BurnIsShaped DEF WorkPlan
            <6> QED
              BY <6>1 DEF Ops, ImageOps
          <5>2. CASE todo[1] # "createIso"
            <6>1. plan' \in KeptPlans(choices)
              BY <3>1, <3>2, <3>4, <5>2 DEF WorkPlan, KeptPlans, WorkStages
            <6>2. KeepShape(plan')
              BY <6>1, OthersKeep
            <6> QED
              BY <6>2 DEF KeepShape, Stirs
          <5> QED
            BY <5>1, <5>2
        <4> QED
          BY <3>2, <4>1 DEF Cleared
      <3> QED
        BY <3>3, <3>4
    <2>2. CASE SetupEnvAgain
      <3>1. PICK p \in Probed : plan' = PlanSetupEnv(choices, p) /\ at' = 1
        BY <2>2 DEF SetupEnvAgain, Call
      <3> QED
        BY <3>1, SetupPreparesOnce
    <2> QED
      BY <2>1, <2>2
  <1> QED
    BY <1>1 DEF Cleared, Freed

(* A command of a run, by what is known of the root it starts on. *)
LEMMA CommandPrepares ==
    ASSUME RunInv, BindRootOK, MountsOK, PreparedOK, CommandEnds
    PROVE  /\ [Root!RootNext]_Root!rootVars
           /\ host'.prepared => host'.root > 0
           /\ Stacks(plan[at].op, "mount-overlay", "installed-to-live", Prep(host), Prep(host'))
  <1>1. /\ RunTypeOK /\ MachineTypeOK /\ at \in Nat /\ Len(plan) \in Nat /\ at >= 1 /\ at <= Len(plan)
        /\ status = "busy" /\ phase \in {"plan", "replan"}
    BY DEF RunInv, RunTypeOK, ExecutorTypeOK, ExecutorInv, InStep, CommandEnds, InCall, DirOK
  <1>2. PICK r \in Results(plan[at].op) \cup Deniable : host' = r.host
    BY DEF CommandEnds, Current
  <1>3. /\ Freed("umount-root", "mount-overlay", host.root)
        /\ Freed("mount-overlay", "installed-to-live", Prep(host))
    BY <1>1 DEF MountsOK, MountsFreed, PreparedOK
  <1>4. /\ host.root \in Nat /\ host.prepared \in BOOLEAN
        /\ host.prepared => host.root > 0
    BY <1>1 DEF MachineTypeOK, Hosts, PreparedOK
  <1>5. plan[at].op = "mount-overlay" => ~host.prepared
    <2>1. ~ \E k \in at..at - 1 : plan[k].op = "umount-root"
      BY <1>1
    <2>2. plan[at].op = "mount-overlay" => host.root = 0
      BY <1>1, <1>3, <2>1 DEF Freed
    <2> QED
      BY <1>4, <2>2
  <1>6. ASSUME plan[at].op = "installed-to-live"
        PROVE  ~host.prepared /\ host.root > 0
    <2>1. at \in at..Len(plan) /\ ~ \E k \in at..at - 1 : plan[k].op = "mount-overlay"
      BY <1>1
    <2>2. Prep(host) = 0 /\ \A k \in at + 1..Len(plan) : plan[k].op # "installed-to-live"
      BY <1>3, <1>6, <2>1 DEF Freed
    <2>3. PlanGoes
      BY <1>1 DEF BindRootOK, Going
    <2>4. PICK m \in Nat, j \in Nat : SetupGoes(m, j)
      <3>1. ~BurnGoes /\ ~KeepGoes
        BY <1>1, <1>6 DEF BurnGoes, BurnShape, KeepGoes, KeepShape, Stirs
      <3> QED
        BY <2>3, <3>1 DEF PlanGoes
    <2>5. /\ m \in Nat \ {0} /\ m + 1 < j /\ j < Len(plan) /\ plan[j].op = "installed-to-live"
          /\ plan[j + 1].op # "installed-to-live"
          /\ \A k \in (m + 2..j - 1) \cup (j + 2..Len(plan)) : plan[k].op \notin Stirs
          /\ at \in m + 2..j + 1 => host.root > 0
      BY <2>4 DEF SetupGoes, SetupShape, CheckRoot, Step
    <2>6. ~(j \in at + 1..Len(plan))
      BY <2>2, <2>5
    <2>7. at # j + 1 /\ ~(at \in j + 2..Len(plan))
      BY <1>6, <2>5 DEF Stirs
    <2>8. at \in m + 2..j + 1
      BY <1>1, <2>5, <2>6, <2>7
    <2> QED
      BY <2>2, <2>5, <2>8 DEF Prep
  <1>7. host' \in Hosts
    BY <1>1, <1>2, ResultsAreFine, DeniableIsFine DEF AllFine, Fine
  <1>8. CASE SameBindRoot(host')
    <2>1. Prep(host') = Prep(host) /\ Prep(host) \in 0..1
      BY <1>8 DEF SameBindRoot, Prep
    <2>2. Stacks(plan[at].op, "mount-overlay", "installed-to-live", Prep(host), Prep(host'))
      BY <1>5, <2>1 DEF Stacks, Prep
    <2> QED
      BY <1>4, <1>8, <2>2, RootUnseen DEF SameBindRoot
  <1>9. CASE plan[at].op # "installed-to-live" /\ r \in Results(plan[at].op)
    <2>1. RootLeft(host')
      BY <1>1, <1>2, <1>4, <1>9, CommandsLeaveRoot
    <2>2. /\ host'.prepared => host'.root > 0
          /\ host'.prepared => host.prepared
      BY <1>4, <2>1 DEF RootLeft, SameBindRoot
    <2>3. Stacks(plan[at].op, "mount-overlay", "installed-to-live", Prep(host), Prep(host'))
      BY <1>5, <1>9, <2>2 DEF Stacks, Prep
    <2> QED
      BY <1>1, <1>7, <2>1, <2>2, <2>3, RootSeen
  <1>10. CASE plan[at].op = "installed-to-live" /\ r \in Results(plan[at].op)
    <2>1. /\ host'.root = host.root /\ (host'.prepared => host'.conf \in {"empty", "whole"})
          /\ host.root > 0 /\ ~host.prepared
      BY <1>1, <1>2, <1>6, <1>10, StartLeaves DEF Results
    <2>2. Stacks(plan[at].op, "mount-overlay", "installed-to-live", Prep(host), Prep(host'))
      BY <1>10 DEF Stacks, Prep
    <2> QED
      BY <1>1, <1>7, <2>1, <2>2, StartSeen
  <1>11. CASE r \in Deniable
    <2>1. host' = host
      BY <1>2, <1>11, HostUntouched
    <2> QED
      BY <1>8, <2>1 DEF SameBindRoot
  <1> QED
    BY <1>2, <1>8, <1>9, <1>10, <1>11

(* On a sound machine every step of a run is one of BindRoot, or none. *)
LEMMA PreparedKept ==
    ASSUME RunInv, BindRootOK, MountsOK, PreparedOK, RunStep
    PROVE  PreparedOK' /\ [Root!RootNext]_Root!rootVars
  <1> USE DEF Step1, End, machineVars
  <1>1. /\ RunTypeOK /\ MachineTypeOK /\ choices \in Choices
        /\ (status = "busy" => at <= Len(plan))
        /\ host.prepared => host.root > 0
    BY WorldIsKnown DEF RunInv, RunTypeOK, ExecutorInv, InStep, PreparedOK
  <1> DEFINE Calling == phase' \in {"plan", "replan"} /\ status' \in {"running", "busy"}
             Once == Freed("mount-overlay", "installed-to-live", Prep(host))
  <1>2. SameBindRoot(host') /\ (Calling => Once') => PreparedOK' /\ [Root!RootNext]_Root!rootVars
    BY <1>1, RootUnseen DEF PreparedOK, SameBindRoot
  <1>3. host' = host => SameBindRoot(host')
    BY DEF SameBindRoot
  <1>4. host' = host /\ plan' = plan /\ at' = at => Once' = Once
    BY DEF Freed, Prep
  <1> HIDE DEF Once
  <1>5. Once \/ phase \notin {"plan", "replan"} \/ status \notin {"running", "busy"}
    BY DEF PreparedOK, Once
  <1>6. CASE UNCHANGED <<runVars, world>> \/ AskedToStop \/ AllRunsDone
    <2>1. /\ host' = host /\ plan' = plan /\ at' = at /\ phase' = phase
          /\ status' = status
      BY <1>6 DEF AskedToStop, RequestStop, AllRunsDone, runVars, runnerVars, executorVars, callVars
    <2> QED
      BY <1>2, <1>3, <1>4, <1>5, <2>1
  <1>7. CASE Launch \/ Kill \/ SignalKills \/ Denied
    BY <1>2, <1>3, <1>7 DEF Launch, Kill, SignalKills, Denied, AtSpaceCheck, Vanish
  <1>8. ASSUME NEW c \in world.choices, Begin(c) PROVE PreparedOK' /\ [Root!RootNext]_Root!rootVars
    <2>1. host' = [host EXCEPT !.final = IF @ = "good" THEN "old" ELSE @] /\ phase' = "checks"
      BY <1>8 DEF Begin
    <2>2. SameBindRoot(host')
      BY <1>1, <2>1 DEF SameBindRoot, MachineTypeOK, Hosts
    <2> QED
      BY <1>2, <2>1, <2>2
  <1>9. ASSUME Progress PROVE PreparedOK' /\ [Root!RootNext]_Root!rootVars
    <2>1. HandleSignalStop => host' = host
      BY DEF HandleSignalStop
    <2>2. CASE CompressionUnsupported \/ CreateEmbedded \/ InstallSignalCleanup \/ ExtractAssets
               \/ PrepareFails \/ ProbeAndPlan
      BY <1>2, <1>3, <2>2 DEF CompressionUnsupported, CreateEmbedded, InstallSignalCleanup,
         ExtractAssets, PrepareFails, ProbeAndPlan
    <2>3. ASSUME NEW snapshotOk \in BOOLEAN, NEW tempOk \in BOOLEAN, CheckDirectories(snapshotOk, tempOk)
          PROVE  PreparedOK' /\ [Root!RootNext]_Root!rootVars
      <3>1. host' = host /\ phase' \in {"embed", "head"}
        BY <2>3 DEF CheckDirectories
      <3> QED
        BY <1>2, <1>3, <3>1
    <2>4. CASE StageLoopEnds \/ StopSeenAtStage \/ PlannedAbort \/ SpaceRunsOut \/ SpaceSuffices \/ MoveWorkDir
      BY <1>2, <1>3, <2>4 DEF StageLoopEnds, StopSeenAtStage, PlannedAbort, SpaceRunsOut, SpaceSuffices,
         MoveWorkDir, AtSpaceCheck, Closing
    <2>5. CASE RunStage \/ SetupEnvAgain
      <3>1. host' = host
        BY <2>5 DEF RunStage, SetupEnvAgain
      <3>2. Once'
        BY <1>1, <2>5, PlansPrepareOnce, ProbedAreProbes DEF Once
      <3> QED
        BY <1>2, <1>3, <3>1, <3>2
    <2>6. CASE CallGoesOn
      <3>1. /\ phase' = phase /\ host' = host /\ plan' = plan /\ at' = at
            /\ status = "running"
        BY <2>1, <2>6 DEF CallGoesOn, runnerVars, HeadEnd, HeadStart, HeadStop
      <3> QED
        BY <1>2, <1>3, <1>4, <1>5, <3>1
    <2>7. CASE CommandEnds
      <3>1. /\ [Root!RootNext]_Root!rootVars
            /\ host'.prepared => host'.root > 0
            /\ Stacks(plan[at].op, "mount-overlay", "installed-to-live", Prep(host), Prep(host'))
        BY <2>7, CommandPrepares
      <3>2. PICK r \in Results(Current.op) \cup Deniable : Finish(r.out)
        BY <2>7 DEF CommandEnds
      <3>3. status = "busy" /\ InCall /\ phase' \in {phase, "gone"} /\ phase \in {"plan", "replan"}
        BY <2>7 DEF CommandEnds, InCall, RunInv, DirOK
      <3>4. status' # "busy"
        BY <3>2 DEF Finish, FinishQuiet, FinishSure, FinishAbort, FinishCheckRoot, FinishCheckLine,
           FinishLine, FinishEmbed, FinishRoot, Advance, GiveUp, Die
      <3>5. status' = "running" => Freed("mount-overlay", "installed-to-live", Prep(host))'
        <4> HAVE status' = "running"
        <4>1. plan' = plan /\ at' = at + 1
          BY <1>1, <3>2, <3>3, FinishAdvances
        <4>2. PICK c \in 0..1, n \in Nat : c = Prep(host) /\ n = Prep(host')
          BY DEF Prep
        <4>3. Freed("mount-overlay", "installed-to-live", c)
          BY <1>5, <3>3, <4>2 DEF Once
        <4>4. Freed("mount-overlay", "installed-to-live", n)'
          BY <1>1, <3>1, <3>3, <4>1, <4>2, <4>3, FreedAdvances
        <4> QED
          BY <4>2, <4>4 DEF Freed, Prep
      <3> QED
        BY <3>1, <3>4, <3>5 DEF PreparedOK
    <2>8. CASE FailedCheckCommandEnds
      <3>1. status' \notin {"running", "busy"}
        BY <2>8 DEF FailedCheckCommandEnds, FailedCheckChown, FailedCheckOverlay, GiveUp, Die
      <3>2. host' = host \/ \E r \in Results("cleanup_overlay") : host' = r.host
        BY <2>8 DEF FailedCheckCommandEnds, Unchanged, Out
      <3>3. CASE host' = host
        BY <1>2, <1>3, <3>1, <3>3
      <3>4. ASSUME NEW r \in Results("cleanup_overlay"), host' = r.host
            PROVE  PreparedOK' /\ [Root!RootNext]_Root!rootVars
        <4>1. RootLeft(host') /\ host' \in Hosts
          BY <1>1, <3>4, CommandsLeaveRoot, ResultsAreFine DEF AllFine, Fine
        <4>2. host'.prepared => host'.root > 0
          BY <1>1, <4>1 DEF RootLeft, SameBindRoot
        <4> QED
          BY <1>1, <3>1, <4>1, <4>2, RootSeen DEF PreparedOK
      <3> QED
        BY <3>2, <3>3, <3>4
    <2>9. CASE CallReturns \/ InterruptCleanup \/ InterruptCleanupReturns \/ ClearSignalCleanup \/ Leave
      <3>1. host' = host /\ phase' \notin {"plan", "replan"}
        BY <2>1, <2>9 DEF CallReturns, InterruptCleanup, InterruptCleanupReturns, ClearSignalCleanup,
           Leave, Closing
      <3> QED
        BY <1>2, <1>3, <3>1
    <2> QED
      BY <1>9, <2>2, <2>3, <2>4, <2>5, <2>6, <2>7, <2>8, <2>9 DEF Progress
  <1> QED
    BY <1>6, <1>7, <1>8, <1>9 DEF RunStep, RunNext

(***************************************************************************)
(* Where umount does its work, every run, and every run after a run that   *)
(* was cut short, keeps BindRoot: setupEnv mounts the root anew before it  *)
(* starts installed-to-live, so no start -F throws the record of a         *)
(* prepared root away, and what is prepared the next cleanup unmounts,     *)
(* unless a refused write emptied its record.                              *)
(***************************************************************************)
THEOREM RunKeepsBindRoot == RunSpec /\ world.refusals \subseteq {"record"} => KeepsBindRoot
  <1> DEFINE Sound == world.refusals \subseteq {"record"}
             Inv == MountsOK /\ PreparedOK
  <1>1. RunInit => Inv /\ Root!RootInit
    BY DEF RunInit, MountsOK, PreparedOK, NewHost, Root!RootInit
  <1>2. RunInv /\ BindRootOK /\ Sound /\ Inv /\ RunStep
          => Sound' /\ Inv' /\ [Root!RootNext]_Root!rootVars
    <2> SUFFICES ASSUME RunInv, BindRootOK, Sound, Inv, RunStep
                 PROVE  Sound' /\ Inv' /\ [Root!RootNext]_Root!rootVars
      OBVIOUS
    <2>1. world' = world
      BY DEF RunStep
    <2> QED
      BY <2>1, MountsKept, PreparedKept
  <1> QED
    BY <1>1, <1>2, BindRootIsKept, PTL DEF RunSpec, RunStep, KeepsBindRoot, Root!RootSpec

----------------------------------------------------------------------------
(* What the commands do to the image and its parts. *)

(* The commands that write under the image's final name. *)
FinalOps == {"publish-iso", "isohybrid", "xorriso-final"}
(* The commands that make the image's parts. *)
PartOps == {"copy-vmlinuz", "mksquashfs", "move-linuxfs", "xorriso"}

SameParts(j) ==
    j.kernel = job.kernel /\ j.linuxfs = job.linuxfs /\ j.iso2 = job.iso2 /\ j.tmp = job.tmp

(* The ways to come out that leave the run's files as they were. *)
LEMMA JobUntouched ==
    /\ \A h : \A r \in OnHost(h) : r.job = job
    /\ \A o : \A r \in Unchanged(o) \cup Maybe(o) \cup Failing : r.job = job
    /\ \A b : \A r \in Verdict(b) \cup Mountpoint(b) : r.job = job
    /\ \A j : \A r \in OnJob(j) : r.job = j \/ (r.job = job /\ r.out = "fail")
    /\ \A r \in Deniable : r.job = job
  <1>1. \A o : \A r \in Unchanged(o) : r.job = job /\ r.out \in o
    BY DEF Unchanged, Out
  <1>2. \A r \in Failing : r.job = job /\ r.out = "fail"
    BY <1>1 DEF Failing
  <1>3. \A o : \A r \in Maybe(o) : r.job = job
    BY <1>1 DEF Maybe
  <1>4. \A b : \A r \in Verdict(b) \cup Mountpoint(b) : r.job = job
    BY <1>1 DEF Verdict, Mountpoint
  <1>5. \A j : \A r \in OnJob(j) : r.job = j \/ (r.job = job /\ r.out = "fail")
    BY <1>2 DEF OnJob, Out
  <1>6. \A h : \A r \in OnHost(h) : r.job = job
    BY <1>2 DEF OnHost, Out
  <1>7. \A r \in Deniable : r.job = job
    BY <1>1 DEF Deniable
  <1> QED
    BY <1>1, <1>2, <1>3, <1>4, <1>5, <1>6, <1>7

(* The commands of mounts and of installed-to-live. *)
MountOps == {"mkdir-overlay", "umount-root", "umount-lower", "bind-lower", "mount-overlay",
             "installed-to-live", "cleanup", "cleanup_overlay"}

(* They leave the run's files alone, and the image under its final name. *)
LEMMA MountsLeaveImage ==
    ASSUME MachineTypeOK, NEW op \in MountOps, NEW r \in Results(op)
    PROVE  r.job = job /\ r.host.final = host.final
  <1> DEFINE Good(q) == q.job = job /\ q.host.final = host.final
  <1>1. \A o, h : Out(o, h, job).job = job /\ Out(o, h, job).host = h
    BY DEF Out
  <1>2. ASSUME NEW h, h.final = host.final PROVE \A q \in OnHost(h) \cup Failing : Good(q)
    BY <1>2, HostUntouched, JobUntouched
  <1>3. \A o : Good(Out(o, host, job))
    BY <1>1
  <1>4. CASE op \in {"mkdir-overlay", "bind-lower", "mount-overlay"}
    <2>1. PICK b : b = [host EXCEPT !.base = TRUE]
      OBVIOUS
    <2>2. PICK l : l = [host EXCEPT !.lower = @ + 1]
      OBVIOUS
    <2>3. PICK m : m = [host EXCEPT !.root = @ + 1, !.prepared = FALSE]
      OBVIOUS
    <2>4. \A h \in {b, l, m} : h.final = host.final
      BY <2>1, <2>2, <2>3 DEF MachineTypeOK, Hosts
    <2>5. Results(op) \subseteq OnHost(b) \cup OnHost(l) \cup OnHost(m) \cup Failing
      BY <1>4, <2>1, <2>2, <2>3 DEF Results, BindLower, MountOverlay
    <2> QED
      BY <1>2, <2>4, <2>5
  <1>5. CASE op \in {"installed-to-live", "cleanup"}
    BY <1>5, StartLeaves, CleanupLeaves DEF Results
  <1>6. CASE op = "umount-root"
    <2> DEFINE Leaving(n) == IF n < host.root
                             THEN Out("ok", [host EXCEPT !.root = n, !.prepared = FALSE], job)
                             ELSE Out("fail", host, job)
    <2>1. UmountRoot = { Leaving(n) : n \in UmountLeaves(host.root) }
      BY DEF UmountRoot
    <2>2. ASSUME NEW n PROVE Good(Leaving(n))
      <3>1. PICK u : u = [host EXCEPT !.root = n, !.prepared = FALSE]
        OBVIOUS
      <3>2. u.final = host.final
        BY <3>1 DEF MachineTypeOK, Hosts
      <3> QED
        BY <1>1, <3>1, <3>2, ZenonT(60)
    <2> HIDE DEF Leaving
    <2>3. Results(op) = UmountRoot
      BY <1>6 DEF Results
    <2> QED
      BY <2>1, <2>2, <2>3
  <1>7. CASE op = "umount-lower"
    <2> DEFINE Leaving(n) == Out(IF n < host.lower THEN "ok" ELSE "fail", [host EXCEPT !.lower = n], job)
    <2>1. UmountLower = { Leaving(n) : n \in UmountLeaves(host.lower) }
      BY DEF UmountLower
    <2>2. ASSUME NEW n PROVE Good(Leaving(n))
      <3>1. PICK u : u = [host EXCEPT !.lower = n]
        OBVIOUS
      <3>2. u.final = host.final
        BY <3>1 DEF MachineTypeOK, Hosts
      <3>3. PICK o : o = IF n < host.lower THEN "ok" ELSE "fail"
        OBVIOUS
      <3>4. Leaving(n) = Out(o, u, job)
        BY <3>1, <3>3
      <3> HIDE DEF Leaving
      <3> QED
        BY <1>1, <3>2, <3>4
    <2> HIDE DEF Leaving
    <2>3. Results(op) = UmountLower
      BY <1>7 DEF Results
    <2> QED
      BY <2>1, <2>2, <2>3
  <1>8. CASE op = "cleanup_overlay"
    <2> DEFINE Left(n, l) ==
          LET reached == l > 0 \/ (n > 0 /\ host.prepared) IN
          Out(IF l = 0 /\ n = 0 THEN "ok" ELSE "fail",
              [host EXCEPT !.root = n, !.lower = l,
                           !.prepared = @ /\ n = host.root,
                           !.base = @ /\ n > 0,
                           !.live = @ /\ ~reached],
              job)
    <2>1. RemoveOverlay =
             { Left(n, l) : n \in UmountLeaves(host.root), l \in UmountLeaves(host.lower) }
      BY DEF RemoveOverlay
    <2>2. ASSUME NEW n, NEW l PROVE Good(Left(n, l))
      <3> DEFINE h == [host EXCEPT !.root = n, !.lower = l,
                                   !.prepared = @ /\ n = host.root,
                                   !.base = @ /\ n > 0,
                                   !.live = @ /\ ~(l > 0 \/ (n > 0 /\ host.prepared))]
                 o == IF l = 0 /\ n = 0 THEN "ok" ELSE "fail"
      <3>1. h.final = host.final
        BY DEF MachineTypeOK, Hosts
      <3>2. Left(n, l) = Out(o, h, job)
        OBVIOUS
      <3> HIDE DEF h, o, Left
      <3> QED
        BY <1>1, <3>1, <3>2
    <2> HIDE DEF Left
    <2>3. ASSUME NEW n, NEW l
          PROVE  [host EXCEPT !.root = n, !.lower = l, !.prepared = @ /\ n = host.root].final = host.final
      BY DEF MachineTypeOK, Hosts
    <2> DEFINE Kept(n, l) ==
          Out("fail", [host EXCEPT !.root = n, !.lower = l, !.prepared = @ /\ n = host.root], job)
    <2>4. LeaveOverlay = { Kept(n, l) : n \in UmountLeaves(host.root) \cup {host.root},
                                       l \in UmountLeaves(host.lower) \cup {host.lower} }
      BY DEF LeaveOverlay
    <2>5. ASSUME NEW n, NEW l PROVE Good(Kept(n, l))
      <3>1. PICK h : h = [host EXCEPT !.root = n, !.lower = l, !.prepared = @ /\ n = host.root]
        OBVIOUS
      <3>2. Kept(n, l) = Out("fail", h, job)
        BY <3>1
      <3>3. h.final = host.final
        BY ONLY <2>3, <3>1
      <3> HIDE DEF Kept
      <3> QED
        BY <1>1, <3>2, <3>3
    <2> HIDE DEF Kept
    <2>6. \A q \in LeaveOverlay : Good(q)
      BY <2>4, <2>5
    <2>7. Results(op) \subseteq RemoveOverlay \cup LeaveOverlay
      BY <1>8 DEF Results, CleanupOverlay
    <2> QED
      BY <2>1, <2>2, <2>6, <2>7
  <1> QED
    BY <1>4, <1>5, <1>6, <1>7, <1>8 DEF MountOps

(* Every other command leaves the image's parts alone. *)
LEMMA OthersLeaveParts ==
    ASSUME MachineTypeOK, NEW op, op \notin PartOps \cup FinalOps, NEW r \in Results(op)
    PROVE  SameParts(r.job)
  <1>1. SameParts(job)
    BY DEF SameParts
  <1>2. \A j : SameParts(j) => \A q \in OnJob(j) : SameParts(q.job)
    BY <1>1, JobUntouched
  <1>3. /\ \A p : SameParts([job EXCEPT !.initrd = p])
        /\ \A w : SameParts([job EXCEPT !.work["W1"] = w])
    BY DEF SameParts, MachineTypeOK, Jobs
  <1>4. \A q \in PackInitrd : SameParts(q.job)
    <2>1. \A q \in PackInitrd : q \in OnJob([job EXCEPT !.initrd = "good"])
                                \/ q.job = [job EXCEPT !.initrd = "partial"]
      BY DEF PackInitrd, Out
    <2> QED
      BY <1>2, <1>3, <2>1
  <1>5. \A q \in ExtractTemplate : SameParts(q.job)
    <2>1. PICK w : w = IF job.work["W1"] = "gone" THEN "bare" ELSE job.work["W1"]
      OBVIOUS
    <2>2. ExtractTemplate = OnJob([job EXCEPT !.work["W1"] = w])
      BY <2>1 DEF ExtractTemplate, MachineTypeOK, Jobs
    <2> QED
      BY <1>2, <1>3, <2>2
  <1>6. \A q \in PopulateInitrd : SameParts(q.job)
    <2>1. PICK w : w = IF job.work["W1"] = "workspace" THEN job.work["W1"] ELSE "husk"
      OBVIOUS
    <2>2. PICK made : made = [job EXCEPT !.work["W1"] = w]
      OBVIOUS
    <2>3. \A q \in PopulateInitrd : q \in OnJob(made) \/ q.job = made
      BY <2>1, <2>2 DEF PopulateInitrd, Out, MachineTypeOK, Jobs
    <2> QED
      BY <1>2, <1>3, <2>2, <2>3
  <1>7. \A q \in CopyModules : SameParts(q.job)
    BY <1>1, JobUntouched DEF CopyModules
  <1>8. op \in MountOps => SameParts(r.job)
    BY <1>1, MountsLeaveImage
  <1>9. op \notin MountOps => SameParts(r.job)
    BY <1>1, <1>4, <1>5, <1>6, <1>7, JobUntouched DEF Results, PartOps, FinalOps, MountOps
  <1> QED
    BY <1>8, <1>9

(* What each command of the image leaves of its parts. *)
LEMMA PartsLeft ==
    ASSUME MachineTypeOK, NEW op, NEW r \in Results(op)
    PROVE  /\ op # "copy-vmlinuz" => r.job.kernel = job.kernel
           /\ op = "copy-vmlinuz" /\ r.out = "ok" => r.job.kernel = "good"
           /\ op \notin {"mksquashfs", "move-linuxfs"} => r.job.linuxfs = job.linuxfs
           /\ op = "mksquashfs" /\ r.out = "ok" /\ host.root > 0 => r.job.linuxfs = "good"
           /\ op # "move-linuxfs" => r.job.iso2 = job.iso2
           /\ op = "move-linuxfs" /\ r.out = "ok" => r.job.iso2 = job.linuxfs
           /\ op \notin {"xorriso", "publish-iso"} => r.job.tmp = job.tmp
           /\ op = "xorriso" /\ r.out = "ok" /\ job.kernel = "good" /\ job.iso2 = "good" =>
                 r.job.tmp = "good"
  <1>1. op \notin PartOps \cup FinalOps => SameParts(r.job)
    BY OthersLeaveParts
  <1> DEFINE Parted(j, k, l, i, t) == j.kernel = k /\ j.linuxfs = l /\ j.iso2 = i /\ j.tmp = t
  <1>2. ASSUME NEW p, NEW q
        PROVE  /\ Parted([job EXCEPT !.kernel = p], p, job.linuxfs, job.iso2, job.tmp)
               /\ Parted([job EXCEPT !.linuxfs = p], job.kernel, p, job.iso2, job.tmp)
               /\ Parted([job EXCEPT !.iso2 = p, !.linuxfs = q], job.kernel, q, p, job.tmp)
               /\ Parted([job EXCEPT !.tmp = p], job.kernel, job.linuxfs, job.iso2, p)
    BY DEF MachineTypeOK, Jobs
  <1>3. Parted(job, job.kernel, job.linuxfs, job.iso2, job.tmp)
    OBVIOUS
  <1>4. CASE op = "copy-vmlinuz"
    <2>1. \/ r.job = [job EXCEPT !.kernel = "good"]
          \/ r.out = "fail" /\ r.job \in {job, [job EXCEPT !.kernel = "partial"]}
      BY <1>4, JobUntouched DEF Results, Out
    <2>2. PICK g : g = [job EXCEPT !.kernel = "good"]
      OBVIOUS
    <2>3. PICK b : b = [job EXCEPT !.kernel = "partial"]
      OBVIOUS
    <2>4. Parted(g, "good", job.linuxfs, job.iso2, job.tmp)
          /\ Parted(b, "partial", job.linuxfs, job.iso2, job.tmp)
      BY <1>2, <2>2, <2>3
    <2>5. r.job = g \/ (r.out = "fail" /\ r.job \in {job, b})
      BY <2>1, <2>2, <2>3
    <2> HIDE DEF Parted
    <2>6. /\ Parted(r.job, r.job.kernel, job.linuxfs, job.iso2, job.tmp)
          /\ r.out = "ok" => r.job.kernel = "good"
      BY <1>3, <2>4, <2>5 DEF Parted
    <2> QED
      BY <1>4, <2>6 DEF Parted
  <1>5. CASE op = "mksquashfs"
    <2>1. PICK squashed : squashed = IF host.root = 0 THEN "partial" ELSE "good"
      OBVIOUS
    <2>2. \/ r.job = [job EXCEPT !.linuxfs = squashed]
          \/ r.out = "fail" /\ r.job \in {job, [job EXCEPT !.linuxfs = "partial"]}
      BY <1>5, <2>1, JobUntouched DEF Results, Squash, Out
    <2>3. host.root > 0 => squashed = "good"
      BY <2>1 DEF MachineTypeOK, Hosts
    <2>4. \A p : Parted([job EXCEPT !.linuxfs = p], job.kernel, p, job.iso2, job.tmp)
      BY <1>2
    <2>5. PICK g : g = [job EXCEPT !.linuxfs = squashed]
      OBVIOUS
    <2>6. PICK b : b = [job EXCEPT !.linuxfs = "partial"]
      OBVIOUS
    <2>7. Parted(g, job.kernel, squashed, job.iso2, job.tmp) /\ Parted(b, job.kernel, "partial", job.iso2, job.tmp)
      BY <2>4, <2>5, <2>6
    <2>8. r.job = g \/ (r.out = "fail" /\ r.job \in {job, b})
      BY <2>2, <2>5, <2>6
    <2> HIDE DEF Parted
    <2>9. Parted(r.job, job.kernel, r.job.linuxfs, job.iso2, job.tmp) /\ (r.out = "ok" => r.job.linuxfs = squashed)
      BY <1>3, <2>7, <2>8 DEF Parted
    <2> QED
      BY <1>5, <2>3, <2>9 DEF Parted
  <1>6. CASE op = "move-linuxfs"
    <2>1. \/ r.job = [job EXCEPT !.iso2 = job.linuxfs, !.linuxfs = "none"]
          \/ r.out = "fail" /\ r.job = job
      BY <1>6, JobUntouched DEF Results
    <2>2. Parted([job EXCEPT !.iso2 = job.linuxfs, !.linuxfs = "none"], job.kernel, "none",
                 job.linuxfs, job.tmp)
      BY <1>2
    <2> QED
      BY <1>3, <1>6, <2>1, <2>2
  <1>7. CASE op = "xorriso"
    <2>1. PICK burnt : burnt = IF Burnt = "none" THEN "partial" ELSE Burnt
      OBVIOUS
    <2>2. \/ r.job = [job EXCEPT !.tmp = burnt]
          \/ r.out = "fail" /\ r.job \in {job, [job EXCEPT !.tmp = "partial"]}
      BY <1>7, <2>1, JobUntouched DEF Results, Xorriso, Out
    <2>3. job.kernel = "good" /\ job.iso2 = "good" => burnt = "good"
      BY <2>1 DEF Burnt
    <2>4. \A p : Parted([job EXCEPT !.tmp = p], job.kernel, job.linuxfs, job.iso2, p)
      BY <1>2
    <2>5. PICK g : g = [job EXCEPT !.tmp = burnt]
      OBVIOUS
    <2>6. PICK b : b = [job EXCEPT !.tmp = "partial"]
      OBVIOUS
    <2>7. Parted(g, job.kernel, job.linuxfs, job.iso2, burnt) /\ Parted(b, job.kernel, job.linuxfs, job.iso2, "partial")
      BY <2>4, <2>5, <2>6
    <2>8. r.job = g \/ (r.out = "fail" /\ r.job \in {job, b})
      BY <2>2, <2>5, <2>6
    <2> HIDE DEF Parted
    <2>9. Parted(r.job, job.kernel, job.linuxfs, job.iso2, r.job.tmp) /\ (r.out = "ok" => r.job.tmp = burnt)
      BY <1>3, <2>7, <2>8 DEF Parted
    <2> QED
      BY <1>7, <2>3, <2>9 DEF Parted
  <1>8. CASE op = "publish-iso"
    <2>1. r.job \in {job, [job EXCEPT !.tmp = "none"]}
      BY <1>8, JobUntouched DEF Results, Publish, Out
    <2>2. \A p : Parted([job EXCEPT !.tmp = p], job.kernel, job.linuxfs, job.iso2, p)
      BY <1>2
    <2> QED
      BY <1>3, <1>8, <2>1, <2>2, ZenonT(60)
  <1>9. CASE op \in {"isohybrid", "xorriso-final"}
    <2>1. r.job = job
      BY <1>9, JobUntouched DEF Results, Isohybrid, XorrisoInPlace, Out
    <2> QED
      BY <1>9, <2>1
  <1> QED
    BY <1>1, <1>4, <1>5, <1>6, <1>7, <1>8, <1>9 DEF SameParts, PartOps, FinalOps

(* What a command leaves of the image under its final name. *)
LEMMA FinalLeft ==
    ASSUME MachineTypeOK, NEW op, NEW r \in Results(op)
    PROVE  /\ op \notin FinalOps => r.host.final = host.final
           /\ op = "publish-iso" =>
                 IF r.out = "ok" THEN r.host.final = job.tmp ELSE r.host.final = host.final
           /\ op = "isohybrid" =>
                 \/ r.host.final = host.final
                 \/ r.out = "fail" /\ r.host.final = "partial"
  <1>1. op \in MountOps => r.host.final = host.final
    BY MountsLeaveImage
  <1>2. op \notin MountOps \cup FinalOps => r.host.final = host.final
    BY OthersLeaveHost DEF MountOps, FinalOps, HostOps
  <1>3. op = "publish-iso" => IF r.out = "ok" THEN r.host.final = job.tmp ELSE r.host.final = host.final
    <2> HAVE op = "publish-iso"
    <2>1. PICK h : h = [host EXCEPT !.final = job.tmp]
      OBVIOUS
    <2>2. h.final = job.tmp
      BY <2>1 DEF MachineTypeOK, Hosts
    <2>3. (r.out = "ok" /\ r.host = h) \/ (r.out = "fail" /\ r.host = host)
      BY <2>1, HostUntouched DEF Results, Publish, Out
    <2> QED
      BY <2>2, <2>3
  <1>4. op = "isohybrid" => r.host.final = host.final \/ (r.out = "fail" /\ r.host.final = "partial")
    <2> HAVE op = "isohybrid"
    <2>1. PICK h : h = [host EXCEPT !.final = "partial"]
      OBVIOUS
    <2>2. h.final = "partial"
      BY <2>1 DEF MachineTypeOK, Hosts
    <2>3. r.host = host \/ (r.out = "fail" /\ r.host = h)
      BY <2>1, HostUntouched DEF Results, Isohybrid, Out
    <2> QED
      BY <2>2, <2>3
  <1> QED
    BY <1>1, <1>2, <1>3, <1>4 DEF FinalOps

----------------------------------------------------------------------------
(* planCreateIso without what it may do to the published image. *)
IsoSteps == <<Strict("mksquashfs"), Line("test-linuxfs"), CheckLine,
              Line("move-linuxfs"), CheckLine, Line("md5-linuxfs"),
              Strict("cleanup"), Line("rm-iso.tmp"), Line("xorriso"), CheckLine,
              Line("publish-iso"), CheckLine, Line("fsync-iso")>>

IsoShape(p, hybrid) ==
    /\ Len(p) >= 13 /\ \A i \in 1..13 : p[i] = IsoSteps[i]
    /\ \A i \in 14..Len(p) :
          /\ p[i].op \in {"isohybrid", "check", "md5-iso"}
          /\ p[i].op = "isohybrid" =>
                hybrid /\ p[i].kind = "line" /\ i + 1 \in 14..Len(p) /\ p[i + 1].kind = "checkLine"

(* Whatever the choices, the image is published as a whole, and made hybrid only behind that. *)
LEMMA IsoIsShaped ==
    ASSUME NEW c \in Choices PROVE IsoShape(PlanCreateIso(c), c.hybrid)
  <1> DEFINE A == IsoSteps
             B == <<Line("isohybrid"), CheckLine>>
             C == <<Line("md5-iso")>>
  <1>1. A \in Seq(Steps) /\ B \in Seq(Steps) /\ C \in Seq(Steps)
    BY StepsAreSteps DEF ImageOps, IsoSteps
  <1>2. /\ Len(A) = 13 /\ Len(B) = 2 /\ B[1].op = "isohybrid" /\ B[1].kind = "line"
        /\ B[2].op = "check" /\ B[2].kind = "checkLine"
        /\ Len(C) = 1 /\ C[1].op = "md5-iso"
    BY DEF IsoSteps, Strict, Line, CheckLine, Step
  <1>3. c.hybrid \in BOOLEAN /\ c.sums \in BOOLEAN
    BY DEF Choices
  <1>4. /\ Optional(c.hybrid, B) \in Seq(Steps) /\ Optional(c.sums, C) \in Seq(Steps)
        /\ Optional(c.hybrid, B) = IF c.hybrid THEN B ELSE <<>>
        /\ Optional(c.sums, C) = IF c.sums THEN C ELSE <<>>
    BY <1>1, <1>3, Optionally DEF Optional
  <1>5. PlanCreateIso(c) = (A \o Optional(c.hybrid, B)) \o Optional(c.sums, C)
    BY DEF PlanCreateIso, IsoSteps
  <1> HIDE DEF A, B, C
  <1>6. PICK b \in Seq(Steps) : b = Optional(c.hybrid, B)
    BY <1>4
  <1>7. PICK d \in Seq(Steps) : d = Optional(c.sums, C)
    BY <1>4
  <1>8. PICK ab \in Seq(Steps) : ab = A \o b
    BY <1>1, Joined
  <1>9. PICK s \in Seq(Steps) : s = ab \o d
    BY Joined
  <1>10. s = PlanCreateIso(c)
    BY <1>5, <1>6, <1>7, <1>8, <1>9
  <1>11. /\ Len(ab) = 13 + Len(b) /\ Len(b) \in Nat
         /\ \A i \in 1..13 + Len(b) : ab[i] = IF i <= 13 THEN A[i] ELSE b[i - 13]
    <2>1. /\ Len(ab) = Len(A) + Len(b)
          /\ \A i \in 1..Len(A) + Len(b) : ab[i] = IF i <= Len(A) THEN A[i] ELSE b[i - Len(A)]
      BY ONLY <1>1, <1>8, Joined, b \in Seq(Steps)
    <2> QED
      BY <1>2, <2>1
  <1>12. /\ Len(s) = Len(ab) + Len(d) /\ Len(d) \in Nat /\ Len(ab) \in Nat
         /\ \A i \in 1..Len(ab) + Len(d) : s[i] = IF i <= Len(ab) THEN ab[i] ELSE d[i - Len(ab)]
    BY ONLY <1>9, Joined, ab \in Seq(Steps), d \in Seq(Steps)
  <1>13. ASSUME NEW i \in 1..13 PROVE s[i] = A[i]
    <2>1. i \in 1..13 + Len(b) /\ i <= Len(ab) /\ i \in 1..Len(ab) + Len(d) /\ i <= 13
      BY ONLY <1>11, <1>12, i \in 1..13
    <2>2. s[i] = ab[i]
      BY ONLY <1>12, <2>1
    <2>3. ab[i] = A[i]
      BY ONLY <1>11, <2>1
    <2> QED
      BY <2>2, <2>3
  <1>14. Len(s) >= 13
    BY ONLY <1>11, <1>12
  <1>15. c.hybrid \/ Len(b) = 0
    BY <1>4, <1>6
  <1>16. c.hybrid => b = B
    BY <1>4, <1>6
  <1>17. Len(d) = 0 \/ (Len(d) = 1 /\ d[1].op = "md5-iso")
    BY <1>2, <1>3, <1>4, <1>7
  <1>18. ASSUME NEW i \in 14..Len(s)
         PROVE  /\ s[i].op \in {"isohybrid", "check", "md5-iso"}
                /\ s[i].op = "isohybrid" =>
                     c.hybrid /\ s[i].kind = "line" /\ i + 1 \in 14..Len(s) /\ s[i + 1].kind = "checkLine"
    <2>1. CASE i <= Len(ab)
      <3>1. i - 13 \in 1..Len(b) /\ i \in 1..13 + Len(b) /\ i \in 1..Len(ab) + Len(d) /\ ~(i <= 13)
        BY ONLY <1>11, <1>12, <2>1, i \in 14..Len(s)
      <3>2. s[i] = b[i - 13]
        BY ONLY <1>11, <1>12, <2>1, <3>1
      <3>3. c.hybrid /\ b = B
        <4>1. Len(b) # 0
          BY ONLY <1>11, <3>1
        <4> QED
          BY <4>1, <1>15, <1>16
      <3>7. Len(b) = 2
        BY <1>2, <3>3
      <3>4. i = 14 \/ i = 15
        BY ONLY <3>1, <3>7, i \in 14..Len(s)
      <3>5. CASE i = 14
        <4>1. s[i] = B[1]
          BY <3>2, <3>3, <3>5
        <4>2. 15 \in 1..Len(ab) + Len(d) /\ 15 <= Len(ab) /\ 15 \in 1..13 + Len(b) /\ ~(15 <= 13)
              /\ 15 \in 14..Len(s)
          BY ONLY <1>11, <1>12, <3>7
        <4>3. s[15] = ab[15] /\ ab[15] = b[2]
          <5>1. 15 - 13 = 2
            OBVIOUS
          <5> QED
            BY ONLY <1>11, <1>12, <4>2, <5>1
        <4>4. i + 1 = 15
          BY <3>5
        <4> QED
          BY <1>2, <3>3, <4>1, <4>2, <4>3, <4>4
      <3>6. CASE i = 15
        <4>1. s[i] = B[2]
          BY <3>2, <3>3, <3>6
        <4> QED
          BY <1>2, <4>1
      <3> QED
        BY <3>4, <3>5, <3>6
    <2>2. CASE ~(i <= Len(ab))
      <3>1. i - Len(ab) \in 1..Len(d) /\ i \in 1..Len(ab) + Len(d)
        BY ONLY <1>11, <1>12, <2>2, i \in 14..Len(s)
      <3>2. s[i] = d[i - Len(ab)]
        BY ONLY <1>12, <2>2, <3>1
      <3>3. Len(d) # 0
        BY ONLY <1>12, <3>1
      <3>5. Len(d) = 1
        BY <1>17, <3>3
      <3>4. i - Len(ab) = 1
        BY ONLY <1>11, <1>12, <3>1, <3>5, i \in 14..Len(s)
      <3> QED
        BY <1>17, <3>2, <3>3, <3>4
    <2> QED
      BY <2>1, <2>2
  <1> QED
    BY <1>10, <1>13, <1>14, <1>18 DEF IsoShape, A
----------------------------------------------------------------------------
(* The plans before the last: the kernel is copied and checked, or not touched. *)
FinalKept(p) == \A k \in 1..Len(p) : p[k].op \notin FinalOps
KernelKept(p) == \A k \in 1..Len(p) : p[k].op # "copy-vmlinuz"
FetchShape(p) ==
    /\ Len(p) >= 3 /\ p[2].kind = "line" /\ p[2].op = "copy-vmlinuz" /\ p[3].kind = "checkLine"
    /\ \A k \in {1} \cup (3..Len(p)) : p[k].op # "copy-vmlinuz"
Hopeless(p) == \E k \in 1..Len(p) : p[k].kind = "abort"

(* No plan before the last touches the image, and only planCopyNewIso fetches the kernel. *)
LEMMA OtherPlansFetch ==
    ASSUME NEW c \in Choices
    PROVE  /\ \A p \in {PlanSavePackageList, PlanEditBootMenu, <<>>} : FinalKept(p) /\ KernelKept(p)
           /\ FinalKept(PlanCopyNewIso(c))
           /\ \/ FetchShape(PlanCopyNewIso(c))
              \/ KernelKept(PlanCopyNewIso(c)) /\ Hopeless(PlanCopyNewIso(c))
  <1> USE DEF FinalKept, KernelKept, FinalOps
  <1>1. /\ FinalKept(PlanSavePackageList) /\ KernelKept(PlanSavePackageList)
        /\ FinalKept(PlanEditBootMenu) /\ KernelKept(PlanEditBootMenu)
    BY DEF PlanSavePackageList, PlanEditBootMenu, Line, Step
  <1>2. FinalKept(<<>>) /\ KernelKept(<<>>)
    OBVIOUS
  <1>3. CASE c.kernel
    <2>1. PICK p : p = PlanCopyNewIso(c)
      OBVIOUS
    <2>2. p = <<Embed("extract-iso-template"),
                Line("copy-vmlinuz"), CheckLine,
                Sure("replace-menu"), Line("md5-vmlinuz"),
                Embed("populate-initrd"),
                Line("copy-initrd-modules"), CheckLine,
                Strict("copy-initrd-programs"), Strict("chown-initrd"),
                Line("pack-initrd"), Line("test-initrd"), CheckLine,
                Line("fsync-initrd"), Line("md5-initrd")>>
      BY <1>3, <2>1 DEF PlanCopyNewIso
    <2>3. /\ Len(p) = 15 /\ p[2].kind = "line" /\ p[2].op = "copy-vmlinuz" /\ p[3].kind = "checkLine"
          /\ p[1].op = "extract-iso-template"
          /\ \A k \in 3..15 : p[k].op \notin FinalOps \cup {"copy-vmlinuz"}
      BY <2>2 DEF Embed, Line, CheckLine, Sure, Strict, Step
    <2>4. \A k \in 1..15 : k = 1 \/ k = 2 \/ k \in 3..15
      OBVIOUS
    <2>5. FinalKept(p)
      BY <2>3, <2>4
    <2>6. FetchShape(p)
      BY <2>3 DEF FetchShape
    <2> QED
      BY <1>1, <1>2, <2>1, <2>5, <2>6
  <1>4. CASE ~c.kernel
    <2>1. PlanCopyNewIso(c) = <<Abort("Kernel-not-configured")>>
      BY <1>4 DEF PlanCopyNewIso
    <2>2. FinalKept(PlanCopyNewIso(c)) /\ KernelKept(PlanCopyNewIso(c)) /\ Hopeless(PlanCopyNewIso(c))
      BY <2>1 DEF Abort, Step, Hopeless
    <2> QED
      BY <1>1, <1>2, <2>2
  <1> QED
    BY <1>3, <1>4 DEF Choices

----------------------------------------------------------------------------
(* Where the image and its parts stand in every phase. *)

(* The kernel of the image is still to be fetched, or there. *)
KernelAhead == \E i \in 1..Len(todo) : todo[i] = "copyNewIso"
KernelKnown == Ends(todo, "createIso") => KernelAhead \/ job.kernel = "good"

(* A plan before the last. *)
FetchGoes ==
    /\ FinalKept(plan)
    /\ \/ KernelKept(plan) /\ (KernelKnown \/ Hopeless(plan))
       \/ /\ FetchShape(plan)
          /\ (at = 3 /\ lineOk) \/ at > 3 => job.kernel = "good"

(* The last plan: what is known of the image behind each of its steps. *)
IsoGoes ==
    /\ IsoShape(plan, choices.hybrid) /\ job.kernel = "good"
    /\ at <= 11 => host.final # "good"
    /\ at \in 2..4 => job.linuxfs = "good"
    /\ (at = 5 /\ lineOk) \/ at \in 6..9 => job.iso2 = "good"
    /\ (at = 10 /\ lineOk) \/ at = 11 => job.tmp = "good"
    /\ at = 12 /\ lineOk => host.final = "good"
    /\ at > 12 => \/ host.final = "good"
                  \/ at > 14 /\ plan[at - 1].op = "isohybrid" /\ ~lineOk

(* The verdict against the phase. *)
VerdictOK ==
    /\ phase \in {"ready", "gone"} => (verdict = "none" <=> runs = 0)
    /\ phase \notin {"ready", "gone"} => runs > 0 /\ verdict \notin {"exited", "killed"}
    /\ phase \in {"clear", "leave"} => verdict # "none"
    /\ phase \notin {"ready", "gone", "clear", "leave"} => verdict = "none"

ImageOK ==
    /\ VerdictOK
    /\ phase \in {"checks", "embed", "install", "extract", "probe"} => host.final # "good"
    /\ phase \in {"head", "reprobe"} =>
          IF todo = <<>> THEN host.final = "good" ELSE host.final # "good" /\ KernelKnown
    /\ phase \in {"plan", "replan"} /\ Going =>
          IF todo = <<>> THEN IsoGoes ELSE host.final # "good" /\ FetchGoes

(* What a command under way leaves of the image and its parts, denied or not. *)
LEMMA CommandMakes ==
    ASSUME MachineTypeOK, NEW r \in Results(Current.op) \cup Deniable
    PROVE  /\ Current.op # "copy-vmlinuz" => r.job.kernel = job.kernel
           /\ Current.op = "copy-vmlinuz" /\ r.out = "ok" => r.job.kernel = "good"
           /\ Current.op \notin {"mksquashfs", "move-linuxfs"} => r.job.linuxfs = job.linuxfs
           /\ Current.op = "mksquashfs" /\ r.out = "ok" /\ host.root > 0 => r.job.linuxfs = "good"
           /\ Current.op # "move-linuxfs" => r.job.iso2 = job.iso2
           /\ Current.op = "move-linuxfs" /\ r.out = "ok" => r.job.iso2 = job.linuxfs
           /\ Current.op \notin {"xorriso", "publish-iso"} => r.job.tmp = job.tmp
           /\ Current.op = "xorriso" /\ r.out = "ok" /\ job.kernel = "good" /\ job.iso2 = "good" =>
                 r.job.tmp = "good"
           /\ Current.op \notin FinalOps => r.host.final = host.final
           /\ Current.op = "publish-iso" =>
                 IF r.out = "ok" THEN r.host.final = job.tmp ELSE r.host.final = host.final
           /\ Current.op = "isohybrid" =>
                 \/ r.host.final = host.final
                 \/ r.out = "fail" /\ r.host.final = "partial"
  <1>1. CASE r \in Results(Current.op)
    BY <1>1, PartsLeft, FinalLeft
  <1>2. CASE r \in Deniable
    <2>1. r.host = host /\ r.job = job /\ r.out # "ok"
      BY <1>2, HostUntouched, JobUntouched
    <2> QED
      BY <2>1
  <1> QED
    BY <1>1, <1>2

(* One command of a plan before the last. *)
LEMMA FetchAdvances ==
    ASSUME RunTypeOK, status = "busy", at <= Len(plan), FetchGoes, todo' = todo,
           NEW r \in Results(Current.op) \cup Deniable, Finish(r.out), host' = r.host, job' = r.job,
           status' = "running"
    PROVE  FetchGoes' /\ host'.final = host.final
  <1> DEFINE op == plan[at].op
             kind == plan[at].kind
  <1>1. /\ at' = at + 1 /\ plan' = plan
        /\ kind = "line" => lineOk' = (r.out = "ok")
        /\ kind = "checkLine" => lineOk
    BY FinishAdvances DEF Current
  <1>2. /\ op # "copy-vmlinuz" => job'.kernel = job.kernel
        /\ op = "copy-vmlinuz" /\ r.out = "ok" => job'.kernel = "good"
        /\ op \notin FinalOps => host'.final = host.final
    BY CommandMakes DEF Current, RunTypeOK
  <1>3. at \in 1..Len(plan) /\ at \in Nat /\ Len(plan) \in Nat
    BY DEF RunTypeOK, ExecutorTypeOK
  <1>4. FinalKept(plan)' /\ host'.final = host.final
    BY <1>1, <1>2, <1>3 DEF FetchGoes, FinalKept
  <1>5. CASE KernelKept(plan) /\ (KernelKnown \/ Hopeless(plan))
    <2>1. job'.kernel = job.kernel
      BY <1>2, <1>3, <1>5 DEF KernelKept
    <2> QED
      BY <1>1, <1>4, <1>5, <2>1 DEF FetchGoes, KernelKept, KernelKnown, KernelAhead, Ends, Hopeless
  <1>6. CASE /\ FetchShape(plan)
             /\ (at = 3 /\ lineOk) \/ at > 3 => job.kernel = "good"
    <2>1. FetchShape(plan)'
      BY <1>1, <1>6 DEF FetchShape
    <2>2. (at' = 3 /\ lineOk') \/ at' > 3 => job'.kernel = "good"
      <3>1. CASE at = 1
        BY <1>1, <3>1
      <3>2. CASE at = 2
        <4>1. op = "copy-vmlinuz" /\ kind = "line"
          BY <1>6, <3>2 DEF FetchShape
        <4>2. lineOk' => job'.kernel = "good"
          BY <1>1, <1>2, <4>1
        <4>3. ~(at' > 3)
          BY <1>1, <3>2
        <4> QED
          BY <4>2, <4>3
      <3>3. CASE at = 3
        <4>1. kind = "checkLine" /\ op # "copy-vmlinuz"
          <5>1. 3 \in 3..Len(plan)
            BY <1>3, <3>3
          <5> QED
            BY <1>6, <3>3, <5>1 DEF FetchShape
        <4> QED
          BY <1>1, <1>2, <1>6, <3>3, <4>1
      <3>4. CASE at > 3
        <4>1. at \in 3..Len(plan)
          BY <1>3, <3>4
        <4>2. op # "copy-vmlinuz"
          BY <1>6, <4>1 DEF FetchShape
        <4> QED
          BY <1>2, <1>6, <3>4, <4>2
      <3> QED
        BY <1>3, <3>1, <3>2, <3>3, <3>4
    <2> QED
      BY <1>4, <2>1, <2>2 DEF FetchGoes
  <1> QED
    BY <1>5, <1>6 DEF FetchGoes

(* The steps of the last plan, one by one. *)
LEMMA IsoStepsAre ==
    ASSUME NEW p, NEW hybrid, IsoShape(p, hybrid)
    PROVE  /\ p[1].op = "mksquashfs" /\ p[1].kind = "strict"
           /\ p[2].op = "test-linuxfs" /\ p[3].op = "check" /\ p[3].kind = "checkLine"
           /\ p[4].op = "move-linuxfs" /\ p[4].kind = "line"
           /\ p[5].op = "check" /\ p[5].kind = "checkLine"
           /\ p[6].op = "md5-linuxfs" /\ p[7].op = "cleanup" /\ p[8].op = "rm-iso.tmp"
           /\ p[9].op = "xorriso" /\ p[9].kind = "line"
           /\ p[10].op = "check" /\ p[10].kind = "checkLine"
           /\ p[11].op = "publish-iso" /\ p[11].kind = "line"
           /\ p[12].op = "check" /\ p[12].kind = "checkLine" /\ p[13].op = "fsync-iso"
  BY SMTT(30) DEF IsoShape, IsoSteps, Strict, Line, CheckLine, Step

(* One command of the last plan: each part is whole behind the check that follows it. *)
LEMMA IsoAdvances ==
    ASSUME RunTypeOK, status = "busy", at <= Len(plan), IsoGoes, at <= 7 => host.root > 0,
           choices' = choices,
           NEW r \in Results(Current.op) \cup Deniable, Finish(r.out), host' = r.host, job' = r.job,
           status' = "running"
    PROVE  IsoGoes'
  <1> DEFINE op == plan[at].op
             kind == plan[at].kind
  <1>1. /\ at' = at + 1 /\ plan' = plan
        /\ kind = "line" => lineOk' = (r.out = "ok")
        /\ kind = "strict" => r.out = "ok"
        /\ kind = "checkLine" => lineOk
    BY FinishAdvances DEF Current
  <1>2. /\ op # "copy-vmlinuz" => job'.kernel = job.kernel
        /\ op \notin {"mksquashfs", "move-linuxfs"} => job'.linuxfs = job.linuxfs
        /\ op = "mksquashfs" /\ r.out = "ok" /\ host.root > 0 => job'.linuxfs = "good"
        /\ op # "move-linuxfs" => job'.iso2 = job.iso2
        /\ op = "move-linuxfs" /\ r.out = "ok" => job'.iso2 = job.linuxfs
        /\ op \notin {"xorriso", "publish-iso"} => job'.tmp = job.tmp
        /\ op = "xorriso" /\ r.out = "ok" /\ job.kernel = "good" /\ job.iso2 = "good" =>
              job'.tmp = "good"
        /\ op \notin FinalOps => host'.final = host.final
        /\ op = "publish-iso" =>
              IF r.out = "ok" THEN host'.final = job.tmp ELSE host'.final = host.final
        /\ op = "isohybrid" =>
              \/ host'.final = host.final
              \/ r.out = "fail" /\ host'.final = "partial"
    BY CommandMakes DEF Current, RunTypeOK
  <1>3. at \in Nat /\ at >= 1 /\ Len(plan) \in Nat
    BY DEF RunTypeOK, ExecutorTypeOK
  <1>4. IsoShape(plan, choices.hybrid)'
    BY <1>1 DEF IsoGoes, IsoShape
  <1>5. IsoShape(plan, choices.hybrid)
    BY DEF IsoGoes
  <1>6. /\ at = 1 => op = "mksquashfs" /\ kind = "strict"
        /\ at = 2 => op = "test-linuxfs"
        /\ at = 3 => op = "check" /\ kind = "checkLine"
        /\ at = 4 => op = "move-linuxfs" /\ kind = "line"
        /\ at = 5 => op = "check" /\ kind = "checkLine"
        /\ at = 6 => op = "md5-linuxfs"
        /\ at = 7 => op = "cleanup"
        /\ at = 8 => op = "rm-iso.tmp"
        /\ at = 9 => op = "xorriso" /\ kind = "line"
        /\ at = 10 => op = "check" /\ kind = "checkLine"
        /\ at = 11 => op = "publish-iso" /\ kind = "line"
        /\ at = 12 => op = "check" /\ kind = "checkLine"
        /\ at = 13 => op = "fsync-iso"
    <2>1. /\ plan[1].op = "mksquashfs" /\ plan[1].kind = "strict"
          /\ plan[2].op = "test-linuxfs" /\ plan[3].op = "check" /\ plan[3].kind = "checkLine"
          /\ plan[4].op = "move-linuxfs" /\ plan[4].kind = "line"
          /\ plan[5].op = "check" /\ plan[5].kind = "checkLine"
          /\ plan[6].op = "md5-linuxfs" /\ plan[7].op = "cleanup" /\ plan[8].op = "rm-iso.tmp"
          /\ plan[9].op = "xorriso" /\ plan[9].kind = "line"
          /\ plan[10].op = "check" /\ plan[10].kind = "checkLine"
          /\ plan[11].op = "publish-iso" /\ plan[11].kind = "line"
          /\ plan[12].op = "check" /\ plan[12].kind = "checkLine" /\ plan[13].op = "fsync-iso"
      BY ONLY <1>5, IsoStepsAre
    <2> QED
      BY ONLY <2>1
  <1>7. at >= 14 =>
           /\ op \in {"isohybrid", "check", "md5-iso"}
           /\ op = "isohybrid" => kind = "line"
    <2> HAVE at >= 14
    <2>1. at \in 14..Len(plan)
      BY <1>3
    <2> QED
      BY <1>5, <2>1 DEF IsoShape
  <1>8. at > 14 /\ plan[at - 1].op = "isohybrid" => kind = "checkLine"
    <2> HAVE at > 14 /\ plan[at - 1].op = "isohybrid"
    <2>1. at - 1 \in 14..Len(plan) /\ (at - 1) + 1 = at
      BY <1>3
    <2> QED
      BY <1>5, <2>1 DEF IsoShape
  <1> HIDE DEF op, kind
  <1>9. at = 1 \/ at = 2 \/ at = 3 \/ at = 4 \/ at = 5 \/ at = 6 \/ at = 7 \/ at = 8 \/ at = 9
        \/ at = 10 \/ at = 11 \/ at = 12 \/ at = 13 \/ at >= 14
    BY <1>3
  <1>10. op # "copy-vmlinuz"
    BY <1>6, <1>7, <1>9
  <1>11. /\ at <= 11 => host.final # "good"
         /\ at \in 2..4 => job.linuxfs = "good"
         /\ (at = 5 /\ lineOk) \/ at \in 6..9 => job.iso2 = "good"
         /\ (at = 10 /\ lineOk) \/ at = 11 => job.tmp = "good"
         /\ at = 12 /\ lineOk => host.final = "good"
         /\ at > 12 => \/ host.final = "good"
                       \/ at > 14 /\ plan[at - 1].op = "isohybrid" /\ ~lineOk
         /\ job.kernel = "good"
    BY DEF IsoGoes
  <1>12. at' <= 11 => host'.final # "good"
    <2> HAVE at' <= 11
    <2>1. at \in 1..10
      BY <1>1, <1>3
    <2>2. op \notin FinalOps
      BY <1>6, <2>1 DEF FinalOps
    <2>3. at <= 11
      BY <2>1
    <2> QED
      BY <1>2, <1>11, <2>2, <2>3
  <1>13. at' \in 2..4 => job'.linuxfs = "good"
    <2> HAVE at' \in 2..4
    <2>1. at = 1 \/ at = 2 \/ at = 3
      BY <1>1, <1>3
    <2>2. CASE at = 1
      <3>1. host.root > 0
        BY <2>2
      <3> QED
        BY <1>1, <1>2, <1>6, <2>2, <3>1
    <2>3. CASE at = 2 \/ at = 3
      <3>1. at \in 2..4
        BY <2>3
      <3> QED
        BY <1>2, <1>6, <1>11, <2>3, <3>1
    <2> QED
      BY <2>1, <2>2, <2>3
  <1>14. (at' = 5 /\ lineOk') \/ at' \in 6..9 => job'.iso2 = "good"
    <2> HAVE (at' = 5 /\ lineOk') \/ at' \in 6..9
    <2>1. (at = 4 /\ lineOk') \/ at = 5 \/ at \in 6..8
      BY <1>1, <1>3
    <2>2. CASE at = 4 /\ lineOk'
      <3>1. at \in 2..4
        BY <2>2
      <3> QED
        BY <1>1, <1>2, <1>6, <1>11, <2>2, <3>1
    <2>3. CASE at = 5
      BY <1>1, <1>2, <1>6, <1>11, <2>3
    <2>4. CASE at \in 6..8
      <3>1. at \in 6..9 /\ op # "move-linuxfs"
        BY <1>6, <2>4
      <3> QED
        BY <1>2, <1>11, <3>1
    <2> QED
      BY <2>1, <2>2, <2>3, <2>4
  <1>15. (at' = 10 /\ lineOk') \/ at' = 11 => job'.tmp = "good"
    <2> HAVE (at' = 10 /\ lineOk') \/ at' = 11
    <2>1. (at = 9 /\ lineOk') \/ at = 10
      BY <1>1, <1>3
    <2>2. CASE at = 9 /\ lineOk'
      <3>1. at \in 6..9
        BY <2>2
      <3> QED
        BY <1>1, <1>2, <1>6, <1>11, <2>2, <3>1
    <2>3. CASE at = 10
      BY <1>1, <1>2, <1>6, <1>11, <2>3
    <2> QED
      BY <2>1, <2>2, <2>3
  <1>16. at' = 12 /\ lineOk' => host'.final = "good"
    <2> HAVE at' = 12 /\ lineOk'
    <2>1. at = 11
      BY <1>1, <1>3
    <2> QED
      BY <1>1, <1>2, <1>6, <1>11, <2>1
  <1>17. at' > 12 => \/ host'.final = "good"
                     \/ at' > 14 /\ plan[at].op = "isohybrid" /\ ~lineOk'
    <2> HAVE at' > 12
    <2>1. at = 12 \/ at = 13 \/ at >= 14
      BY <1>1, <1>3
    <2>2. CASE at = 12
      <3>1. op \notin FinalOps
        BY <1>6, <2>2 DEF FinalOps
      <3> QED
        BY <1>1, <1>2, <1>6, <1>11, <2>2, <3>1
    <2>3. CASE at = 13
      <3>1. op \notin FinalOps /\ at > 12 /\ ~(at > 14)
        BY <1>6, <2>3 DEF FinalOps
      <3> QED
        BY <1>2, <1>11, <3>1
    <2>4. CASE at >= 14
      <3>1. at > 12 /\ at' > 14
        BY <1>1, <1>3, <2>4
      <3>2. host.final = "good"
        BY <1>1, <1>8, <1>11, <3>1
      <3>3. CASE op = "isohybrid"
        <4>1. kind = "line"
          BY <1>7, <2>4, <3>3
        <4>2. host'.final = "good" \/ ~lineOk'
          BY <1>1, <1>2, <3>2, <3>3, <4>1
        <4> QED
          BY <3>1, <3>3, <4>2 DEF op
      <3>4. CASE op # "isohybrid"
        <4>1. op \notin FinalOps
          BY <1>7, <2>4, <3>4 DEF FinalOps
        <4> QED
          BY <1>2, <3>2, <4>1
      <3> QED
        BY <3>3, <3>4
    <2> QED
      BY <2>1, <2>2, <2>3, <2>4
  <1>18. plan'[at' - 1] = plan[at]
    BY <1>1, <1>3
  <1> QED
    BY <1>2, <1>4, <1>10, <1>11, <1>12, <1>13, <1>14, <1>15, <1>16, <1>17, <1>18 DEF IsoGoes

(* A stage of either of two pieces is a stage of both joined. *)
LEMMA StageJoined ==
    ASSUME NEW s \in Seq(StageNames), NEW t \in Seq(StageNames), NEW stage,
           (\E i \in 1..Len(s) : s[i] = stage) \/ (\E i \in 1..Len(t) : t[i] = stage)
    PROVE  s \o t \in Seq(StageNames) /\ \E i \in 1..Len(s \o t) : (s \o t)[i] = stage
  <1>1. /\ s \o t \in Seq(StageNames) /\ Len(s \o t) = Len(s) + Len(t)
        /\ \A i \in 1..Len(s) + Len(t) : (s \o t)[i] = IF i <= Len(s) THEN s[i] ELSE t[i - Len(s)]
        /\ Len(s) \in Nat /\ Len(t) \in Nat
    BY ConcatProperties
  <1>2. CASE \E i \in 1..Len(s) : s[i] = stage
    <2>1. PICK i \in 1..Len(s) : s[i] = stage
      BY <1>2
    <2>2. i \in 1..Len(s) + Len(t) /\ i <= Len(s)
      BY <1>1
    <2> QED
      BY <1>1, <2>1, <2>2
  <1>3. CASE \E i \in 1..Len(t) : t[i] = stage
    <2>1. PICK i \in 1..Len(t) : t[i] = stage
      BY <1>3
    <2>2. PICK j : j = Len(s) + i
      OBVIOUS
    <2>3. j \in 1..Len(s) + Len(t) /\ ~(j <= Len(s)) /\ j - Len(s) = i
      BY ONLY <1>1, <2>2, i \in 1..Len(t)
    <2> QED
      BY <1>1, <2>1, <2>3
  <1> QED
    BY <1>2, <1>3

(* planOrchestration fetches the kernel, under any settings. *)
LEMMA StagesFetch ==
    ASSUME NEW c \in Choices PROVE \E i \in 1..Len(Stages(c)) : Stages(c)[i] = "copyNewIso"
  <1> DEFINE A == <<"setupEnv">>
             B == Optional(c.space, <<"checkEnoughSpace">>)
             C == <<"copyNewIso", "savePackageList">>
             D == Optional(c.edit, <<"editBootMenu">>)
             E == <<"createIso">>
  <1>1. /\ <<"setupEnv">> \in Seq(StageNames) /\ <<>> \in Seq(StageNames)
        /\ <<"checkEnoughSpace">> \in Seq(StageNames) /\ <<"editBootMenu">> \in Seq(StageNames)
        /\ <<"copyNewIso", "savePackageList">> \in Seq(StageNames)
        /\ <<"createIso">> \in Seq(StageNames)
    BY DEF StageNames, WorkStages
  <1>2. A \in Seq(StageNames) /\ B \in Seq(StageNames) /\ C \in Seq(StageNames)
        /\ D \in Seq(StageNames) /\ E \in Seq(StageNames)
    BY <1>1 DEF Optional
  <1>3. \E i \in 1..Len(C) : C[i] = "copyNewIso"
    <2>1. Len(C) = 2 /\ C[1] = "copyNewIso"
      OBVIOUS
    <2> QED
      BY <2>1
  <1>4. Stages(c) = (((A \o B) \o C) \o D) \o E
    BY DEF Stages
  <1> HIDE DEF A, B, C, D, E
  <1>5. A \o B \in Seq(StageNames)
    BY <1>2, ConcatProperties
  <1>6. PICK ab \in Seq(StageNames) : ab = A \o B
    BY <1>5
  <1>7. PICK f \in Seq(StageNames) : f = C
    BY <1>2
  <1>8. PICK abc : abc = ab \o f
    OBVIOUS
  <1>9. \E i \in 1..Len(f) : f[i] = "copyNewIso"
    BY <1>3, <1>7
  <1>10. abc \in Seq(StageNames) /\ \E i \in 1..Len(abc) : abc[i] = "copyNewIso"
    BY <1>8, <1>9, StageJoined, SMTT(30)
  <1>11. PICK abcd : abcd = abc \o D
    OBVIOUS
  <1>12. abcd \in Seq(StageNames) /\ \E i \in 1..Len(abcd) : abcd[i] = "copyNewIso"
    BY <1>2, <1>11, <1>10, StageJoined
  <1>13. PICK s : s = abcd \o E
    OBVIOUS
  <1>14. s \in Seq(StageNames) /\ \E i \in 1..Len(s) : s[i] = "copyNewIso"
    BY <1>2, <1>12, <1>13, StageJoined
  <1> QED
    BY <1>4, <1>6, <1>7, <1>8, <1>11, <1>13, <1>14

(* A stage ahead of another one stays ahead when that one is begun. *)
LEMMA AheadOfTail ==
    ASSUME NEW t \in Seq(StageNames), t # <<>>, t[1] # "copyNewIso",
           \E i \in 1..Len(t) : t[i] = "copyNewIso"
    PROVE  \E i \in 1..Len(Tail(t)) : Tail(t)[i] = "copyNewIso"
  <1>1. PICK i \in 1..Len(t) : t[i] = "copyNewIso"
    OBVIOUS
  <1>2. Len(t) \in Nat /\ Len(t) # 0
    BY EmptySeq
  <1>3. Len(Tail(t)) = Len(t) - 1 /\ \A k \in 1..Len(t) - 1 : Tail(t)[k] = t[k + 1]
    BY <1>2, HeadTailProperties
  <1>4. PICK k : k = i - 1
    OBVIOUS
  <1>5. k \in 1..Len(t) - 1 /\ k + 1 = i
    <2>1. i # 1
      BY <1>1
    <2> QED
      BY ONLY <1>2, <1>4, <2>1, i \in 1..Len(t)
  <1> QED
    BY <1>1, <1>3, <1>5

(* What leaves plan, index and image alone leaves alone what is known of them. *)
LEMMA ImageStays ==
    ASSUME plan' = plan, at' = at, lineOk' = lineOk, todo' = todo, choices' = choices,
           host'.final = host.final, SameParts(job')
    PROVE  /\ KernelKnown' <=> KernelKnown
           /\ FetchGoes' <=> FetchGoes
           /\ IsoGoes' <=> IsoGoes
  <1>1. KernelKnown' <=> KernelKnown
    BY DEF KernelKnown, KernelAhead, Ends, SameParts
  <1>2. FetchGoes' <=> FetchGoes
    BY <1>1 DEF FetchGoes, FinalKept, KernelKept, FetchShape, Hopeless, SameParts
  <1>3. IsoGoes' <=> IsoGoes
    BY DEF IsoGoes, IsoShape, SameParts
  <1> QED
    BY <1>1, <1>2, <1>3

(* Every step of a run keeps the verdict in line with the phase. *)
LEMMA VerdictKept == ASSUME RunInv, VerdictOK, RunStep PROVE VerdictOK'
  <1> USE DEF VerdictOK, Step1, End
  <1>1. runs \in Nat
    BY WorldIsKnown DEF RunInv, RunTypeOK
  <1>2. CASE UNCHANGED <<runVars, world>>
    BY <1>2 DEF runVars, runnerVars
  <1>3. CASE Launch \/ Kill \/ SignalKills \/ Denied
    BY <1>1, <1>3 DEF Launch, Kill, SignalKills, Denied, AtSpaceCheck, Vanish, Busy
  <1>4. CASE AskedToStop \/ AllRunsDone
    BY <1>4 DEF AskedToStop, AllRunsDone, runVars, runnerVars
  <1>5. ASSUME NEW c \in world.choices, Begin(c) PROVE VerdictOK'
    BY <1>1, <1>5 DEF Begin
  <1>6. CASE Progress
    <2>1. CASE CompressionUnsupported \/ CreateEmbedded \/ InstallSignalCleanup \/ ExtractAssets
               \/ PrepareFails \/ ProbeAndPlan
      BY <1>1, <2>1 DEF CompressionUnsupported, CreateEmbedded, InstallSignalCleanup, ExtractAssets,
         PrepareFails, ProbeAndPlan
    <2>2. ASSUME NEW snapshotOk \in BOOLEAN, NEW tempOk \in BOOLEAN, CheckDirectories(snapshotOk, tempOk)
          PROVE  VerdictOK'
      BY <1>1, <2>2 DEF CheckDirectories
    <2>3. CASE StageLoopEnds \/ StopSeenAtStage \/ PlannedAbort \/ RunStage \/ SpaceSuffices
               \/ SpaceRunsOut \/ MoveWorkDir \/ SetupEnvAgain
      BY <1>1, <2>3 DEF StageLoopEnds, StopSeenAtStage, PlannedAbort, RunStage, SpaceSuffices,
         SpaceRunsOut, MoveWorkDir, SetupEnvAgain, AtSpaceCheck, Closing
    <2>4. CASE CallGoesOn
      BY <2>4 DEF CallGoesOn, runnerVars
    <2>5. CASE CommandEnds \/ FailedCheckCommandEnds
      <3>1. runs' = runs /\ InCall
            /\ \/ phase' = phase /\ verdict' = verdict
               \/ phase' = "gone" /\ verdict' = "exited"
        BY <2>5 DEF CommandEnds, FailedCheckCommandEnds
      <3> QED
        BY <1>1, <3>1 DEF InCall
    <2>6. CASE CallReturns \/ InterruptCleanup \/ InterruptCleanupReturns
      BY <1>1, <2>6 DEF CallReturns, InterruptCleanup, InterruptCleanupReturns, Closing
    <2>7. CASE ClearSignalCleanup \/ Leave
      BY <1>1, <2>7 DEF ClearSignalCleanup, Leave
    <2> QED
      BY <1>6, <2>1, <2>2, <2>3, <2>4, <2>5, <2>6, <2>7 DEF Progress
  <1> QED
    BY <1>2, <1>3, <1>4, <1>5, <1>6 DEF RunStep, RunNext

(* The plan of a stage that is begun starts from what the stages ahead know. *)
LEMMA StageKnows ==
    ASSUME RunInv, BindRootOK, ImageOK, RunStage
    PROVE  IF todo' = <<>> THEN IsoGoes' ELSE host'.final # "good" /\ FetchGoes'
  <1>1. /\ RunTypeOK /\ choices \in Choices
        /\ todo \in Seq(StageNames) /\ todo # <<>> /\ Staged(todo) /\ todo' = Tail(todo)
        /\ Stage = todo[1] /\ todo[1] \in WorkStages
    <2>1. RunTypeOK /\ choices \in Choices /\ todo \in Seq(StageNames) /\ todo # <<>> /\ Staged(todo)
      BY WorldIsKnown DEF RunInv, RunTypeOK, StageNames, RunStage, BindRootOK
    <2> QED
      BY <2>1, StagedTail DEF RunStage, Stage, NextStage
  <1>2. /\ plan' = WorkPlan(todo[1], choices, probes) /\ at' = 1 /\ host' = host /\ job' = job
        /\ choices' = choices
    BY <1>1 DEF RunStage, Call, machineVars
  <1>3. host.final # "good" /\ KernelKnown
    BY <1>1 DEF ImageOK, RunStage
  <1>4. /\ todo[1] = "createIso" => todo' = <<>>
        /\ todo[1] # "createIso" => todo' # <<>>
        /\ Ends(todo', "createIso") => Ends(todo, "createIso")
    <2>1. todo[1] # "abort"
      BY <1>1 DEF WorkStages
    <2> QED
      BY <1>1, <2>1, StagedTail
  <1>5. CASE todo[1] = "createIso"
    <2>1. Len(todo) = 1
      <3>1. Len(todo) \in Nat \ {0}
        BY <1>1
      <3>2. 1 \in 1..Len(todo)
        BY <3>1
      <3> QED
        BY <1>1, <1>5, <3>2 DEF Staged
    <2>2. job.kernel = "good"
      BY <1>1, <1>3, <1>5, <2>1 DEF KernelKnown, KernelAhead, Ends
    <2>3. plan' = PlanCreateIso(choices)
      BY <1>2, <1>5 DEF WorkPlan
    <2>4. IsoShape(plan, choices.hybrid)'
      <3>1. PICK p : p = PlanCreateIso(choices)
        OBVIOUS
      <3>2. IsoShape(p, choices.hybrid)
        BY <1>1, <3>1, IsoIsShaped
      <3>3. plan' = p /\ choices' = choices
        BY <1>2, <2>3, <3>1
      <3> QED
        BY <3>2, <3>3 DEF IsoShape
    <2>5. IsoGoes'
      BY <1>2, <1>3, <2>2, <2>4 DEF IsoGoes
    <2> QED
      BY <1>4, <1>5, <2>5
  <1>6. CASE todo[1] = "copyNewIso"
    <2>1. plan' = PlanCopyNewIso(choices)
      BY <1>2, <1>6 DEF WorkPlan
    <2>2. FinalKept(plan)'
      BY <1>1, <2>1, OtherPlansFetch DEF FinalKept
    <2>3. FetchShape(plan)' \/ (KernelKept(plan)' /\ Hopeless(plan)')
      BY <1>1, <2>1, OtherPlansFetch DEF FetchShape, KernelKept, Hopeless
    <2>4. FetchGoes'
      BY <1>2, <2>2, <2>3 DEF FetchGoes
    <2> QED
      BY <1>2, <1>3, <1>4, <1>6, <2>4
  <1>7. CASE todo[1] \notin {"createIso", "copyNewIso"}
    <2>1. KernelKnown'
      <3>1. KernelAhead => KernelAhead'
        BY <1>1, <1>7, AheadOfTail DEF KernelAhead
      <3> QED
        BY <1>2, <1>3, <1>4, <3>1 DEF KernelKnown
    <2>2. FinalKept(plan)' /\ KernelKept(plan)'
      <3>1. CASE todo[1] = "setupEnv"
        <4>1. plan' = PlanSetupEnv(choices, probes) /\ probes \in Probes
          BY <1>1, <1>2, <3>1 DEF WorkPlan, RunTypeOK
        <4>2. Ops(plan') \subseteq SetupOps
          BY <1>1, <4>1, SetupIsShaped
        <4> QED
          BY <4>2 DEF Ops, SetupOps, FinalKept, KernelKept, FinalOps
      <3>2. CASE todo[1] # "setupEnv"
        <4>1. plan' \in {PlanSavePackageList, PlanEditBootMenu, <<>>}
          BY <1>1, <1>2, <1>7, <3>2 DEF WorkPlan, WorkStages
        <4>2. \A p \in {PlanSavePackageList, PlanEditBootMenu, <<>>} : FinalKept(p) /\ KernelKept(p)
          BY <1>1, OtherPlansFetch
        <4> QED
          BY <4>1, <4>2 DEF FinalKept, KernelKept
      <3> QED
        BY <3>1, <3>2
    <2>3. FetchGoes'
      BY <2>1, <2>2 DEF FetchGoes
    <2> QED
      BY <1>2, <1>3, <1>4, <1>7, <2>3
  <1> QED
    BY <1>5, <1>6, <1>7

(* What a plan that came through leaves of the image for the next stage, or for the report. *)
LEMMA PlanShows ==
    ASSUME RunInv, phase \in {"plan", "replan"}, ImageOK, status = "returned", ~aborted
    PROVE  IF todo = <<>> THEN host.final = "good" ELSE host.final # "good" /\ KernelKnown
  <1>1. at = Len(plan) + 1 /\ Len(plan) \in Nat
        /\ \A i \in 1..Len(plan) : plan[i].kind # "abort"
    <2>1. at = Len(plan) + 1 /\ Len(plan) \in Nat
          /\ \A i \in 1..Len(plan) : i < at => plan[i].kind # "abort"
      BY DEF RunInv, ExecutorInv, AbortsAreMarked, ExecutorTypeOK
    <2> QED
      BY <2>1
  <1>2. CASE todo = <<>>
    <2>1. IsoGoes
      BY <1>2 DEF ImageOK, Going
    <2>2. Len(plan) >= 13 /\ at > 12 /\ at - 1 = Len(plan)
      BY <1>1, <2>1 DEF IsoGoes, IsoShape
    <2>3. at > 14 => plan[at - 1].op # "isohybrid"
      <3> HAVE at > 14
      <3>1. at - 1 \in 14..Len(plan) /\ (at - 1) + 1 \notin 14..Len(plan)
        BY <1>1, <2>2
      <3> QED
        BY <2>1, <3>1 DEF IsoGoes, IsoShape
    <2> QED
      BY <1>2, <2>1, <2>2, <2>3 DEF IsoGoes
  <1>3. CASE todo # <<>>
    <2>1. host.final # "good" /\ FetchGoes
      BY <1>3 DEF ImageOK, Going
    <2>2. ~Hopeless(plan)
      BY <1>1 DEF Hopeless
    <2>3. FetchShape(plan) => at > 3
      BY <1>1 DEF FetchShape
    <2>4. KernelKnown
      BY <2>1, <2>2, <2>3 DEF FetchGoes, KernelKnown
    <2> QED
      BY <1>3, <2>1, <2>4
  <1> QED
    BY <1>2, <1>3

(* One command of the plan under way. *)
LEMMA ImageAdvances ==
    ASSUME RunInv, BindRootOK, ImageOK, CommandEnds, phase \in {"plan", "replan"}, status' = "running"
    PROVE  IF todo' = <<>> THEN IsoGoes' ELSE host'.final # "good" /\ FetchGoes'
  <1>1. PICK r \in Results(Current.op) \cup Deniable :
           Finish(r.out) /\ host' = r.host /\ job' = r.job
    BY DEF CommandEnds
  <1>2. status = "busy" /\ todo' = todo /\ choices' = choices
    BY DEF CommandEnds
  <1>3. RunTypeOK /\ at <= Len(plan)
    BY <1>2 DEF RunInv, ExecutorInv, InStep
  <1>4. PlanGoes /\ (IF todo = <<>> THEN IsoGoes ELSE host.final # "good" /\ FetchGoes)
    BY <1>2 DEF BindRootOK, ImageOK, Going
  <1>5. CASE todo = <<>>
    <2>1. at <= 7 => host.root > 0
      BY <1>4, <1>5 DEF PlanGoes, BurnGoes, Ready
    <2>2. IsoGoes'
      BY <1>1, <1>2, <1>3, <1>4, <1>5, <2>1, IsoAdvances
    <2> QED
      BY <1>2, <1>5, <2>2
  <1>6. CASE todo # <<>>
    <2>1. FetchGoes' /\ host'.final = host.final
      BY <1>1, <1>2, <1>3, <1>4, <1>6, FetchAdvances
    <2> QED
      BY <1>2, <1>4, <1>6, <2>1
  <1> QED
    BY <1>5, <1>6

(* Every step of a run keeps what each phase knows of the image. *)
LEMMA ImageKept ==
    ASSUME RunInv, BindRootOK, ImageOK, RunStep PROVE ImageOK'
  <1> USE DEF Step1, End, machineVars
  <1>1. VerdictOK'
    BY VerdictKept DEF ImageOK
  <1>2. RunTypeOK /\ choices \in Choices
    BY WorldIsKnown DEF RunInv, RunTypeOK
  (* Steps that change neither the plan under way nor the image. *)
  <1>3. ASSUME UNCHANGED <<plan, at, lineOk, todo, choices, phase>>,
               host'.final = host.final, SameParts(job'), Going' => Going
        PROVE  ImageOK'
    BY <1>1, <1>3, ImageStays DEF ImageOK
  (* Steps to a phase in which nothing is known of the image. *)
  <1>4. ASSUME phase' \in {"ready", "gone", "kill", "interrupt", "clear", "leave"} PROVE ImageOK'
    BY <1>1, <1>4 DEF ImageOK
  <1>5. CASE UNCHANGED <<runVars, world>>
    BY <1>3, <1>5 DEF runVars, runnerVars, executorVars, callVars, SameParts, Going
  <1>6. CASE Launch \/ Kill \/ SignalKills \/ Denied
    BY <1>4, <1>6 DEF Launch, Kill, SignalKills, Denied, AtSpaceCheck, Vanish
  <1>7. CASE AskedToStop \/ AllRunsDone
    BY <1>3, <1>7 DEF AskedToStop, RequestStop, AllRunsDone, runVars, runnerVars, executorVars,
       callVars, SameParts, Going
  <1>8. ASSUME NEW c \in world.choices, Begin(c) PROVE ImageOK'
    <2>1. phase' = "checks"
      BY <1>8 DEF Begin
    <2>2. host'.final # "good"
      BY <1>2, <1>8 DEF Begin, RunTypeOK, MachineTypeOK, Hosts
    <2> QED
      BY <1>1, <2>1, <2>2 DEF ImageOK
  <1>9. ASSUME Progress PROVE ImageOK'
    <2>1. CASE CompressionUnsupported
      <3>1. todo' = <<"abort">> /\ phase' = "head" /\ phase = "checks" /\ host' = host
        BY <2>1 DEF CompressionUnsupported, RejectedStages
      <3> QED
        BY <1>1, <3>1 DEF ImageOK, KernelKnown, Ends
    <2>2. ASSUME NEW snapshotOk \in BOOLEAN, NEW tempOk \in BOOLEAN, CheckDirectories(snapshotOk, tempOk)
          PROVE  ImageOK'
      <3>1. /\ phase = "checks" /\ host' = host
            /\ \/ phase' = "embed"
               \/ phase' = "head" /\ todo' = <<"cleanUp", "abort">>
        BY <2>2 DEF CheckDirectories, MisplacedStages
      <3> QED
        BY <1>1, <3>1 DEF ImageOK, KernelKnown, Ends
    <2>3. CASE CreateEmbedded \/ InstallSignalCleanup \/ ExtractAssets \/ PrepareFails
      <3>1. /\ phase \in {"embed", "install", "extract"} /\ host' = host
            /\ phase' \in {"install", "extract", "probe", "leave"}
        BY <2>3 DEF CreateEmbedded, InstallSignalCleanup, ExtractAssets, PrepareFails
      <3> QED
        BY <1>1, <3>1 DEF ImageOK
    <2>4. CASE ProbeAndPlan
      <3>1. phase = "probe" /\ phase' = "head" /\ todo' = Stages(choices) /\ host' = host
        BY <2>4 DEF ProbeAndPlan
      <3>2. Stages(choices) # <<>>
        BY <1>2, StagesAreStaged DEF Ends
      <3>3. KernelAhead'
        BY <1>2, <3>1, StagesFetch DEF KernelAhead
      <3> QED
        BY <1>1, <3>1, <3>2, <3>3 DEF ImageOK, KernelKnown
    <2>5. CASE StageLoopEnds \/ StopSeenAtStage \/ PlannedAbort \/ SpaceRunsOut
      BY <1>4, <2>5 DEF StageLoopEnds, StopSeenAtStage, PlannedAbort, SpaceRunsOut, Closing
    <2>6. CASE RunStage
      <3>1. phase' = "plan"
        BY <2>6 DEF RunStage
      <3> QED
        BY <1>1, <2>6, <3>1, StageKnows DEF ImageOK
    <2>7. CASE SpaceSuffices \/ MoveWorkDir
      <3>1. /\ phase = "head" /\ phase' \in {"head", "reprobe"} /\ todo # <<>> /\ Stage = "checkEnoughSpace"
            /\ todo' = Tail(todo) /\ host' = host
        BY <2>7 DEF SpaceSuffices, MoveWorkDir, AtSpaceCheck, NextStage
      <3>2. todo \in Seq(StageNames) /\ Staged(todo)
        BY <1>2 DEF RunTypeOK, StageNames, BindRootOK
      <3>3. todo[1] = "checkEnoughSpace"
        BY <3>1, <3>2, StagedTail DEF Stage
      <3>4. todo' # <<>> /\ (Ends(todo', "createIso") => Ends(todo, "createIso"))
        BY <3>1, <3>2, <3>3, StagedTail
      <3>5. KernelAhead => KernelAhead'
        BY <3>1, <3>2, <3>3, AheadOfTail DEF KernelAhead
      <3>6. job'.kernel = job.kernel
        BY <1>2, <2>7 DEF SpaceSuffices, MoveWorkDir, RunTypeOK, MachineTypeOK, Jobs
      <3>7. host.final # "good" /\ KernelKnown
        BY <3>1 DEF ImageOK
      <3>8. KernelKnown'
        BY <3>4, <3>5, <3>6, <3>7 DEF KernelKnown
      <3> QED
        BY <1>1, <3>1, <3>4, <3>7, <3>8 DEF ImageOK
    <2>8. CASE SetupEnvAgain
      <3>1. PICK p \in Probed : Call(PlanSetupEnv(choices, p))
        BY <2>8 DEF SetupEnvAgain
      <3>2. p \in Probes
        BY <3>1, ProbedAreProbes DEF BindRootOK
      <3>3. /\ phase = "reprobe" /\ phase' = "replan" /\ todo' = todo /\ host' = host /\ job' = job
            /\ plan' = PlanSetupEnv(choices, p)
        BY <2>8, <3>1 DEF SetupEnvAgain, Call
      <3>4. Ops(plan') \subseteq SetupOps
        BY <1>2, <3>2, <3>3, SetupIsShaped
      <3>5. FinalKept(plan)' /\ KernelKept(plan)'
        BY <3>4 DEF Ops, SetupOps, FinalKept, KernelKept, FinalOps
      <3>6. todo # <<>> /\ host.final # "good" /\ KernelKnown
        BY <3>3 DEF BindRootOK, ImageOK
      <3>7. KernelKnown'
        BY <3>3, <3>6 DEF KernelKnown, KernelAhead, Ends
      <3>8. FetchGoes'
        BY <3>5, <3>7 DEF FetchGoes
      <3> QED
        BY <1>1, <3>3, <3>6, <3>8 DEF ImageOK
    <2>9. HandleSignalStop => host' = host /\ SameParts(job')
      <3> HAVE HandleSignalStop
      <3>1. \A w : SameParts([job EXCEPT !.work["W1"] = w]) /\ SameParts(job)
        BY <1>2 DEF SameParts, RunTypeOK, MachineTypeOK, Jobs
      <3> QED
        BY <3>1 DEF HandleSignalStop
    <2>10. CASE CallGoesOn
      <3>1. /\ UNCHANGED <<plan, at, lineOk, todo, choices, phase>> /\ host' = host /\ SameParts(job')
        BY <2>9, <2>10 DEF CallGoesOn, runnerVars, HeadEnd, HeadStart, HeadStop, SameParts
      <3>2. Going' => Going
        BY <2>10 DEF CallGoesOn, Going, HeadEnd, HeadStart, HeadStop
      <3> QED
        BY <1>3, <3>1, <3>2
    <2>11. CASE CommandEnds
      <3>1. PICK r \in Results(Current.op) \cup Deniable : Finish(r.out)
        BY <2>11 DEF CommandEnds
      <3>2. Going' => status' = "running"
        BY <3>1 DEF Going, Finish, FinishQuiet, FinishSure, FinishAbort, FinishCheckRoot, FinishCheckLine,
           FinishLine, FinishEmbed, FinishRoot, Advance, GiveUp, Die
      <3>3. phase \in {"plan", "replan", "interrupt"} /\ phase' \in {phase, "gone"}
        BY <2>11 DEF CommandEnds, InCall
      <3>4. phase' \in {"plan", "replan"} /\ Going' =>
               IF todo' = <<>> THEN IsoGoes' ELSE host'.final # "good" /\ FetchGoes'
        BY <2>11, <3>2, <3>3, ImageAdvances
      <3> QED
        BY <1>1, <3>3, <3>4 DEF ImageOK
    <2>12. CASE FailedCheckCommandEnds
      <3>1. ~Going' /\ phase' \in {"plan", "replan", "interrupt", "gone"}
        BY <2>12 DEF FailedCheckCommandEnds, FailedCheckChown, FailedCheckOverlay, Going, GiveUp, Die,
           InCall
      <3> QED
        BY <1>1, <3>1 DEF ImageOK
    <2>13. CASE CallReturns
      <3>1. /\ todo' = todo /\ host' = host /\ job' = job /\ phase \in {"plan", "replan"}
            /\ status = "returned" /\ phase' \in {"head", "kill", "clear", "leave"}
            /\ phase' = "head" => ~aborted
        BY <2>13 DEF CallReturns, Closing
      <3>2. CASE phase' = "head"
        <4>1. IF todo = <<>> THEN host.final = "good" ELSE host.final # "good" /\ KernelKnown
          BY <3>1, <3>2, PlanShows
        <4>2. KernelKnown => KernelKnown'
          BY <3>1 DEF KernelKnown, KernelAhead, Ends
        <4> QED
          BY <1>1, <3>1, <3>2, <4>1, <4>2 DEF ImageOK
      <3> QED
        BY <1>4, <3>1, <3>2
    <2>14. CASE InterruptCleanup \/ InterruptCleanupReturns
      BY <1>4, <2>14 DEF InterruptCleanup, InterruptCleanupReturns, Closing
    <2>15. CASE ClearSignalCleanup \/ Leave
      BY <1>4, <2>15 DEF ClearSignalCleanup, Leave
    <2> QED
      BY <1>9, <2>1, <2>2, <2>3, <2>4, <2>5, <2>6, <2>7, <2>8, <2>10, <2>11, <2>12, <2>13, <2>14, <2>15
         DEF Progress
  <1> QED
    BY <1>5, <1>6, <1>7, <1>8, <1>9 DEF RunStep, RunNext

(* A command of a plan publishes the whole image, breaks it where that was asked for, or leaves it. *)
LEMMA CommandShows ==
    ASSUME RunInv, BindRootOK, ImageOK, CommandEnds
    PROVE  \/ host'.final = host.final
           \/ host.final # "good" /\ host'.final = "good" /\ status' # "exited"
           \/ host.final = "good" /\ host'.final = "partial" /\ choices.hybrid /\ status' # "exited"
  <1>1. PICK r \in Results(Current.op) \cup Deniable : Finish(r.out) /\ host' = r.host
    BY DEF CommandEnds
  <1>2. status = "busy" /\ phase \in {"plan", "replan"}
    BY DEF CommandEnds, InCall, RunInv, DirOK
  <1>3. RunTypeOK /\ at \in 1..Len(plan) /\ Len(plan) \in Nat
    BY <1>2 DEF RunInv, ExecutorInv, ExecutorTypeOK, InStep
  <1>4. IF todo = <<>> THEN IsoGoes ELSE FetchGoes
    BY <1>2 DEF ImageOK, Going
  <1>5. status' = "exited" => r.out = "denied"
    BY <1>1 DEF Finish, FinishQuiet, FinishSure, FinishAbort, FinishCheckRoot, FinishCheckLine,
       FinishLine, FinishEmbed, FinishRoot, Advance, GiveUp, Die
  <1> DEFINE op == plan[at].op
  <1>6. /\ op \notin FinalOps => host'.final = host.final
        /\ op = "publish-iso" =>
              IF r.out = "ok" THEN host'.final = job.tmp ELSE host'.final = host.final
        /\ op = "isohybrid" => host'.final = host.final \/ (r.out = "fail" /\ host'.final = "partial")
    BY <1>1, <1>3, CommandMakes DEF Current, RunTypeOK
  <1>7. CASE todo # <<>>
    BY <1>3, <1>4, <1>6, <1>7 DEF FetchGoes, FinalKept
  <1>8. CASE todo = <<>>
    <2>1. IsoShape(plan, choices.hybrid)
      BY <1>4, <1>8 DEF IsoGoes
    <2>2. at \in 1..10 \/ at = 11 \/ at = 12 \/ at = 13 \/ at \in 14..Len(plan)
      BY <1>3
    <2>3. CASE at \in 1..10 \/ at = 12 \/ at = 13
      <3>1. at = 1 \/ at = 2 \/ at = 3 \/ at = 4 \/ at = 5 \/ at = 6 \/ at = 7 \/ at = 8 \/ at = 9
            \/ at = 10 \/ at = 12 \/ at = 13
        BY <2>3
      <3>2. op \notin FinalOps
        BY <2>1, <3>1, IsoStepsAre DEF FinalOps
      <3> QED
        BY <1>6, <3>2
    <2>4. CASE at = 11
      <3>1. op = "publish-iso"
        BY <2>1, <2>4, IsoStepsAre
      <3>2. job.tmp = "good" /\ host.final # "good"
        BY <1>4, <1>8, <2>4 DEF IsoGoes
      <3>3. r.out = "ok" => status' # "exited"
        BY <1>5
      <3> QED
        BY <1>6, <3>1, <3>2, <3>3
    <2>5. CASE at \in 14..Len(plan)
      <3>1. CASE op # "isohybrid"
        <4>1. op \notin FinalOps
          BY <2>1, <2>5, <3>1 DEF IsoShape, FinalOps
        <4> QED
          BY <1>6, <4>1
      <3>2. CASE op = "isohybrid"
        <4>1. choices.hybrid /\ plan[at].kind = "line"
          BY <2>1, <2>5, <3>2 DEF IsoShape
        <4>2. ~(at > 14 /\ plan[at - 1].op = "isohybrid")
          <5> SUFFICES ASSUME at > 14, plan[at - 1].op = "isohybrid" PROVE FALSE
            OBVIOUS
          <5>1. at - 1 \in 14..Len(plan) /\ (at - 1) + 1 = at
            BY <1>3, <2>5
          <5> QED
            BY <2>1, <4>1, <5>1 DEF IsoShape
        <4>3. at > 12
          BY <2>5
        <4>4. host.final = "good"
          BY <1>4, <1>8, <4>2, <4>3 DEF IsoGoes
        <4>5. r.out = "fail" => status' # "exited"
          BY <1>5
        <4> QED
          BY <1>6, <3>2, <4>1, <4>4, <4>5
      <3> QED
        BY <3>1, <3>2
    <2> QED
      BY <2>2, <2>3, <2>4, <2>5
  <1> QED
    BY <1>7, <1>8

(* The failed check's own commands leave the image. *)
LEMMA FailedCheckShows ==
    ASSUME RunInv, FailedCheckCommandEnds PROVE host'.final = host.final
  <1>1. CASE UNCHANGED machineVars
    BY <1>1 DEF machineVars
  <1>2. ASSUME NEW r \in Results("cleanup_overlay"), host' = r.host PROVE host'.final = host.final
    BY <1>2, MountsLeaveImage DEF MountOps, RunInv, RunTypeOK
  <1>3. ASSUME NEW r \in Unchanged({Refused}), host' = r.host PROVE host'.final = host.final
    BY <1>3 DEF Unchanged, Out
  <1> QED
    BY <1>1, <1>2, <1>3 DEF FailedCheckCommandEnds

(* The contract's view of the image and the report. *)
LEMMA ContractView ==
    ASSUME RunTypeOK, world.runs \in Nat
    PROVE  /\ Image = "whole" <=> host.final = "good"
           /\ Image = "damaged" <=> host.final = "partial"
           /\ host.final \notin {"good", "partial"} => Image = host.final
           /\ verdict \in {"exited", "killed"} => Report = "lost"
           /\ verdict \in {"success", "aborted", "interrupted"} => Report = verdict
           /\ verdict = "none" /\ runs = 0 => Report = "idle"
           /\ verdict = "none" /\ runs > 0 => Report = "running"
  <1>1. host.final \in {"none", "old", "partial", "good"} /\ runs \in Nat
    BY DEF RunTypeOK, MachineTypeOK, Hosts
  <1> QED
    BY <1>1 DEF Image, Report

(* Every step of a run is a step of the contract, or none. *)
LEMMA RunStepIsContractStep ==
    ASSUME RunInv, RunInv', BindRootOK, ImageOK, RunStep
    PROVE  [Contract!ContractNext]_(Contract!contractVars)
  <1> USE DEF Step1, End, machineVars
  <1> DEFINE Silent == Image' = Image /\ Report' = Report /\ choices' = choices
             Cut == /\ Report = "running" /\ Report' \in {"aborted", "interrupted", "lost"}
                      /\ Image' = Image /\ choices' = choices
             Loses == /\ Report \in {"success", "aborted", "interrupted"} /\ Report' = "lost"
                      /\ Image' = Image /\ choices' = choices
  <1>1. /\ Silent => UNCHANGED Contract!contractVars
        /\ Cut => Contract!EndOtherwise
        /\ Loses => Contract!LoseReport
    BY DEF Contract!contractVars, Contract!EndOtherwise, Contract!LoseReport
  <1>2. RunTypeOK /\ world.runs \in Nat /\ runs \in Nat /\ RunTypeOK' /\ world' = world
    <2>1. world' = world
      BY DEF RunStep
    <2> QED
      BY <2>1, WorldIsKnown DEF RunInv, RunTypeOK
  <1> DEFINE Seen(final, image) ==
        /\ image = "whole" <=> final = "good"
        /\ image = "damaged" <=> final = "partial"
        /\ final \notin {"good", "partial"} => image = final
  <1> DEFINE Told(result, count, report) ==
        /\ result \in {"exited", "killed"} => report = "lost"
        /\ result \in {"success", "aborted", "interrupted"} => report = result
        /\ result = "none" /\ count = 0 => report = "idle"
        /\ result = "none" /\ count > 0 => report = "running"
  <1>3. Seen(host.final, Image) /\ Told(verdict, runs, Report)
    BY <1>2, ContractView
  <1>4. Seen(host'.final, Image') /\ Told(verdict', runs', Report')
    <2>1. host'.final \in {"none", "old", "partial", "good"} /\ runs' \in Nat
      BY <1>2 DEF RunTypeOK, MachineTypeOK, Hosts
    <2> QED
      BY <2>1 DEF Image, Report
  <1>5. host'.final = host.final => Image' = Image
    BY DEF Image
  <1>6. verdict' = verdict /\ runs' = runs => Report' = Report
    BY DEF Report
  <1>7. /\ phase \in {"ready", "gone"} => (verdict = "none" <=> runs = 0)
        /\ phase \notin {"ready", "gone"} => runs > 0 /\ verdict \notin {"exited", "killed"}
        /\ phase \notin {"ready", "gone", "clear", "leave"} => verdict = "none" /\ Report = "running"
    BY <1>3 DEF ImageOK, VerdictOK
  <1> HIDE DEF Seen, Told
  (* Steps of which the contract sees nothing. *)
  <1>8. ASSUME verdict' = verdict, runs' = runs, host'.final = host.final, choices' = choices
        PROVE  UNCHANGED Contract!contractVars
    BY <1>1, <1>5, <1>6, <1>8
  (* Steps that end a run without success. *)
  <1>9. ASSUME phase \notin {"ready", "gone", "clear", "leave"}, host'.final = host.final,
               verdict' \in {"aborted", "interrupted", "exited", "killed"}, choices' = choices
        PROVE  Contract!EndOtherwise
    <2>1. Report' \in {"aborted", "interrupted", "lost"}
      BY <1>4, <1>9 DEF Told
    <2> QED
      BY <1>1, <1>5, <1>7, <1>9, <2>1
  <1>10. CASE UNCHANGED <<runVars, world>>
    BY <1>8, <1>10 DEF runVars, runnerVars
  <1>11. CASE Launch
    BY <1>8, <1>11 DEF Launch
  <1>12. CASE Kill \/ SignalKills \/ Denied
    <2>1. /\ phase \notin {"ready", "gone"} /\ host' = host /\ choices' = choices
          /\ verdict' \in {"exited", "killed"}
      BY <1>12 DEF Kill, SignalKills, Denied, AtSpaceCheck, Vanish, Busy
    <2>2. CASE phase \in {"clear", "leave"}
      <3>1. verdict \in {"success", "aborted", "interrupted"}
        BY <1>2, <2>1, <2>2 DEF RunTypeOK, ImageOK, VerdictOK
      <3>2. Report \in {"success", "aborted", "interrupted"} /\ Report' = "lost"
        BY <1>3, <1>4, <2>1, <3>1 DEF Told
      <3>3. Contract!LoseReport
        BY <1>1, <1>5, <2>1, <3>2
      <3> QED
        BY <3>3 DEF Contract!ContractNext
    <2>3. CASE phase \notin {"clear", "leave"}
      <3>1. Contract!EndOtherwise
        BY <1>9, <2>1, <2>3
      <3> QED
        BY <3>1 DEF Contract!ContractNext
    <2> QED
      BY <2>2, <2>3
  <1>13. CASE AskedToStop \/ AllRunsDone
    BY <1>8, <1>13 DEF AskedToStop, AllRunsDone, runVars, runnerVars
  <1>14. ASSUME NEW c \in world.choices, Begin(c) PROVE Contract!StartRun
    <2>1. phase = "ready" /\ runs' = runs + 1 /\ verdict' = "none"
          /\ host' = [host EXCEPT !.final = IF @ = "good" THEN "old" ELSE @]
      BY <1>14 DEF Begin
    <2>2. host'.final = IF host.final = "good" THEN "old" ELSE host.final
      BY <1>2, <2>1 DEF RunTypeOK, MachineTypeOK, Hosts
    <2>3. Image' = IF Image = "whole" THEN "old" ELSE Image
      BY <1>3, <1>4, <1>5, <2>2 DEF Seen
    <2>4. Report # "running"
      BY <1>2, <1>3, <1>7, <2>1 DEF Told, RunTypeOK
    <2>5. Report' = "running"
      <3>1. runs' > 0
        BY <1>2, <2>1
      <3> QED
        BY <1>4, <2>1, <3>1 DEF Told
    <2> QED
      BY <2>3, <2>4, <2>5 DEF Contract!StartRun
  <1>15. ASSUME Progress PROVE [Contract!ContractNext]_(Contract!contractVars)
    <2>1. CASE CompressionUnsupported \/ CreateEmbedded \/ InstallSignalCleanup \/ ExtractAssets
               \/ ProbeAndPlan \/ StopSeenAtStage \/ RunStage \/ SpaceSuffices \/ MoveWorkDir
               \/ SetupEnvAgain \/ InterruptCleanup \/ Leave
               \/ \E snapshotOk, tempOk \in BOOLEAN : CheckDirectories(snapshotOk, tempOk)
      BY <1>8, <2>1 DEF CompressionUnsupported, CreateEmbedded, InstallSignalCleanup, ExtractAssets,
         ProbeAndPlan, StopSeenAtStage, RunStage, SpaceSuffices, MoveWorkDir, SetupEnvAgain,
         InterruptCleanup, Leave, CheckDirectories
    <2>2. CASE PrepareFails \/ PlannedAbort \/ SpaceRunsOut
      <3>1. /\ phase \in {"embed", "extract", "head"} /\ host' = host /\ choices' = choices
            /\ verdict' = "aborted"
        BY <2>2 DEF PrepareFails, PlannedAbort, SpaceRunsOut, AtSpaceCheck
      <3>2. Contract!EndOtherwise
        BY <1>9, <3>1
      <3> QED
        BY <3>2 DEF Contract!ContractNext
    <2>3. CASE StageLoopEnds
      <3>1. phase = "head" /\ todo = <<>> /\ host' = host /\ choices' = choices /\ verdict' = "success"
        BY <2>3 DEF StageLoopEnds
      <3>2. Image = "whole"
        BY <1>3, <3>1 DEF ImageOK, Seen
      <3>3. Report = "running" /\ Report' = "success" /\ Image' = Image
        BY <1>4, <1>5, <1>7, <3>1 DEF Told
      <3>4. Contract!ReportSuccess
        BY <3>1, <3>2, <3>3 DEF Contract!ReportSuccess
      <3> QED
        BY <3>4 DEF Contract!ContractNext
    <2>4. HandleSignalStop => host' = host
      BY DEF HandleSignalStop
    <2>5. CASE CallGoesOn \/ ClearSignalCleanup
      BY <1>8, <2>4, <2>5 DEF CallGoesOn, ClearSignalCleanup, runnerVars
    <2>6. CASE CommandEnds
      <3>1. /\ phase \in {"plan", "replan", "interrupt"} /\ choices' = choices /\ runs' = runs
            /\ status' = "exited" => verdict' = "exited"
            /\ status' # "exited" => verdict' = verdict
        BY <2>6 DEF CommandEnds, InCall
      <3>2. \/ host'.final = host.final
            \/ host.final # "good" /\ host'.final = "good" /\ status' # "exited"
            \/ host.final = "good" /\ host'.final = "partial" /\ choices.hybrid /\ status' # "exited"
        BY <2>6, CommandShows
      <3>3. Report = "running"
        BY <1>7, <3>1
      <3>4. CASE host'.final = host.final /\ status' = "exited"
        <4>1. Contract!EndOtherwise
          BY <1>9, <3>1, <3>4
        <4> QED
          BY <4>1 DEF Contract!ContractNext
      <3>5. CASE host'.final = host.final /\ status' # "exited"
        BY <1>8, <3>1, <3>5
      <3>6. CASE host.final # "good" /\ host'.final = "good" /\ status' # "exited"
        <4>1. Image # "whole" /\ Image' = "whole" /\ Report' = Report
          BY <1>3, <1>4, <1>6, <3>1, <3>6 DEF Seen
        <4>2. Contract!PublishImage
          BY <3>1, <3>3, <4>1 DEF Contract!PublishImage
        <4> QED
          BY <4>2 DEF Contract!ContractNext
      <3>7. CASE host.final = "good" /\ host'.final = "partial" /\ choices.hybrid /\ status' # "exited"
        <4>1. Image = "whole" /\ Image' = "damaged" /\ Report' = Report
          BY <1>3, <1>4, <1>6, <3>1, <3>7 DEF Seen
        <4>2. Contract!DamageImage
          BY <3>1, <3>3, <3>7, <4>1 DEF Contract!DamageImage
        <4> QED
          BY <4>2 DEF Contract!ContractNext
      <3> QED
        BY <3>2, <3>4, <3>5, <3>6, <3>7
    <2>7. CASE FailedCheckCommandEnds
      <3>1. /\ phase \in {"plan", "replan", "interrupt"} /\ choices' = choices /\ runs' = runs
            /\ verdict' \in {verdict, "exited"}
        BY <2>7 DEF FailedCheckCommandEnds, InCall
      <3>2. host'.final = host.final
        BY <2>7, FailedCheckShows
      <3>3. verdict' = "exited" => Contract!EndOtherwise
        BY <1>9, <3>1, <3>2
      <3>4. verdict' = verdict => UNCHANGED Contract!contractVars
        BY <1>8, <3>1, <3>2
      <3> QED
        BY <3>1, <3>3, <3>4 DEF Contract!ContractNext
    <2>8. CASE CallReturns
      <3>1. /\ phase \in {"plan", "replan"} /\ host' = host /\ choices' = choices /\ runs' = runs
            /\ verdict' = verdict \/ verdict' = "aborted"
        BY <2>8 DEF CallReturns
      <3>2. verdict' = "aborted" => Contract!EndOtherwise
        BY <1>9, <3>1
      <3>3. verdict' = verdict => UNCHANGED Contract!contractVars
        BY <1>8, <3>1
      <3> QED
        BY <3>1, <3>2, <3>3 DEF Contract!ContractNext
    <2>9. CASE InterruptCleanupReturns
      <3>1. phase = "interrupt" /\ host' = host /\ choices' = choices /\ verdict' = "interrupted"
        BY <2>4, <2>9 DEF InterruptCleanupReturns
      <3>2. Contract!EndOtherwise
        BY <1>9, <3>1
      <3> QED
        BY <3>2 DEF Contract!ContractNext
    <2> QED
      BY <1>15, <2>1, <2>2, <2>3, <2>5, <2>6, <2>7, <2>8, <2>9 DEF Progress
  <1> QED
    BY <1>10, <1>11, <1>12, <1>13, <1>14, <1>15 DEF RunStep, RunNext, Contract!ContractNext

(* Every run keeps what each phase knows of the image and its parts, up to the report. *)
THEOREM ImageIsKept == RunSpec => [](RunInv /\ BindRootOK /\ ImageOK)
  <1>1. RunInit => ImageOK
    BY DEF RunInit, ImageOK, VerdictOK
  <1>2. RunInv /\ BindRootOK /\ ImageOK /\ RunStep => ImageOK'
    BY ImageKept
  <1> QED
    BY BindRootIsKept, <1>1, <1>2, PTL DEF RunSpec, RunStep

(***************************************************************************)
(* Every run keeps the contract, for every machine, every choice and every *)
(* number of runs: the image under the final name goes from nothing, or an *)
(* earlier one, to a whole one in one step, is broken only where it was to *)
(* be made hybrid, and success is reported only behind a whole one.        *)
(***************************************************************************)
THEOREM RunKeepsContract == RunSpec => KeepsContract
  <1>1. RunInit => Contract!ContractInit
    BY DEF RunInit, NewHost, Contract!ContractInit, Image, Report
  <1>2. RunInv /\ RunInv' /\ BindRootOK /\ ImageOK /\ RunStep
           => [Contract!ContractNext]_(Contract!contractVars)
    BY RunStepIsContractStep
  <1> QED
    BY ImageIsKept, <1>1, <1>2, PTL DEF RunSpec, RunStep, KeepsContract, Contract!ContractSpec

----------------------------------------------------------------------------
(* When nothing fails. *)

(* Commands that may fail although nothing is wrong, and those that always do. *)
Asking == {"mountpoint-root", "mountpoint-lower", "umount-root", "umount-lower", "cleanup_overlay"}
Refusing == {"touch-stamp", "embed_installer"}
Unmounting == {"umount-root", "cleanup", "cleanup_overlay"}

(* What a command needs to come through. *)
Served(op) ==
    /\ op \in {"test-etc", "test-passwd"} => host.root > 0
    /\ op = "copy-initrd-modules" => job.work["W1"] = "workspace"
    /\ op = "test-initrd" => job.initrd # "none"
    /\ op = "test-linuxfs" => job.linuxfs # "none"

(* With no fault and no refusal, a command that has what it needs comes through. *)
LEMMA CalmOutcomes ==
    ASSUME MachineTypeOK, ~world.faults, world.refusals = {}, NEW op, op \notin Refusing,
           NEW r \in Results(op)
    PROVE  /\ r.out \in {"ok", "fail"}
           /\ op \notin Asking /\ Served(op) => r.out = "ok"
  <1>1. Failing = {}
    BY DEF Failing
  <1>2. \A h : \A q \in OnHost(h) : q.out = "ok"
    BY <1>1 DEF OnHost, Out
  <1>3. \A j : \A q \in OnJob(j) : q.out = "ok"
    BY <1>1 DEF OnJob, Out
  <1>4. \A q \in Maybe({"ok"}) : q.out = "ok"
    BY DEF Maybe, Unchanged, Out
  <1>5. \A b : \A q \in Verdict(b) : q.out \in {"ok", "fail"} /\ (b => q.out = "ok")
    BY DEF Verdict, Unchanged, Out
  <1>6. \A o, h, j : Out(o, h, j).out = o
    BY DEF Out
  <1>7. CASE op \in {"mountpoint-root", "mountpoint-lower"}
    <2>1. \A b : \A q \in Mountpoint(b) : q.out \in {"ok", "fail"}
      BY <1>5 DEF Mountpoint
    <2> QED
      BY <1>7, <2>1 DEF Results, Asking
  <1>8. CASE op = "umount-root"
    <2>1. Results(op) = UmountRoot
      BY <1>8 DEF Results
    <2> DEFINE Leaving(n) == IF n < host.root
                             THEN Out("ok", [host EXCEPT !.root = n, !.prepared = FALSE], job)
                             ELSE Out("fail", host, job)
    <2>2. UmountRoot = { Leaving(n) : n \in UmountLeaves(host.root) }
      BY DEF UmountRoot
    <2>3. \A n : Leaving(n).out \in {"ok", "fail"}
      BY <1>6
    <2> HIDE DEF Leaving
    <2> QED
      BY <1>8, <2>1, <2>2, <2>3 DEF Asking
  <1>9. CASE op = "umount-lower"
    <2>1. Results(op) = UmountLower
      BY <1>9 DEF Results
    <2>2. \A q \in UmountLower : q.out \in {"ok", "fail"}
      BY DEF UmountLower, Out
    <2> QED
      BY <1>9, <2>1, <2>2 DEF Asking
  <1>10. CASE op = "cleanup_overlay"
    <2>1. Results(op) = RemoveOverlay
      BY <1>10 DEF Results, CleanupOverlay
    <2> DEFINE Left(n, l) ==
          LET reached == l > 0 \/ (n > 0 /\ host.prepared) IN
          Out(IF l = 0 /\ n = 0 THEN "ok" ELSE "fail",
              [host EXCEPT !.root = n, !.lower = l,
                           !.prepared = @ /\ n = host.root,
                           !.base = @ /\ n > 0,
                           !.live = @ /\ ~reached],
              job)
    <2>2. RemoveOverlay =
             { Left(n, l) : n \in UmountLeaves(host.root), l \in UmountLeaves(host.lower) }
      BY DEF RemoveOverlay
    <2>3. ASSUME NEW n, NEW l PROVE Left(n, l).out \in {"ok", "fail"}
      <3> DEFINE h == [host EXCEPT !.root = n, !.lower = l,
                                   !.prepared = @ /\ n = host.root,
                                   !.base = @ /\ n > 0,
                                   !.live = @ /\ ~(l > 0 \/ (n > 0 /\ host.prepared))]
                 o == IF l = 0 /\ n = 0 THEN "ok" ELSE "fail"
      <3>1. Left(n, l) = Out(o, h, job) /\ o \in {"ok", "fail"}
        OBVIOUS
      <3> HIDE DEF h, o, Left
      <3> QED
        BY <1>6, <3>1
    <2> HIDE DEF Left
    <2> QED
      BY <1>10, <2>1, <2>2, <2>3 DEF Asking
  <1>11. CASE op \in {"bind-lower", "mount-overlay", "cleanup", "mkdir-overlay", "installed-to-live"}
    <2>1. /\ \A q \in BindLower \cup MountOverlay : q.out = "ok"
          /\ \A q \in Cleanup : q.out = "ok"
      <3>1. \A q \in BindLower \cup MountOverlay : q.out = "ok"
        BY <1>1, <1>2 DEF BindLower, MountOverlay
      <3>2. \A q \in Cleanup : \E h : q \in OnHost(h)
        BY DEF Cleanup
      <3> QED
        BY <1>2, <3>1, <3>2
    <2>2. \A q \in InstalledToLive : q.out = "ok"
      <3>1. \A q \in InstalledToLive : q \in Failing \/ \E h : q = Out("ok", h, job)
        BY DEF InstalledToLive
      <3> QED
        BY <1>1, <1>6, <3>1
    <2> QED
      BY <1>2, <1>11, <2>1, <2>2 DEF Results
  <1>12. CASE op \in {"test-etc", "test-passwd"}
    <2>1. \A q \in Unchanged({"fail"}) : q.out = "fail"
      BY DEF Unchanged, Out
    <2> QED
      BY <1>4, <1>12, <2>1 DEF Results, Served
  <1>13. CASE op \in {"test-initrd", "test-linuxfs"}
    BY <1>5, <1>13 DEF Results, Served
  <1>14. CASE op = "copy-initrd-modules"
    <2>1. \A q \in Unchanged({"fail"}) : q.out = "fail"
      BY DEF Unchanged, Out
    <2> QED
      BY <1>4, <1>14, <2>1 DEF Results, CopyModules, Served
  <1>15. CASE op \in {"extract-iso-template", "populate-initrd", "copy-vmlinuz", "pack-initrd",
                      "mksquashfs", "move-linuxfs", "xorriso"}
    <2>1. /\ \A q \in ExtractTemplate \cup PopulateInitrd \cup PackInitrd : q.out = "ok"
          /\ \A q \in Squash \cup Xorriso : q.out = "ok"
      BY <1>3 DEF ExtractTemplate, PopulateInitrd, PackInitrd, Squash, Xorriso
    <2> QED
      BY <1>3, <1>15, <2>1 DEF Results
  <1>16. CASE op \in {"xorriso-final", "publish-iso", "isohybrid"}
    <2>1. \A q \in XorrisoInPlace \cup Publish \cup Isohybrid : q.out = "ok"
      BY <1>1, <1>2, <1>4 DEF XorrisoInPlace, Publish, Isohybrid, Out
    <2> QED
      BY <1>16, <2>1 DEF Results
  <1>17. CASE op \notin Asking \cup {"bind-lower", "mount-overlay", "cleanup", "mkdir-overlay",
             "installed-to-live", "test-etc", "test-passwd", "test-initrd", "test-linuxfs",
             "copy-initrd-modules", "extract-iso-template", "populate-initrd", "copy-vmlinuz",
             "pack-initrd", "mksquashfs", "move-linuxfs", "xorriso", "xorriso-final",
             "publish-iso", "isohybrid"}
    BY <1>4, <1>17 DEF Results, Asking, Refusing
  <1> QED
    BY <1>7, <1>8, <1>9, <1>10, <1>11, <1>12, <1>13, <1>14, <1>15, <1>16, <1>17 DEF Asking

(* What it leaves for the commands behind it. *)
LEMMA CalmServes ==
    ASSUME MachineTypeOK, ~world.faults, NEW op, NEW r \in Results(op)
    PROVE  /\ op = "mount-overlay" => r.host.root > 0
           /\ op \notin Unmounting /\ host.root > 0 => r.host.root > 0
           /\ op = "pack-initrd" => r.job.initrd # "none"
           /\ job.initrd # "none" => r.job.initrd # "none"
           /\ op = "mksquashfs" => r.job.linuxfs # "none"
           /\ op # "move-linuxfs" /\ job.linuxfs # "none" => r.job.linuxfs # "none"
           /\ job.work["W1"] = "workspace" => r.job.work["W1"] = "workspace"
  <1>1. Failing = {}
    BY DEF Failing
  <1>2. host.root \in Nat
    BY DEF MachineTypeOK, Hosts
  <1>3. op = "mount-overlay" => r.host.root > 0
    <2> HAVE op = "mount-overlay"
    <2>1. PICK m : m = [host EXCEPT !.root = @ + 1, !.prepared = FALSE]
      OBVIOUS
    <2>2. m.root = host.root + 1
      BY <2>1 DEF MachineTypeOK, Hosts
    <2>3. r.host = m
      BY <1>1, <2>1 DEF Results, MountOverlay, OnHost, Out
    <2> QED
      BY <1>2, <2>2, <2>3
  <1>4. op \notin Unmounting /\ host.root > 0 => r.host.root > 0
    <2>1. op \notin Stirs \/ op = "mksquashfs" => r.host.root = host.root
      BY BindRootLeft DEF SameBindRoot
    <2>2. op = "installed-to-live" => r.host.root = host.root
      BY BindRootLeft
    <2> QED
      BY <1>3, <2>1, <2>2 DEF Stirs, Unmounting
  <1> DEFINE Kept(j) == /\ j.initrd = job.initrd
                        /\ job.work["W1"] = "workspace" => j.work["W1"] = "workspace"
  <1>5. ASSUME NEW p
        PROVE  /\ [job EXCEPT !.initrd = p].initrd = p
               /\ [job EXCEPT !.initrd = p].work = job.work
               /\ [job EXCEPT !.initrd = p].linuxfs = job.linuxfs
               /\ [job EXCEPT !.linuxfs = p].linuxfs = p
               /\ Kept([job EXCEPT !.linuxfs = p])
    BY DEF MachineTypeOK, Jobs
  <1>6. ASSUME NEW p, NEW q
         PROVE  /\ Kept([job EXCEPT !.kernel = p]) /\ Kept([job EXCEPT !.tmp = p])
                /\ Kept([job EXCEPT !.iso2 = p, !.linuxfs = q])
    BY DEF MachineTypeOK, Jobs
  <1>7. ASSUME NEW w, job.work["W1"] = "workspace" => w = "workspace"
         PROVE  Kept([job EXCEPT !.work["W1"] = w])
    BY <1>7 DEF MachineTypeOK, Jobs
  <1>8. Kept(job)
    OBVIOUS
  <1>9. CASE op = "pack-initrd"
    <2>1. r.job = [job EXCEPT !.initrd = "good"]
      BY <1>1, <1>9 DEF Results, PackInitrd, OnJob, Out
    <2> QED
      BY <1>3, <1>4, <1>5, <1>9, <2>1, PartsLeft
  <1>10. CASE op = "mksquashfs"
    <2>1. PICK squashed : squashed = IF host.root = 0 THEN "partial" ELSE "good"
      OBVIOUS
    <2>2. r.job = [job EXCEPT !.linuxfs = squashed]
      BY <1>1, <1>10, <2>1 DEF Results, Squash, OnJob, Out
    <2>3. squashed # "none"
      BY <2>1
    <2> QED
      BY <1>3, <1>4, <1>5, <1>10, <2>2, <2>3
  <1>11. CASE op \notin {"pack-initrd", "mksquashfs"}
    <2>1. Kept(r.job)
      <3>1. op \in MountOps => r.job = job
        BY MountsLeaveImage
      <3>2. op = "extract-iso-template" => Kept(r.job)
        <4> HAVE op = "extract-iso-template"
        <4>1. PICK w : w = IF job.work["W1"] = "gone" THEN "bare" ELSE job.work["W1"]
          OBVIOUS
        <4>2. ExtractTemplate = OnJob([job EXCEPT !.work["W1"] = w])
          BY <4>1 DEF ExtractTemplate, MachineTypeOK, Jobs
        <4>3. r.job = [job EXCEPT !.work["W1"] = w]
          BY <1>1, <4>2 DEF Results, OnJob, Out
        <4> QED
          BY <1>7, <4>1, <4>3
      <3>3. op = "populate-initrd" => Kept(r.job)
        <4> HAVE op = "populate-initrd"
        <4>1. PICK w : w = IF job.work["W1"] = "workspace" THEN job.work["W1"] ELSE "husk"
          OBVIOUS
        <4>2. PICK made : made = [job EXCEPT !.work["W1"] = w]
          OBVIOUS
        <4>3. r.job = made
          BY <1>1, <4>1, <4>2 DEF Results, PopulateInitrd, OnJob, Out, MachineTypeOK, Jobs
        <4> QED
          BY <1>7, <4>1, <4>2, <4>3
      <3>4. op \in {"copy-vmlinuz", "move-linuxfs", "xorriso", "publish-iso"} => Kept(r.job)
        <4> HAVE op \in {"copy-vmlinuz", "move-linuxfs", "xorriso", "publish-iso"}
        <4>1. PICK burnt : burnt = IF Burnt = "none" THEN "partial" ELSE Burnt
          OBVIOUS
        <4>2. r.job \in {[job EXCEPT !.kernel = "good"], [job EXCEPT !.tmp = burnt],
                         [job EXCEPT !.iso2 = job.linuxfs, !.linuxfs = "none"],
                         [job EXCEPT !.tmp = "none"]}
          BY <1>1, <4>1 DEF Results, Xorriso, Publish, OnJob, Out
        <4>3. PICK l : l = job.linuxfs
          OBVIOUS
        <4>4. Kept([job EXCEPT !.iso2 = l, !.linuxfs = "none"])
          BY <1>6
        <4>5. Kept([job EXCEPT !.kernel = "good"]) /\ Kept([job EXCEPT !.tmp = burnt])
              /\ Kept([job EXCEPT !.tmp = "none"])
          BY <1>6
        <4> HIDE DEF Kept
        <4> QED
          BY <4>2, <4>3, <4>4, <4>5
      <3>5. op \notin MountOps \cup {"extract-iso-template", "populate-initrd", "copy-vmlinuz",
                                     "move-linuxfs", "xorriso", "publish-iso"} => r.job = job
        BY <1>1, <1>11, JobUntouched DEF Results, MountOps, CopyModules, XorrisoInPlace, Isohybrid, Out
      <3> QED
        BY <1>8, <3>1, <3>2, <3>3, <3>4, <3>5
    <2> QED
      BY <1>3, <1>4, <1>11, <2>1, PartsLeft
  <1> QED
    BY <1>9, <1>10, <1>11

(* Behind a command op, with nothing between that undoes it. *)
Behind(s, i, op, undo) ==
    \E k \in 1..i - 1 : s[k].op = op /\ \A n \in k + 1..i - 1 : s[n].op \notin undo

(* A step that comes through when the ones before it have, and nothing fails. *)
StepGrounded(s, i) ==
    /\ s[i].kind # "abort" /\ s[i].op \notin Refusing
    /\ s[i].kind \in {"line", "strict", "embed"} => s[i].op \notin Asking
    /\ s[i].kind = "checkLine" => i > 1 /\ s[i - 1].kind = "line"
    /\ s[i].kind = "checkRoot" => i > 1 /\ s[i - 1].kind = "tolerant" /\ s[i - 1].op \notin Asking
    /\ s[i].op \in {"test-etc", "test-passwd"} => Behind(s, i, "mount-overlay", Unmounting)
    /\ s[i].op = "test-initrd" => Behind(s, i, "pack-initrd", {})
    /\ s[i].op = "test-linuxfs" => Behind(s, i, "mksquashfs", {"move-linuxfs"})

Grounded(s) == \A i \in 1..Len(s) : StepGrounded(s, i)

(* A step stays grounded among the same steps before it, wherever these lie. *)
LEMMA GroundedShifts ==
    ASSUME NEW s, NEW u, NEW n \in Nat, NEW i \in Nat, i >= 1, \A k \in 1..i : u[n + k] = s[k],
           StepGrounded(s, i)
    PROVE  StepGrounded(u, n + i)
  <1>1. u[n + i] = s[i]
    BY i \in 1..i
  <1>2. i > 1 => u[(n + i) - 1] = s[i - 1] /\ n + i > 1
    <2> HAVE i > 1
    <2>1. i - 1 \in 1..i /\ n + (i - 1) = (n + i) - 1
      BY i > 1
    <2> QED
      BY <2>1
  <1>3. ASSUME NEW op, NEW undo, Behind(s, i, op, undo) PROVE Behind(u, n + i, op, undo)
    <2>1. PICK k \in 1..i - 1 : s[k].op = op /\ \A q \in k + 1..i - 1 : s[q].op \notin undo
      BY <1>3 DEF Behind
    <2>2. n + k \in 1..(n + i) - 1 /\ k \in 1..i
      OBVIOUS
    <2>3. u[n + k].op = op
      BY <2>1, <2>2
    <2>4. ASSUME NEW q \in (n + k) + 1..(n + i) - 1 PROVE u[q].op \notin undo
      <3>1. PICK j : j = q - n
        OBVIOUS
      <3>2. j \in k + 1..i - 1 /\ j \in 1..i /\ n + j = q
        BY <3>1
      <3>3. u[n + j] = s[j]
        BY <3>2
      <3> QED
        BY <2>1, <3>2, <3>3
    <2> QED
      BY <2>2, <2>3, <2>4 DEF Behind
  <1> QED
    BY <1>1, <1>2, <1>3 DEF StepGrounded

(* Grounded pieces joined are a grounded plan. *)
LEMMA GroundedJoined ==
    ASSUME NEW s \in Seq(Steps), NEW t \in Seq(Steps), Grounded(s), Grounded(t)
    PROVE  s \o t \in Seq(Steps) /\ Grounded(s \o t)
  <1>1. PICK u : u = s \o t
    OBVIOUS
  <1>2. /\ u \in Seq(Steps) /\ Len(u) = Len(s) + Len(t) /\ Len(s) \in Nat /\ Len(t) \in Nat
        /\ \A i \in 1..Len(s) : u[i] = s[i]
        /\ \A i \in 1..Len(t) : u[Len(s) + i] = t[i]
    BY <1>1, Joined
  <1>3. ASSUME NEW i \in 1..Len(u) PROVE StepGrounded(u, i)
    <2>1. CASE i <= Len(s)
      <3>1. i \in 1..Len(s) /\ i \in Nat /\ i >= 1 /\ 0 \in Nat /\ 0 + i = i
        BY <1>2, <2>1
      <3>2. \A k \in 1..i : u[0 + k] = s[k]
        BY <1>2, <2>1
      <3>3. StepGrounded(s, i)
        BY <3>1 DEF Grounded
      <3>4. StepGrounded(u, 0 + i)
        BY ONLY <3>1, <3>2, <3>3, GroundedShifts
      <3> QED
        BY <3>1, <3>4
    <2>2. CASE ~(i <= Len(s))
      <3>1. PICK j : j = i - Len(s)
        OBVIOUS
      <3>2. j \in 1..Len(t) /\ j \in Nat /\ j >= 1 /\ Len(s) + j = i
        BY <1>2, <2>2, <3>1
      <3>3. \A k \in 1..j : u[Len(s) + k] = t[k]
        BY <1>2, <3>2
      <3>4. StepGrounded(t, j)
        BY <3>2 DEF Grounded
      <3>5. StepGrounded(u, Len(s) + j)
        BY ONLY <1>2, <3>2, <3>3, <3>4, GroundedShifts
      <3> QED
        BY <3>2, <3>5
    <2> QED
      BY <2>1, <2>2
  <1> QED
    BY <1>1, <1>2, <1>3 DEF Grounded

(* A piece that is joined only on a condition. *)
LEMMA OptionallyGrounded ==
    ASSUME NEW b \in BOOLEAN, NEW s \in Seq(Steps), Grounded(s)
    PROVE  Optional(b, s) \in Seq(Steps) /\ Grounded(Optional(b, s))
  BY DEF Optional, Grounded

(* Settings with which a run can succeed: a kernel, and none of the two commands that always fail. *)
Sound(c) == c.kernel /\ ~c.reset /\ ~c.installer

(* planSetupEnv asks no more of a command than the ones before it have provided. *)
LEMMA SetupIsGrounded ==
    ASSUME NEW c \in Choices, Sound(c), NEW p \in Probes PROVE Grounded(PlanSetupEnv(c, p))
  <1> DEFINE X == <<Line("mountpoint-boot"), Strict("datetime_log")>>
             A == <<Strict("mkdir-overlay"), Tolerant("mountpoint-root")>>
             B == <<Tolerant("umount-root")>>
             C == <<Tolerant("mountpoint-lower")>>
             D == <<Tolerant("umount-lower")>>
             E == <<Tolerant("bind-lower"), CheckRoot, Tolerant("mount-overlay"), CheckRoot,
                    Line("test-etc"), CheckLine, Line("test-passwd"), CheckLine>>
             I == <<Tolerant("installed-to-live"), CheckRoot>>
  <1>1. /\ X \in Seq(Steps) /\ A \in Seq(Steps) /\ B \in Seq(Steps) /\ C \in Seq(Steps)
        /\ D \in Seq(Steps) /\ E \in Seq(Steps) /\ I \in Seq(Steps)
    BY StepsAreSteps DEF SetupOps
  <1> USE DEF Grounded, StepGrounded, Refusing, Asking, Line, Strict, Tolerant, CheckRoot, CheckLine, Step
  <1>2. Grounded(X)
    OBVIOUS
  <1>3. Grounded(A)
    OBVIOUS
  <1>4. Grounded(B) /\ Grounded(C) /\ Grounded(D)
    OBVIOUS
  <1>5. Grounded(I)
    OBVIOUS
  <1>6. Grounded(E)
    <2>1. PICK e : e = E
      OBVIOUS
    <2>2. /\ Len(e) = 8 /\ e[1].kind = "tolerant" /\ e[1].op = "bind-lower"
          /\ e[2].kind = "checkRoot" /\ e[2].op = "check"
          /\ e[3].kind = "tolerant" /\ e[3].op = "mount-overlay"
          /\ e[4].kind = "checkRoot" /\ e[4].op = "check"
          /\ e[5].kind = "line" /\ e[5].op = "test-etc" /\ e[6].kind = "checkLine" /\ e[6].op = "check"
          /\ e[7].kind = "line" /\ e[7].op = "test-passwd" /\ e[8].kind = "checkLine" /\ e[8].op = "check"
      BY <2>1
    <2> HIDE DEF E
    <2>3. Behind(e, 5, "mount-overlay", Unmounting)
      <3>1. 3 \in 1..5 - 1 /\ \A n \in 3 + 1..5 - 1 : n = 4
        OBVIOUS
      <3> QED
        BY <2>2, <3>1 DEF Behind, Unmounting
    <2>4. Behind(e, 7, "mount-overlay", Unmounting)
      <3>1. 3 \in 1..7 - 1 /\ \A n \in 3 + 1..7 - 1 : n = 4 \/ n = 5 \/ n = 6
        OBVIOUS
      <3> QED
        BY <2>2, <3>1 DEF Behind, Unmounting
    <2>5. ASSUME NEW i \in 1..8 PROVE StepGrounded(e, i)
      <3>1. i = 1 \/ i = 2 \/ i = 3 \/ i = 4 \/ i = 5 \/ i = 6 \/ i = 7 \/ i = 8
        OBVIOUS
      <3> QED
        BY <2>2, <2>3, <2>4, <3>1
    <2> QED
      BY <2>1, <2>2, <2>5
  <1> HIDE DEF X, A, B, C, D, E, I, Grounded, StepGrounded, Refusing, Asking, Line, Strict, Tolerant,
               CheckRoot, CheckLine, Step
  <1>7. p.root \in BOOLEAN /\ p.lower \in BOOLEAN
    BY DEF Probes
  <1>8. PICK b \in Seq(Steps) : b = Optional(p.root, B) /\ Grounded(b)
    BY <1>1, <1>4, <1>7, OptionallyGrounded
  <1>9. PICK d \in Seq(Steps) : d = Optional(p.lower, D) /\ Grounded(d)
    BY <1>1, <1>4, <1>7, OptionallyGrounded
  <1>10. PICK ab \in Seq(Steps) : ab = A \o b /\ Grounded(ab)
    BY <1>1, <1>3, <1>8, GroundedJoined
  <1>11. PICK abc \in Seq(Steps) : abc = ab \o C /\ Grounded(abc)
    BY <1>1, <1>4, <1>10, GroundedJoined
  <1>12. PICK abcd \in Seq(Steps) : abcd = abc \o d /\ Grounded(abcd)
    BY <1>9, <1>11, GroundedJoined
  <1>13. PICK o \in Seq(Steps) : o = abcd \o E /\ Grounded(o)
    BY <1>1, <1>6, <1>12, GroundedJoined
  <1>14. o = OverlaySetup(p)
    BY ONLY <1>8, <1>9, <1>10, <1>11, <1>12, <1>13 DEF OverlaySetup, A, B, C, D, E
  <1>15. PICK xo \in Seq(Steps) : xo = X \o o /\ Grounded(xo)
    BY <1>1, <1>2, <1>13, GroundedJoined
  <1>16. PICK xoi \in Seq(Steps) : xoi = xo \o I /\ Grounded(xoi)
    BY <1>1, <1>5, <1>15, GroundedJoined
  <1>17. xoi = PlanSetupEnv(c, p)
    <2>1. \A s \in Seq(Steps) : s \o <<>> = s
      BY ConcatEmptySeq
    <2>2. PlanSetupEnv(c, p) = ((xo \o <<>>) \o I) \o <<>>
      BY <1>14, <1>15 DEF PlanSetupEnv, Optional, Sound, X, I
    <2> QED
      BY <1>16, <2>1, <2>2
  <1> QED
    BY <1>16, <1>17

(* Neither do the plans of the stages in between. *)
LEMMA OthersAreGrounded ==
    ASSUME NEW c \in Choices, Sound(c)
    PROVE  \A p \in {PlanCopyNewIso(c), PlanSavePackageList, PlanEditBootMenu, <<>>} : Grounded(p)
  <1>1. Grounded(PlanSavePackageList) /\ Grounded(PlanEditBootMenu) /\ Grounded(<<>>)
    BY DEF PlanSavePackageList, PlanEditBootMenu, Line, Step, Grounded, StepGrounded, Refusing, Asking
  <1>2. PICK p : p = PlanCopyNewIso(c)
    OBVIOUS
  <1>3. p = <<Embed("extract-iso-template"),
              Line("copy-vmlinuz"), CheckLine,
              Sure("replace-menu"), Line("md5-vmlinuz"),
              Embed("populate-initrd"),
              Line("copy-initrd-modules"), CheckLine,
              Strict("copy-initrd-programs"), Strict("chown-initrd"),
              Line("pack-initrd"), Line("test-initrd"), CheckLine,
              Line("fsync-initrd"), Line("md5-initrd")>>
    BY <1>2 DEF PlanCopyNewIso, Sound
  <1>4. /\ Len(p) = 15
        /\ p[2].kind = "line" /\ p[3].kind = "checkLine" /\ p[7].kind = "line" /\ p[8].kind = "checkLine"
        /\ p[12].kind = "line" /\ p[13].kind = "checkLine"
        /\ p[11].op = "pack-initrd"
    BY <1>3 DEF Embed, Line, CheckLine, Sure, Strict, Step
  <1>5. \A i \in 1..15 :
           /\ p[i].kind \notin {"abort", "checkRoot"} /\ p[i].op \notin Refusing \cup Asking
           /\ p[i].kind = "checkLine" => i \in {3, 8, 13}
           /\ p[i].op \notin {"test-etc", "test-passwd", "test-linuxfs"}
           /\ p[i].op = "test-initrd" => i = 12
    BY <1>3 DEF Embed, Line, CheckLine, Sure, Strict, Step, Refusing, Asking
  <1>6. Behind(p, 12, "pack-initrd", {})
    <2>1. 11 \in 1..12 - 1
      OBVIOUS
    <2> QED
      BY <1>4, <2>1 DEF Behind
  <1>7. ASSUME NEW i \in 1..15 PROVE StepGrounded(p, i)
    <2>1. p[i].kind = "checkLine" => i > 1 /\ p[i - 1].kind = "line"
      <3> HAVE p[i].kind = "checkLine"
      <3>1. i = 3 \/ i = 8 \/ i = 13
        BY <1>5
      <3> QED
        BY <1>4, <3>1
    <2> QED
      BY <1>5, <1>6, <2>1 DEF StepGrounded
  <1> QED
    BY <1>1, <1>2, <1>4, <1>7 DEF Grounded

(* Nor does planCreateIso. *)
LEMMA IsoIsGrounded ==
    ASSUME NEW c \in Choices PROVE Grounded(PlanCreateIso(c))
  <1> DEFINE A == IsoSteps
             B == <<Line("isohybrid"), CheckLine>>
             C == <<Line("md5-iso")>>
  <1>1. A \in Seq(Steps) /\ B \in Seq(Steps) /\ C \in Seq(Steps)
    BY StepsAreSteps DEF ImageOps, IsoSteps
  <1>2. Grounded(B) /\ Grounded(C)
    BY DEF Line, CheckLine, Step, Grounded, StepGrounded, Refusing, Asking
  <1>3. Grounded(A)
    <2>1. PICK p : p = A
      OBVIOUS
    <2>2. /\ Len(p) = 13 /\ p[1].op = "mksquashfs"
          /\ p[2].kind = "line" /\ p[3].kind = "checkLine" /\ p[4].kind = "line" /\ p[5].kind = "checkLine"
          /\ p[9].kind = "line" /\ p[10].kind = "checkLine"
          /\ p[11].kind = "line" /\ p[12].kind = "checkLine"
      BY <2>1 DEF IsoSteps, Line, CheckLine, Strict, Step
    <2>3. \A i \in 1..13 :
             /\ p[i].kind \notin {"abort", "checkRoot"} /\ p[i].op \notin Refusing \cup Asking
             /\ p[i].kind = "checkLine" => i \in {3, 5, 10, 12}
             /\ p[i].op \notin {"test-etc", "test-passwd", "test-initrd"}
             /\ p[i].op = "test-linuxfs" => i = 2
      BY <2>1 DEF IsoSteps, Line, CheckLine, Strict, Step, Refusing, Asking
    <2>4. Behind(p, 2, "mksquashfs", {"move-linuxfs"})
      <3>1. 1 \in 1..2 - 1 /\ 1 + 1..2 - 1 = {}
        OBVIOUS
      <3> QED
        BY <2>2, <3>1 DEF Behind
    <2>5. ASSUME NEW i \in 1..13 PROVE StepGrounded(p, i)
      <3>1. p[i].kind = "checkLine" => i > 1 /\ p[i - 1].kind = "line"
        <4> HAVE p[i].kind = "checkLine"
        <4>1. i = 3 \/ i = 5 \/ i = 10 \/ i = 12
          BY <2>3
        <4> QED
          BY <2>2, <4>1
      <3> QED
        BY <2>3, <2>4, <3>1 DEF StepGrounded
    <2> QED
      BY <2>1, <2>2, <2>5 DEF Grounded
  <1>4. c.hybrid \in BOOLEAN /\ c.sums \in BOOLEAN
    BY DEF Choices
  <1> HIDE DEF A, B, C
  <1>5. PICK b \in Seq(Steps) : b = Optional(c.hybrid, B) /\ Grounded(b)
    BY <1>1, <1>2, <1>4, OptionallyGrounded
  <1>6. PICK d \in Seq(Steps) : d = Optional(c.sums, C) /\ Grounded(d)
    BY <1>1, <1>2, <1>4, OptionallyGrounded
  <1>7. PICK ab \in Seq(Steps) : ab = A \o b /\ Grounded(ab)
    BY <1>1, <1>3, <1>5, GroundedJoined
  <1>8. PICK s \in Seq(Steps) : s = ab \o d /\ Grounded(s)
    BY <1>6, <1>7, GroundedJoined
  <1>9. s = PlanCreateIso(c)
    BY ONLY <1>5, <1>6, <1>7, <1>8 DEF PlanCreateIso, IsoSteps, A, B, C
  <1> QED
    BY <1>8, <1>9

(* Only a run whose settings were rejected plans to abort. *)
Hopeful(t) == \A i \in 1..Len(t) : t[i] # "abort"

(* The stages planned for accepted settings hold no abort. *)
LEMMA StagesAreHopeful ==
    ASSUME NEW c \in Choices PROVE Hopeful(Stages(c))
  <1> DEFINE A == <<"setupEnv">>
             B == Optional(c.space, <<"checkEnoughSpace">>)
             C == <<"copyNewIso", "savePackageList">>
             D == Optional(c.edit, <<"editBootMenu">>)
             E == <<"createIso">>
  <1>1. ASSUME NEW s \in Seq(StageNames), NEW t \in Seq(StageNames), Hopeful(s), Hopeful(t)
        PROVE  s \o t \in Seq(StageNames) /\ Hopeful(s \o t)
    <2>1. /\ s \o t \in Seq(StageNames) /\ Len(s \o t) = Len(s) + Len(t)
          /\ \A i \in 1..Len(s) + Len(t) : (s \o t)[i] = IF i <= Len(s) THEN s[i] ELSE t[i - Len(s)]
          /\ Len(s) \in Nat /\ Len(t) \in Nat
      BY ConcatProperties
    <2>2. ASSUME NEW i \in 1..Len(s) + Len(t) PROVE (s \o t)[i] # "abort"
      <3>1. CASE i <= Len(s)
        <4>1. i \in 1..Len(s)
          BY <2>1, <3>1
        <4> QED
          BY <1>1, <2>1, <3>1, <4>1 DEF Hopeful
      <3>2. CASE ~(i <= Len(s))
        <4>1. i - Len(s) \in 1..Len(t)
          BY <2>1, <3>2
        <4> QED
          BY <1>1, <2>1, <3>2, <4>1 DEF Hopeful
      <3> QED
        BY <3>1, <3>2
    <2> QED
      BY <2>1, <2>2 DEF Hopeful
  <1>2. /\ <<"setupEnv">> \in Seq(StageNames) /\ <<>> \in Seq(StageNames)
        /\ <<"checkEnoughSpace">> \in Seq(StageNames) /\ <<"editBootMenu">> \in Seq(StageNames)
        /\ <<"copyNewIso", "savePackageList">> \in Seq(StageNames)
        /\ <<"createIso">> \in Seq(StageNames)
    BY DEF StageNames, WorkStages
  <1>3. A \in Seq(StageNames) /\ B \in Seq(StageNames) /\ C \in Seq(StageNames)
        /\ D \in Seq(StageNames) /\ E \in Seq(StageNames)
    BY <1>2 DEF Optional
  <1>4. Hopeful(A) /\ Hopeful(B) /\ Hopeful(C) /\ Hopeful(D) /\ Hopeful(E)
    BY DEF Optional, Hopeful
  <1>5. Stages(c) = (((A \o B) \o C) \o D) \o E
    BY DEF Stages
  <1> HIDE DEF A, B, C, D, E
  <1>6. PICK ab \in Seq(StageNames) : ab = A \o B /\ Hopeful(ab)
    BY <1>1, <1>3, <1>4
  <1>7. PICK abc \in Seq(StageNames) : abc = ab \o C /\ Hopeful(abc)
    BY <1>1, <1>3, <1>4, <1>6
  <1>8. PICK abcd \in Seq(StageNames) : abcd = abc \o D /\ Hopeful(abcd)
    BY <1>1, <1>3, <1>4, <1>7
  <1>9. PICK s \in Seq(StageNames) : s = abcd \o E /\ Hopeful(s)
    BY <1>1, <1>3, <1>4, <1>8
  <1> QED
    BY <1>5, <1>6, <1>7, <1>8, <1>9

(* A world in which nothing can go wrong. *)
Untroubled == Calm /\ \A c \in world.choices : Sound(c)

(* What the commands behind the index have left for those ahead. *)
GroundedGoes ==
    /\ Grounded(plan)
    /\ at > 1 /\ plan[at - 1].kind = "line" => lineOk
    /\ at > 1 /\ plan[at - 1].kind = "tolerant" /\ plan[at - 1].op \notin Asking => rootOk
    /\ Behind(plan, at, "mount-overlay", Unmounting) => host.root > 0
    /\ Behind(plan, at, "pack-initrd", {}) => job.initrd # "none"
    /\ Behind(plan, at, "mksquashfs", {"move-linuxfs"}) => job.linuxfs # "none"

(* A run that is going well. *)
UntroubledOK ==
    /\ ~stop /\ ~aborted /\ status \notin {"chown", "overlay", "exited"}
    /\ verdict \in {"none", "success"}
    /\ phase \notin {"reprobe", "replan", "kill", "interrupt"}
    /\ phase \in {"probe", "head", "plan"} => job.work["W1"] = "workspace"
    /\ phase \in {"head", "plan"} => Hopeful(todo)
    /\ phase = "plan" => GroundedGoes

(* One more command behind the index. *)
LEMMA BehindAdvances ==
    ASSUME NEW p, NEW i \in Nat, i >= 1, NEW op, NEW undo, Behind(p, i + 1, op, undo)
    PROVE  p[i].op = op \/ (Behind(p, i, op, undo) /\ p[i].op \notin undo)
  <1>1. PICK k \in 1..(i + 1) - 1 : p[k].op = op /\ \A n \in k + 1..(i + 1) - 1 : p[n].op \notin undo
    BY DEF Behind
  <1>2. CASE k = i
    BY <1>1, <1>2
  <1>3. CASE k # i
    <2>1. k \in 1..i - 1 /\ i \in k + 1..(i + 1) - 1
          /\ \A n \in k + 1..i - 1 : n \in k + 1..(i + 1) - 1
      BY <1>3
    <2> QED
      BY <1>1, <2>1 DEF Behind
  <1> QED
    BY <1>2, <1>3

(* With nothing failing, a command of a grounded plan comes through, and the loop goes on. *)
LEMMA GroundedAdvances ==
    ASSUME RunTypeOK, status = "busy", at <= Len(plan), GroundedGoes, ~stop, ~aborted,
           ~world.faults, world.refusals = {}, job.work["W1"] = "workspace",
           NEW r \in Results(Current.op) \cup Deniable, Finish(r.out), host' = r.host, job' = r.job
    PROVE  /\ status' = "running" /\ ~aborted' /\ ~stop'
           /\ GroundedGoes' /\ job'.work["W1"] = "workspace"
  <1> DEFINE op == plan[at].op
             kind == plan[at].kind
  <1>1. MachineTypeOK /\ at \in Nat /\ at >= 1 /\ at \in 1..Len(plan) /\ lineOk \in BOOLEAN
        /\ rootOk \in BOOLEAN
    BY DEF RunTypeOK, ExecutorTypeOK
  <1>2. StepGrounded(plan, at)
    BY <1>1 DEF GroundedGoes, Grounded
  <1>3. r \in Results(op) /\ op \notin Refusing
    BY <1>2 DEF Deniable, StepGrounded, Current
  <1>4. Served(op)
    BY <1>2 DEF Served, StepGrounded, GroundedGoes
  <1>5. /\ r.out \in {"ok", "fail"}
        /\ op \notin Asking => r.out = "ok"
    BY <1>1, <1>3, <1>4, CalmOutcomes
  <1>6. /\ kind # "abort"
        /\ kind \in {"line", "strict", "embed"} => r.out = "ok"
        /\ kind = "checkLine" => lineOk
        /\ kind = "checkRoot" => rootOk
    BY <1>2, <1>5 DEF StepGrounded, GroundedGoes
  <1>7. status' = "running" /\ ~aborted' /\ ~stop' /\ plan' = plan
    <2> USE DEF Advance, GiveUp, Die, Current
    <2>1. plan' = plan /\ stop' = stop
      BY DEF Finish
    <2>2. CASE FinishQuiet \/ FinishSure \/ FinishAbort
      BY <1>6, <2>1, <2>2 DEF FinishQuiet, FinishSure, FinishAbort
    <2>3. CASE FinishCheckRoot \/ FinishCheckLine
      BY <1>6, <2>1, <2>3 DEF FinishCheckRoot, FinishCheckLine
    <2>4. CASE FinishLine(r.out) \/ FinishEmbed(r.out)
      BY <1>6, <2>1, <2>4 DEF FinishLine, FinishEmbed
    <2>5. CASE FinishRoot(r.out)
      BY <1>5, <1>6, <2>1, <2>5 DEF FinishRoot, RootKinds
    <2> QED
      BY <2>2, <2>3, <2>4, <2>5 DEF Finish
  <1>8. /\ at' = at + 1
        /\ kind = "line" => lineOk' = (r.out = "ok")
        /\ kind = "tolerant" => rootOk' = (r.out = "ok")
    BY <1>7, FinishAdvances DEF Current
  <1>9. /\ op = "mount-overlay" => host'.root > 0
        /\ op \notin Unmounting /\ host.root > 0 => host'.root > 0
        /\ op = "pack-initrd" => job'.initrd # "none"
        /\ job.initrd # "none" => job'.initrd # "none"
        /\ op = "mksquashfs" => job'.linuxfs # "none"
        /\ op # "move-linuxfs" /\ job.linuxfs # "none" => job'.linuxfs # "none"
        /\ job'.work["W1"] = "workspace"
    BY <1>1, <1>3, CalmServes
  <1>10. at' - 1 = at
    BY <1>1, <1>8
  <1>11. /\ kind = "line" => lineOk'
         /\ kind = "tolerant" /\ op \notin Asking => rootOk'
    BY <1>5, <1>6, <1>8
  <1>12. Behind(plan, at + 1, "mount-overlay", Unmounting) => host'.root > 0
    BY <1>1, <1>9, BehindAdvances DEF GroundedGoes
  <1>13. Behind(plan, at + 1, "pack-initrd", {}) => job'.initrd # "none"
    BY <1>1, <1>9, BehindAdvances DEF GroundedGoes
  <1>14. Behind(plan, at + 1, "mksquashfs", {"move-linuxfs"}) => job'.linuxfs # "none"
    BY <1>1, <1>9, BehindAdvances DEF GroundedGoes
  <1>15. Grounded(plan)'
    BY <1>7 DEF GroundedGoes
  <1> QED
    BY <1>7, <1>8, <1>9, <1>10, <1>11, <1>12, <1>13, <1>14, <1>15 DEF GroundedGoes, Behind

(* Every step of a run in which nothing can go wrong keeps it going well. *)
LEMMA UntroubledKept ==
    ASSUME RunInv, Untroubled, UntroubledOK, RunStep
    PROVE  UntroubledOK'
  <1> USE DEF Step1, End, machineVars
  <1>1. /\ RunTypeOK /\ choices \in Choices /\ Sound(choices) /\ world' = world
        /\ todo \in Seq(StageNames)
    BY WorldIsKnown DEF RunInv, RunTypeOK, Untroubled, StageNames, RunStep
  <1>2. /\ ~world.faults /\ ~world.stops /\ ~world.crashes
        /\ world.refusals = {} /\ world.space = {"enough"}
        /\ \A c \in world.choices : Sound(c)
    BY DEF Untroubled, Calm
  <1>3. CASE UNCHANGED <<runVars, world>>
    <2>1. GroundedGoes' <=> GroundedGoes
      BY <1>3 DEF GroundedGoes, Grounded, StepGrounded, Behind, runVars, executorVars, callVars
    <2> QED
      BY <1>3, <2>1 DEF UntroubledOK, Hopeful, runVars, runnerVars, executorVars, callVars
  <1>4. CASE Launch \/ Kill \/ SignalKills \/ Denied
    <2>1. Launch
      BY <1>2, <1>4 DEF Kill, SignalKills, Denied, AtSpaceCheck
    <2> QED
      BY <2>1 DEF Launch, Restart, UntroubledOK
  <1>5. CASE AskedToStop \/ AllRunsDone
    BY <1>2, <1>3, <1>5 DEF AskedToStop, AllRunsDone, RunStep, RunNext
  <1>6. ASSUME NEW c \in world.choices, Begin(c) PROVE UntroubledOK'
    BY <1>6 DEF Begin, UntroubledOK, executorVars, callVars
  <1>7. ASSUME Progress PROVE UntroubledOK'
    <2>1. CASE CompressionUnsupported \/ PrepareFails \/ StopSeenAtStage \/ SpaceRunsOut \/ MoveWorkDir
               \/ SetupEnvAgain \/ FailedCheckCommandEnds \/ InterruptCleanup \/ InterruptCleanupReturns
      BY <1>2, <2>1 DEF CompressionUnsupported, PrepareFails, StopSeenAtStage, SpaceRunsOut, MoveWorkDir,
         SetupEnvAgain, FailedCheckCommandEnds, FailedCheckChown, FailedCheckOverlay, InterruptCleanup,
         InterruptCleanupReturns, UntroubledOK
    <2>2. ASSUME NEW snapshotOk \in BOOLEAN, NEW tempOk \in BOOLEAN, CheckDirectories(snapshotOk, tempOk)
          PROVE  UntroubledOK'
      BY <1>2, <2>2 DEF CheckDirectories, UntroubledOK, executorVars, callVars
    <2>3. CASE CreateEmbedded
      BY <2>3 DEF CreateEmbedded, UntroubledOK, executorVars, callVars
    <2>4. CASE InstallSignalCleanup \/ ClearSignalCleanup
      <3>1. UNCHANGED <<plan, at, status, lineOk, rootOk, aborted>> /\ ~stop'
        BY <2>4 DEF InstallSignalCleanup, ClearSignalCleanup, FlagCleared, ResetStop, executorVars, callVars
      <3>2. phase' \in {"extract", "leave"} /\ verdict' = verdict
        BY <2>4 DEF InstallSignalCleanup, ClearSignalCleanup
      <3> QED
        BY <3>1, <3>2 DEF UntroubledOK
    <2>5. CASE ExtractAssets
      <3>1. job' = [job EXCEPT !.work["W1"] = "workspace"]
        BY <2>5 DEF ExtractAssets
      <3>2. job'.work["W1"] = "workspace"
        BY <1>1, <3>1, WorkIsFine DEF RunTypeOK
      <3> QED
        BY <2>5, <3>2 DEF ExtractAssets, UntroubledOK, executorVars, callVars
    <2>6. CASE ProbeAndPlan
      <3>1. Hopeful(todo')
        BY <1>1, <2>6, StagesAreHopeful DEF ProbeAndPlan
      <3> QED
        BY <2>6, <3>1 DEF ProbeAndPlan, UntroubledOK, Hopeful, executorVars, callVars
    <2>7. CASE StageLoopEnds
      BY <2>7 DEF StageLoopEnds, UntroubledOK, Closing, executorVars, callVars
    <2>8. CASE PlannedAbort
      <3>1. phase = "head" /\ todo # <<>> /\ todo[1] = "abort"
        BY <1>1, <2>8 DEF PlannedAbort, Stage
      <3>2. 1 \in 1..Len(todo)
        BY <1>1, <3>1, EmptySeq
      <3> QED
        BY <3>1, <3>2 DEF UntroubledOK, Hopeful
    <2>9. ASSUME todo # <<>>, Hopeful(todo), NextStage PROVE Hopeful(todo')
      <3>1. Len(todo) \in Nat /\ Len(todo) # 0
        BY <1>1, <2>9, EmptySeq
      <3>2. Len(todo') = Len(todo) - 1 /\ \A k \in 1..Len(todo) - 1 : todo'[k] = todo[k + 1]
        BY <1>1, <2>9, <3>1, HeadTailProperties DEF NextStage
      <3>3. \A k \in 1..Len(todo) - 1 : k + 1 \in 1..Len(todo)
        BY <3>1
      <3> QED
        BY <2>9, <3>2, <3>3 DEF Hopeful
    <2>10. CASE RunStage
      <3>1. Hopeful(todo')
        BY <2>9, <2>10 DEF RunStage, UntroubledOK
      <3>2. /\ plan' = WorkPlan(Stage, choices, probes) /\ at' = 1 /\ Stage \in WorkStages
            /\ probes \in Probes /\ phase = "head" /\ phase' = "plan"
        BY <1>1, <2>10 DEF RunStage, Call, RunTypeOK
      <3>3. Grounded(plan')
        <4>1. plan' \in {PlanSetupEnv(choices, probes), PlanCreateIso(choices), PlanCopyNewIso(choices),
                         PlanSavePackageList, PlanEditBootMenu, <<>>}
          BY <3>2 DEF WorkPlan, WorkStages
        <4> QED
          BY <1>1, <3>2, <4>1, SetupIsGrounded, OthersAreGrounded, IsoIsGrounded
      <3>4. GroundedGoes'
        <4>1. at' > 1 <=> FALSE
          BY <3>2
        <4>2. 1..at' - 1 = {}
          BY <3>2
        <4> QED
          BY <3>3, <4>1, <4>2 DEF GroundedGoes, Behind
      <3> QED
        BY <2>10, <3>1, <3>2, <3>4 DEF RunStage, Call, UntroubledOK
    <2>11. CASE SpaceSuffices
      <3>1. Hopeful(todo')
        BY <2>9, <2>11 DEF SpaceSuffices, AtSpaceCheck, UntroubledOK
      <3> QED
        BY <2>11, <3>1 DEF SpaceSuffices, AtSpaceCheck, UntroubledOK, Hopeful, executorVars, callVars
    <2>12. CASE CallGoesOn
      <3>1. /\ UNCHANGED <<plan, at, lineOk, rootOk, aborted, stop, host, job, phase, todo, verdict>>
            /\ status' \in {"returned", "busy"}
        BY <2>12 DEF CallGoesOn, HeadEnd, HeadStart, HeadStop, UntroubledOK, runnerVars
      <3>2. GroundedGoes' <=> GroundedGoes
        BY <3>1 DEF GroundedGoes, Grounded, StepGrounded, Behind
      <3> QED
        BY <3>1, <3>2 DEF UntroubledOK, Hopeful
    <2>13. CASE CommandEnds
      <3>1. PICK r \in Results(Current.op) \cup Deniable :
               Finish(r.out) /\ host' = r.host /\ job' = r.job
        BY <2>13 DEF CommandEnds
      <3>2. /\ status = "busy" /\ phase = "plan" /\ todo' = todo /\ at <= Len(plan)
            /\ status' # "exited" => phase' = phase /\ verdict' = verdict
        BY <2>13 DEF CommandEnds, InCall, UntroubledOK, RunInv, ExecutorInv, InStep
      <3>3. /\ GroundedGoes /\ ~stop /\ ~aborted /\ job.work["W1"] = "workspace" /\ Hopeful(todo)
            /\ verdict \in {"none", "success"}
        BY <3>2 DEF UntroubledOK
      <3>4. /\ status' = "running" /\ ~aborted' /\ ~stop'
            /\ GroundedGoes' /\ job'.work["W1"] = "workspace"
        BY <1>1, <1>2, <3>1, <3>2, <3>3, GroundedAdvances
      <3> QED
        BY <3>2, <3>3, <3>4 DEF UntroubledOK, Hopeful
    <2>14. CASE CallReturns
      BY <2>14 DEF CallReturns, UntroubledOK, Hopeful, executorVars, callVars
    <2>15. CASE Leave
      BY <2>15 DEF Leave, UntroubledOK, executorVars, callVars
    <2> QED
      BY <1>7, <2>1, <2>2, <2>3, <2>4, <2>5, <2>6, <2>7, <2>8, <2>10, <2>11, <2>12, <2>13, <2>14, <2>15
         DEF Progress
  <1> QED
    BY <1>3, <1>4, <1>5, <1>6, <1>7 DEF RunStep, RunNext

(***************************************************************************)
(* In every world without faults, stops, refusals or a lack of space, and  *)
(* for every settings but those that name a command that always fails      *)
(* (reset accounts, the installer) or no kernel, no run fails: not on the  *)
(* mounts of the run before, and however many came before it.              *)
(***************************************************************************)
THEOREM RunSucceedsUntroubled ==
    RunSpec => []((\A c \in world.choices : Sound(c)) => FaultFreeRunsSucceed)
  <1> DEFINE Inv == Untroubled => UntroubledOK
  <1>1. RunInit => Inv
    BY DEF RunInit, ExecutorInit, UntroubledOK
  <1>2. RunInv /\ Inv /\ RunStep => Inv'
    <2> SUFFICES ASSUME RunInv, Inv, RunStep, Untroubled' PROVE UntroubledOK'
      OBVIOUS
    <2>1. Untroubled
      BY DEF RunStep, Untroubled, Calm, Sound
    <2> QED
      BY <2>1, UntroubledKept
  <1>3. Inv => ((\A c \in world.choices : Sound(c)) => FaultFreeRunsSucceed)
    BY DEF Untroubled, UntroubledOK, FaultFreeRunsSucceed
  <1> QED
    BY RunIsKept, <1>1, <1>2, <1>3, PTL DEF RunSpec, RunStep

============================================================================
