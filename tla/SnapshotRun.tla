---------------------------- MODULE SnapshotRun ----------------------------
(***************************************************************************)
(* BatchprocessingCppRunner::runFromSettings, from the settings checks to  *)
(* the destruction of its TempDir: it prepares the workspace, probes the   *)
(* mounts, plans, and hands one work plan after another to the executor,   *)
(* while a signal or the Cancel button may raise the stop flag.  The       *)
(* machine it works on outlives the process.                               *)
(***************************************************************************)
EXTENDS WorkExecutor, WorkPlans, Machine

CONSTANT ChoiceSet    \* the settings a run is started with

(***************************************************************************)
(* Of the world, a run also depends on                                     *)
(*   cli       one run per process, stopped by signals; else the GUI's     *)
(*             worker, stopped by the Cancel button                        *)
(*   stops     somebody may ask for a stop                                 *)
(*   crashes   the process may be killed outright                          *)
(*   space     what checkEnoughSpace may find: "enough", "short", "move"   *)
(*   choices   the settings it may be started with                         *)
(*   runs      bound: runs started                                         *)
(***************************************************************************)
ASSUME ChoiceAssumption == ChoiceSet \subseteq Choices
ASSUME RunnerAssumption ==
    /\ RunnerPlans(ChoiceSet) \subseteq Plans
    /\ \A w \in Worlds :
          /\ w.runs \in Nat /\ w.cli \in BOOLEAN /\ w.stops \in BOOLEAN /\ w.crashes \in BOOLEAN
          /\ w.space \subseteq {"enough", "short", "move"} /\ w.choices \subseteq ChoiceSet
          /\ w.exits => w.cli /\ ExitsOnDenied

VARIABLES
    phase,     \* where runFromSettings is; "ready" between runs, "gone" without a process
    todo,      \* stages of the orchestration plan not yet begun
    choices,   \* settings of this run
    probes,    \* SetupEnvEnv: mount points seen before planning
    verdict,   \* Result of the run
    handler,   \* installSignalCleanup is in force
    clears,    \* the run will end through clearSignalCleanup
    workDir,   \* directory of the TempDir, settings.workDir
    runs       \* runs started

runnerVars == <<phase, todo, choices, probes, verdict, handler, clears, workDir, runs>>
runVars == <<executorVars, machineVars, runnerVars>>

NoProbes == [root |-> FALSE, lower |-> FALSE, conf |-> FALSE, base |-> FALSE]

RunInit ==
    /\ ExecutorInit
    /\ host = NewHost /\ job = NewJob /\ world \in Worlds
    /\ phase = "gone" /\ todo = <<>> /\ choices \in world.choices /\ probes = NoProbes
    /\ verdict = "none" /\ handler = FALSE /\ clears = FALSE /\ workDir = "none" /\ runs = 0

(* The flag is cleared between two calls of the executor. *)
FlagCleared == ResetStop \/ (~stop /\ UNCHANGED executorVars)

Step1(from, to) == phase = from /\ phase' = to

End(to, result) == phase' = to /\ verdict' = result

(* Where an aborted run goes on: past clearSignalCleanup, or straight out. *)
Closing == IF clears THEN "clear" ELSE "leave"

DropEmbedded(w) == IF w \in {"husk", "workspace"} THEN "bare" ELSE w

(***************************************************************************)
(* handleSignalStopIfRequested: removes _embedded below the directory that *)
(* installSignalCleanup was told of, which a move does not change.         *)
(***************************************************************************)
HandleSignalStop ==
    /\ job' = IF stop /\ handler THEN [job EXCEPT !.work["W1"] = DropEmbedded(@)] ELSE job
    /\ UNCHANGED host
----------------------------------------------------------------------------
(* A process. *)

Launch ==
    /\ Step1("gone", "ready") /\ runs < world.runs
    /\ handler' = FALSE /\ Restart
    /\ UNCHANGED <<machineVars, todo, choices, probes, verdict, clears, workDir, runs>>

(* The process is no more; nothing of it is destroyed or cleaned up. *)
Vanish(why) ==
    /\ End("gone", why) /\ Restart
    /\ UNCHANGED <<machineVars, todo, choices, probes, handler, clears, workDir, runs>>

Busy == phase \notin {"ready", "gone"}

Kill == world.crashes /\ Busy /\ Vanish("killed")

(* SIGINT and SIGTERM have their default disposition without the handler. *)
SignalKills == world.cli /\ world.stops /\ Busy /\ ~handler /\ Vanish("killed")

(* Mutant: a second request takes the first one back. *)
AskedToStopToggles ==
    /\ world.stops /\ Busy /\ (world.cli => handler)
    /\ stop' = ~stop
    /\ UNCHANGED <<callVars, machineVars, runnerVars>>

(* A signal with the handler in force, or the Cancel button. *)
AskedToStop ==
    /\ world.stops /\ Busy /\ (world.cli => handler)
    /\ RequestStop
    /\ UNCHANGED <<machineVars, runnerVars>>

Stage == Head(todo)
AtSpaceCheck == phase = "head" /\ todo # <<>> /\ ~stop /\ Stage = "checkEnoughSpace"

(***************************************************************************)
(* A root command outside a plan is denied, the du of the space check      *)
(* among them: std::exit.  A denial is a fault.                            *)
(***************************************************************************)
Denied ==
    /\ world.faults /\ world.exits
    /\ phase \in {"probe", "reprobe", "kill"} \/ AtSpaceCheck
    /\ Vanish("exited")
----------------------------------------------------------------------------
(* Before the plan. *)

Begin(c) ==
    /\ Step1("ready", "checks") /\ runs < world.runs
    /\ choices' = c /\ runs' = runs + 1
    /\ verdict' = "none" /\ workDir' = "none" /\ clears' = FALSE
    /\ todo' = <<>> /\ probes' = NoProbes
    /\ job' = NewJob
    /\ host' = [host EXCEPT !.final = IF @ = "good" THEN "old" ELSE @]
    /\ UNCHANGED <<executorVars, handler>>

CompressionUnsupported ==
    /\ world.faults /\ Step1("checks", "head") /\ todo' = RejectedStages
    /\ UNCHANGED <<executorVars, machineVars, choices, probes, verdict, handler, clears, workDir, runs>>

(***************************************************************************)
(* checkSnapshotDir and checkTempDir are both run; the second makes the    *)
(* work directory.                                                         *)
(***************************************************************************)
CheckDirectories(snapshotOk, tempOk) ==
    /\ world.faults \/ (snapshotOk /\ tempOk)
    /\ Step1("checks", IF snapshotOk /\ tempOk THEN "embed" ELSE "head")
    /\ todo' = IF snapshotOk /\ tempOk THEN <<>> ELSE MisplacedStages
    /\ job' = IF tempOk THEN [job EXCEPT !.work["W1"] = "bare"] ELSE job
    /\ workDir' = IF tempOk THEN "W1" ELSE "none"
    /\ UNCHANGED <<executorVars, host, choices, probes, verdict, handler, clears, runs>>

(* prepareWorkspace up to installSignalCleanup. *)
CreateEmbedded ==
    /\ Step1("embed", "install")
    /\ job' = [job EXCEPT !.work["W1"] = "husk"]
    /\ UNCHANGED <<executorVars, host, todo, choices, probes, verdict, handler, clears, workDir, runs>>

InstallSignalCleanup ==
    /\ Step1("install", "extract")
    /\ handler' = TRUE /\ FlagCleared
    /\ UNCHANGED <<machineVars, todo, choices, probes, verdict, clears, workDir, runs>>

(* The rest of prepareWorkspace, and ensureHelperAvailable. *)
ExtractAssets ==
    /\ Step1("extract", "probe")
    /\ job' = [job EXCEPT !.work["W1"] = "workspace"]
    /\ UNCHANGED <<executorVars, host, todo, choices, probes, verdict, handler, clears, workDir, runs>>

PrepareFails ==
    /\ world.faults /\ phase \in {"embed", "extract"}
    /\ End("leave", "aborted")
    /\ UNCHANGED <<executorVars, machineVars, todo, choices, probes, handler, clears, workDir, runs>>

(* Mutant: the mount points are taken to be free. *)
ProbedNothing == {NoProbes}

(***************************************************************************)
(* compute_setupenv_env: what the two mountpoint commands report.  One     *)
(* that fails for another reason reads as "not a mount point".             *)
(***************************************************************************)
Probed ==
    LET seen(count) == {count > 0} \cup (IF "mountpoint" \in world.refusals THEN {FALSE} ELSE {})
    IN  { [NoProbes EXCEPT !.root = r, !.lower = l] : r \in seen(host.root), l \in seen(host.lower) }

ProbeAndPlan ==
    /\ Step1("probe", "head")
    /\ probes' \in Probed
    /\ todo' = Stages(choices) /\ clears' = TRUE
    /\ UNCHANGED <<executorVars, machineVars, choices, verdict, handler, workDir, runs>>
----------------------------------------------------------------------------
(* The loop over the stages: run_plan_with_runtime_space_check and run.    *)

NextStage == todo' = Tail(todo)

StageLoopEnds ==
    /\ phase = "head" /\ todo = <<>>
    /\ End(Closing, "success")
    /\ UNCHANGED <<executorVars, machineVars, todo, choices, probes, handler, clears, workDir, runs>>

StopSeenAtStage ==
    /\ phase = "head" /\ todo # <<>> /\ stop
    /\ phase' = "kill"
    /\ UNCHANGED <<executorVars, machineVars, todo, choices, probes, verdict, handler, clears, workDir, runs>>

PlannedAbort ==
    /\ phase = "head" /\ todo # <<>> /\ ~stop /\ Stage = "abort"
    /\ End(Closing, "aborted")
    /\ UNCHANGED <<executorVars, machineVars, todo, choices, probes, handler, clears, workDir, runs>>

RunStage ==
    /\ phase = "head" /\ todo # <<>> /\ ~stop /\ Stage \in WorkStages
    /\ Call(WorkPlan(Stage, choices, probes)) /\ NextStage
    /\ phase' = "plan"
    /\ UNCHANGED <<machineVars, choices, probes, verdict, handler, clears, workDir, runs>>

SpaceSuffices ==
    /\ AtSpaceCheck /\ "enough" \in world.space
    /\ NextStage
    /\ UNCHANGED <<executorVars, machineVars, phase, choices, probes, verdict, handler, clears, workDir, runs>>

(* Too little space, or no directory at the better place. *)
SpaceRunsOut ==
    /\ AtSpaceCheck /\ world.space \cap {"short", "move"} # {}
    /\ End(Closing, "aborted")
    /\ UNCHANGED <<executorVars, machineVars, todo, choices, probes, handler, clears, workDir, runs>>

(***************************************************************************)
(* shouldMoveWorkDir: checkTempDir makes a directory at the other place    *)
(* and moves it into the run's TempDir, which removes the first one.  The  *)
(* plans of the later stages were made before.                             *)
(***************************************************************************)
MoveWorkDir ==
    /\ AtSpaceCheck /\ "move" \in world.space
    /\ NextStage /\ phase' = "reprobe"
    /\ job' = [job EXCEPT !.work = [@ EXCEPT !["W1"] = "gone", !["W2"] = "bare"]]
    /\ workDir' = "W2"
    /\ UNCHANGED <<executorVars, host, choices, probes, verdict, handler, clears, runs>>

SetupEnvAgain ==
    /\ Step1("reprobe", "replan")
    /\ \E p \in Probed : Call(PlanSetupEnv(choices, p))
    /\ UNCHANGED <<machineVars, todo, choices, probes, verdict, handler, clears, workDir, runs>>
----------------------------------------------------------------------------
(* A call of the executor. *)

InCall == phase \in {"plan", "replan", "interrupt"}

CallGoesOn ==
    /\ InCall
    /\ \/ (HeadEnd \/ HeadStart) /\ UNCHANGED machineVars
       \/ HeadStop /\ HandleSignalStop
    /\ UNCHANGED runnerVars

(***************************************************************************)
(* Any root command may also be denied.  In a CLI that ends the process; a *)
(* denied umount that the run survives is one of the refusals.             *)
(***************************************************************************)
Deniable ==
    IF /\ world.faults /\ Current.kind \in RootKinds
       /\ world.exits \/ "umount" \in world.refusals \/ Current.op \notin {"umount-root", "umount-lower"}
    THEN Unchanged({Refused}) ELSE {}

CommandEnds ==
    /\ InCall /\ status = "busy"
    /\ \E r \in Results(Current.op) \cup Deniable :
          Finish(r.out) /\ host' = r.host /\ job' = r.job
    /\ phase' = IF status' = "exited" THEN "gone" ELSE phase
    /\ verdict' = IF status' = "exited" THEN "exited" ELSE verdict
    /\ UNCHANGED <<todo, choices, probes, handler, clears, workDir, runs>>

FailedCheckCommandEnds ==
    /\ InCall
    /\ \/ \E out \in (IF world.faults THEN {"ok", "fail", Refused} ELSE {"ok"}) :
             FailedCheckChown(out) /\ UNCHANGED machineVars
       \/ \E r \in Results("cleanup_overlay")
                   \cup (IF world.faults THEN Unchanged({Refused}) ELSE {}) :
             FailedCheckOverlay(r.out) /\ host' = r.host /\ job' = r.job
    /\ phase' = IF status' = "exited" THEN "gone" ELSE phase
    /\ verdict' = IF status' = "exited" THEN "exited" ELSE verdict
    /\ UNCHANGED <<todo, choices, probes, handler, clears, workDir, runs>>

(* The runner reads the result; only after a stage does it look at the flag. *)
CallReturns ==
    /\ phase \in {"plan", "replan"} /\ status = "returned"
    /\ \/ ~aborted /\ phase' = "head" /\ UNCHANGED verdict
       \/ aborted /\ stop /\ phase = "plan" /\ phase' = "kill" /\ UNCHANGED verdict
       \/ aborted /\ ~(stop /\ phase = "plan") /\ End(Closing, "aborted")
    /\ UNCHANGED <<executorVars, machineVars, todo, choices, probes, handler, clears, workDir, runs>>

(* run_interrupt_cleanup: kill_mksquashfs, then planCleanup under the raised flag. *)
InterruptCleanup ==
    /\ Step1("kill", "interrupt")
    /\ Call(PlanCleanup([NoProbes EXCEPT !.conf = host.conf # "none", !.base = host.base]))
    /\ UNCHANGED <<machineVars, todo, choices, probes, verdict, handler, clears, workDir, runs>>

InterruptCleanupReturns ==
    /\ phase = "interrupt" /\ status = "returned"
    /\ End(Closing, "interrupted")
    /\ HandleSignalStop
    /\ UNCHANGED <<executorVars, todo, choices, probes, handler, clears, workDir, runs>>
----------------------------------------------------------------------------
(* After the plan. *)

ClearSignalCleanup ==
    /\ Step1("clear", "leave")
    /\ IF verdict = "success" THEN HandleSignalStop ELSE UNCHANGED machineVars
    /\ handler' = FALSE /\ FlagCleared
    /\ UNCHANGED <<todo, choices, probes, verdict, clears, workDir, runs>>

(* Mutant: the directory has been released. *)
LeaveReleased ==
    /\ Step1("leave", IF world.cli THEN "gone" ELSE "ready")
    /\ UNCHANGED <<executorVars, machineVars, todo, choices, probes, verdict, handler, clears,
                   workDir, runs>>

(* The TempDir is destroyed; a CLI then exits. *)
Leave ==
    /\ Step1("leave", IF world.cli THEN "gone" ELSE "ready")
    /\ job' = IF workDir \in Dirs THEN [job EXCEPT !.work[workDir] = "gone"] ELSE job
    /\ UNCHANGED <<executorVars, host, todo, choices, probes, verdict, handler, clears, workDir, runs>>

AllRunsDone ==
    /\ phase \in {"ready", "gone"} /\ runs = world.runs
    /\ UNCHANGED runVars

Progress ==
    \/ CompressionUnsupported
    \/ \E snapshotOk, tempOk \in BOOLEAN : CheckDirectories(snapshotOk, tempOk)
    \/ CreateEmbedded \/ InstallSignalCleanup \/ ExtractAssets \/ PrepareFails \/ ProbeAndPlan
    \/ StageLoopEnds \/ StopSeenAtStage \/ PlannedAbort \/ RunStage
    \/ SpaceSuffices \/ SpaceRunsOut \/ MoveWorkDir \/ SetupEnvAgain
    \/ CallGoesOn \/ CommandEnds \/ FailedCheckCommandEnds \/ CallReturns
    \/ InterruptCleanup \/ InterruptCleanupReturns
    \/ ClearSignalCleanup \/ Leave

RunNext ==
    \/ Launch \/ \E c \in world.choices : Begin(c)
    \/ Progress
    \/ AskedToStop \/ SignalKills \/ Denied \/ Kill
    \/ AllRunsDone

RunSpec == RunInit /\ [][RunNext /\ UNCHANGED world]_<<runVars, world>>
FairRunSpec == RunSpec /\ WF_runVars(Progress)
----------------------------------------------------------------------------
RunTypeOK ==
    /\ ExecutorTypeOK /\ MachineTypeOK
    /\ phase \in {"gone", "ready", "checks", "embed", "install", "extract", "probe", "head",
                  "plan", "reprobe", "replan", "kill", "interrupt", "clear", "leave"}
    /\ todo \in Seq(WorkStages \cup {"checkEnoughSpace", "abort"})
    /\ choices \in world.choices /\ probes \in Probes
    /\ verdict \in {"none", "success", "aborted", "interrupted", "exited", "killed"}
    /\ handler \in BOOLEAN /\ clears \in BOOLEAN
    /\ workDir \in Dirs \cup {"none"} /\ runs \in 0..world.runs

(***************************************************************************)
(* mksquashfs only ever reads a mounted bind root that installed-to-live   *)
(* has prepared, however many runs were cut short before: a snapshot is    *)
(* never taken of the bare root with its accounts and keys.                *)
(***************************************************************************)
SquashesPreparedRoot ==
    InCall /\ status = "busy" /\ Current.op = "mksquashfs" => host.root > 0 /\ host.prepared

(***************************************************************************)
(* The running system keeps its files: nothing that removes the overlay    *)
(* workspace reaches the root file system through a mount left in it.      *)
(***************************************************************************)
LiveSystemIntact == host.live

(***************************************************************************)
(* A reported success leaves no installed-to-live record, and no bind root *)
(* either, so that the files that were added to the system for the         *)
(* snapshot are gone - unless a write that nobody looked at had emptied    *)
(* the record.                                                             *)
(***************************************************************************)
SuccessLeavesNoBindRoot ==
    verdict = "success" => host.conf = "none" /\ (RecordsHold => host.root = 0)

(***************************************************************************)
(* A bind root is only ever prepared with a record of it, which it keeps   *)
(* while it is mounted and which names it unless it was emptied: whatever  *)
(* a run dies of, the next cleanup knows what to unmount, and installed-   *)
(* to-live itself shows the same.                                          *)
(***************************************************************************)
Root == INSTANCE BindRoot WITH
    mounted <- host.root > 0, prepared <- host.prepared, record <- host.conf

KeepsBindRoot == Root!RootSpec

(***************************************************************************)
(* When runFromSettings returns, the work directory it made is gone, on    *)
(* every path: rejected, failed, interrupted or finished.                  *)
(***************************************************************************)
ReturnRemovesWorkDir ==
    phase \in {"ready", "gone"} /\ verdict \notin {"exited", "killed"} /\ workDir # "W2" =>
        \A d \in Dirs : job.work[d] = "gone"

(***************************************************************************)
(* A stop requested while stages remain is never lost on the way from the  *)
(* executor to the runner: the run ends, and not as a success.             *)
(***************************************************************************)
StopEndsRun ==
    (stop /\ handler /\ InCall /\ todo # <<>>)
        ~> verdict \in {"interrupted", "aborted", "exited", "killed"}

(* The image under its final name, as a user finds it. *)
Image == CASE host.final = "good"    -> "whole"
           [] host.final = "partial" -> "damaged"
           [] OTHER                  -> host.final

(* What is known of the run; a process that is gone reports nothing. *)
Report == CASE verdict \in {"exited", "killed"}                   -> "lost"
            [] verdict \in {"success", "aborted", "interrupted"}  -> verdict
            [] verdict = "none" /\ runs = 0                       -> "idle"
            [] verdict = "none" /\ runs > 0                       -> "running"

(***************************************************************************)
(* The run keeps the contract: the image under the final name only ever    *)
(* changes from an earlier whole image (or nothing) to a new whole one,    *)
(* and success is reported only behind it.                                 *)
(***************************************************************************)
Contract == INSTANCE RunContract WITH
    image <- Image, report <- Report, rewrites <- choices.hybrid

KeepsContract == Contract!ContractSpec

(***************************************************************************)
(* Seen from inside, every call is a behaviour of the executor module, so  *)
(* what is proved of the executor holds in every run.                      *)
(***************************************************************************)
CallsAreExecutorBehaviours == ExecutorSpec

Calm ==
    /\ ~world.faults /\ ~world.stops /\ ~world.crashes
    /\ world.refusals = {} /\ world.space = {"enough"}

(***************************************************************************)
(* Without a fault, a stop or a lack of space, every run succeeds, on      *)
(* whatever the run before it has left mounted.                            *)
(***************************************************************************)
FaultFreeRunsSucceed == Calm => verdict \in {"none", "success"}
============================================================================
