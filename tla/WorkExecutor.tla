---------------------------- MODULE WorkExecutor ----------------------------
(***************************************************************************)
(* WorkCppExecutor::run: the loop that interprets one work plan after      *)
(* another, with the process-wide stop flag that a signal handler or the   *)
(* Cancel button may set at any moment.  How a command comes out is the    *)
(* environment's choice; what the executor does about it is the code's.    *)
(***************************************************************************)
EXTENDS PlanSteps

CONSTANTS
    Plans,          \* the plans run() may be called with
    ExitsOnDenied   \* a CLI that is not root: exit 126 or 127 of the helper ends the process

ASSUME PlansAssumption ==
    \A p \in Plans : p \in Seq([kind : Kinds, op : STRING])
ASSUME ExitsOnDeniedAssumption == ExitsOnDenied \in BOOLEAN

VARIABLES
    plan,       \* the plan being interpreted
    at,         \* index of the step the loop has reached
    status,     \* where run() is; "exited" when the process is gone
    lineOk,     \* lastRunCommandLineSuccess
    rootOk,     \* lastProcAsRootResult: started, exited normally, with 0
    aborted,    \* Result::aborted
    stop,       \* g_signal_stop_requested
    missed,     \* history: a Required step of this call has failed
    late        \* history: steps carried out in this call under a raised stop flag

callVars == <<plan, at, status, lineOk, rootOk, aborted, missed, late>>
executorVars == <<callVars, stop>>

Idle == status \in {"idle", "returned"}
Active == status \in {"running", "busy", "chown", "overlay"}
Current == plan[at]

Outcomes == {"ok", "fail", "denied"}

ExecutorInit ==
    /\ plan = <<>> /\ at = 1 /\ status = "idle"
    /\ lineOk = TRUE /\ rootOk = FALSE /\ aborted = FALSE
    /\ stop = FALSE /\ missed = FALSE /\ late = 0

(***************************************************************************)
(* run(plan, callbacks) is entered: fresh Result, fresh verdicts.  The     *)
(* stop flag is whatever it was.                                           *)
(***************************************************************************)
Call(p) ==
    /\ Idle
    /\ plan' = p /\ at' = 1 /\ status' = "running"
    /\ lineOk' = TRUE /\ rootOk' = FALSE /\ aborted' = FALSE
    /\ missed' = FALSE /\ late' = 0
    /\ UNCHANGED stop

(* Mutant: the flag is taken as an acknowledged event, and lowered. *)
HeadStopAcknowledged ==
    /\ status = "running" /\ at <= Len(plan) /\ stop
    /\ status' = "returned" /\ stop' = FALSE
    /\ UNCHANGED <<plan, at, lineOk, rootOk, aborted, missed, late>>

(* Head of the loop: a raised stop flag ends the call before the step. *)
HeadStop ==
    /\ status = "running" /\ at <= Len(plan) /\ stop
    /\ status' = "returned" /\ aborted' = TRUE
    /\ UNCHANGED <<plan, at, lineOk, rootOk, stop, missed, late>>

(* The loop runs off the end of the plan, without another look at the flag. *)
HeadEnd ==
    /\ status = "running" /\ at > Len(plan)
    /\ status' = "returned"
    /\ UNCHANGED <<plan, at, lineOk, rootOk, aborted, stop, missed, late>>

(* Mutant: the flag is not looked at before the step. *)
HeadStartBlind ==
    /\ status = "running" /\ at <= Len(plan)
    /\ status' = "busy"
    /\ UNCHANGED <<plan, at, lineOk, rootOk, aborted, stop, missed, late>>

(* The step is begun. *)
HeadStart ==
    /\ status = "running" /\ at <= Len(plan) /\ ~stop
    /\ status' = "busy"
    /\ UNCHANGED <<plan, at, lineOk, rootOk, aborted, stop, missed, late>>

Advance == at' = at + 1 /\ status' = "running" /\ UNCHANGED aborted
GiveUp  == UNCHANGED at /\ status' = "returned" /\ aborted' = TRUE
Die     == UNCHANGED <<at, aborted>> /\ status' = "exited"

(* Counts what happens in a step for the history variables. *)
Note(out) ==
    /\ missed' = (missed \/ (out # "ok" /\ Required(plan, at)))
    /\ late' = IF stop THEN late + 1 ELSE late

(* Mutant: a step without a verdict swallows the one after it. *)
FinishQuietSkips ==
    /\ Current.kind = "quiet"
    /\ at' = at + 2 /\ status' = "running"
    /\ UNCHANGED <<aborted, lineOk, rootOk>>

FinishQuiet ==
    /\ Current.kind = "quiet" /\ Advance
    /\ UNCHANGED <<lineOk, rootOk>>

FinishSure ==
    /\ Current.kind = "sure" /\ Advance
    /\ lineOk' = TRUE /\ UNCHANGED rootOk

(* Mutant: a command that fails skips its check. *)
FinishLineSkipsCheck(out) ==
    /\ Current.kind = "line" /\ out # "denied"
    /\ at' = (IF out = "ok" THEN at + 1 ELSE at + 2) /\ status' = "running"
    /\ lineOk' = (out = "ok") /\ UNCHANGED <<rootOk, aborted>>

FinishLine(out) ==
    /\ Current.kind = "line" /\ out # "denied" /\ Advance
    /\ lineOk' = (out = "ok") /\ UNCHANGED rootOk

FinishEmbed(out) ==
    /\ Current.kind = "embed" /\ out # "denied"
    /\ IF out = "ok" THEN lineOk' = TRUE /\ Advance
                     ELSE UNCHANGED lineOk /\ GiveUp
    /\ UNCHANGED rootOk

(* Mutant: a failed root command is tried again. *)
FinishRootRetries(out) ==
    /\ Current.kind \in RootKinds
    /\ UNCHANGED lineOk
    /\ rootOk' = (out = "ok")
    /\ IF out = "ok" THEN Advance ELSE UNCHANGED <<at, aborted>> /\ status' = "running"

(* Mutant: mountpoint and its like are not excepted. *)
FinishRootStrict(out) ==
    /\ Current.kind \in RootKinds
    /\ UNCHANGED lineOk
    /\ rootOk' = (out = "ok")
    /\ IF out = "ok" THEN Advance ELSE GiveUp

(***************************************************************************)
(* A root command: std::exit on a denied elevation in the CLI, otherwise   *)
(* the verdict is kept, and a failure is looked at twice: first for a stop *)
(* request, then for whether the program is one of the tolerated ones.     *)
(***************************************************************************)
FinishRoot(out) ==
    /\ Current.kind \in RootKinds
    /\ UNCHANGED lineOk
    /\ IF out = "denied" /\ ExitsOnDenied
       THEN Die /\ UNCHANGED rootOk
       ELSE /\ rootOk' = (out = "ok")
            /\ IF out = "ok" \/ (~stop /\ Current.kind = "tolerant")
               THEN Advance
               ELSE GiveUp

(* check_proc_as_root: a failed verdict leads to two more root commands. *)
FinishCheckRoot ==
    /\ Current.kind = "checkRoot"
    /\ UNCHANGED <<lineOk, rootOk>>
    /\ IF rootOk THEN Advance
                 ELSE status' = "chown" /\ UNCHANGED <<at, aborted>>

(* Mutant: the error is shown, and the loop goes on. *)
FinishCheckLineOnlyWarns ==
    /\ Current.kind = "checkLine" /\ Advance
    /\ UNCHANGED <<lineOk, rootOk>>

FinishCheckLine ==
    /\ Current.kind = "checkLine"
    /\ UNCHANGED <<lineOk, rootOk>>
    /\ IF lineOk THEN Advance ELSE GiveUp

(* Mutant: the Abort step is taken for a message. *)
FinishAbortUnmarked ==
    /\ Current.kind = "abort" /\ Advance
    /\ UNCHANGED <<lineOk, rootOk>>

(* An Abort step marks the result; the loop goes on with the next step. *)
FinishAbort ==
    /\ Current.kind = "abort"
    /\ at' = at + 1 /\ status' = "running" /\ aborted' = TRUE
    /\ UNCHANGED <<lineOk, rootOk>>

(* The step in progress comes out as out. *)
Finish(out) ==
    /\ status = "busy"
    /\ Note(out)
    /\ \/ out = "ok" /\ (FinishQuiet \/ FinishSure \/ FinishAbort)
       \/ out = "ok" /\ (FinishCheckRoot \/ FinishCheckLine)
       \/ FinishLine(out) \/ FinishEmbed(out) \/ FinishRoot(out)
    /\ UNCHANGED <<plan, stop>>

(***************************************************************************)
(* The commands check_proc_as_root runs after a failed check: chown_conf,  *)
(* then cleanup_overlay.  Their results are ignored, but a denied          *)
(* elevation still ends a CLI.                                             *)
(***************************************************************************)
FailedCheckChown(out) ==
    /\ status = "chown"
    /\ status' = IF out = "denied" /\ ExitsOnDenied THEN "exited" ELSE "overlay"
    /\ UNCHANGED <<plan, at, lineOk, rootOk, aborted, stop, missed, late>>

FailedCheckOverlay(out) ==
    /\ status = "overlay"
    /\ IF out = "denied" /\ ExitsOnDenied THEN Die ELSE GiveUp
    /\ UNCHANGED <<plan, lineOk, rootOk, stop, missed, late>>

(* requestStop() and the signal handler: a store to the flag, at any time. *)
RequestStop ==
    /\ status # "exited" /\ ~stop
    /\ stop' = TRUE
    /\ UNCHANGED callVars

(* installSignalCleanup and clearSignalCleanup reset the flag between calls. *)
ResetStop ==
    /\ Idle /\ stop
    /\ stop' = FALSE
    /\ UNCHANGED callVars

(* The process ends, however it does, and another one starts. *)
Restart ==
    /\ plan' = <<>> /\ at' = 1 /\ status' = "idle"
    /\ lineOk' = TRUE /\ rootOk' = FALSE /\ aborted' = FALSE
    /\ stop' = FALSE /\ missed' = FALSE /\ late' = 0

CallStep ==
    \/ HeadStop \/ HeadEnd \/ HeadStart
    \/ \E out \in Outcomes :
          Finish(out) \/ FailedCheckChown(out) \/ FailedCheckOverlay(out)

ExecutorNext ==
    \/ \E p \in Plans : Call(p)
    \/ CallStep \/ RequestStop \/ ResetStop \/ Restart

ExecutorSpec == ExecutorInit /\ [][ExecutorNext]_executorVars

(***************************************************************************)
(* A command is assumed to end (there is no timeout, timeoutMs is -1), and *)
(* the loop is a thread that is scheduled.                                 *)
(***************************************************************************)
FairExecutorSpec == ExecutorSpec /\ WF_executorVars(CallStep)
----------------------------------------------------------------------------
ExecutorTypeOK ==
    /\ plan \in Seq([kind : Kinds, op : STRING])
    /\ at \in 1..(Len(plan) + 1)
    /\ status \in {"idle", "running", "busy", "chown", "overlay", "returned", "exited"}
    /\ lineOk \in BOOLEAN /\ rootOk \in BOOLEAN /\ aborted \in BOOLEAN
    /\ stop \in BOOLEAN /\ missed \in BOOLEAN /\ late \in Nat

(***************************************************************************)
(* A call that returns without aborted has seen every required step        *)
(* succeed, however verdicts were overwritten in between: the success that *)
(* run() reports to the runner means what the plan says it means.          *)
(***************************************************************************)
SuccessMeansRequiredDone ==
    status = "returned" /\ ~aborted => ~missed

(***************************************************************************)
(* After a stop request the call carries out at most the one step that was *)
(* in progress: the flag is looked at before every step, and no step is    *)
(* begun between the look and the next one.                                *)
(***************************************************************************)
StopBoundsWork == late <= 1

(***************************************************************************)
(* A plan that contains an Abort step never comes back as a success, even  *)
(* though the loop carries on with the steps after it.                     *)
(***************************************************************************)
AbortedPlanNeverSucceeds ==
    status = "returned" /\ ~aborted => \A i \in 1..Len(plan) : plan[i].kind # "abort"

(* Every call ends: run() returns or the process is gone. *)
CallEnds == Active ~> ~Active
============================================================================
