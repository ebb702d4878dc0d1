----------------------------- MODULE GuiSession -----------------------------
(***************************************************************************)
(* The Qt window and its worker: MainWindow starts runFromSettings in a    *)
(* pool thread, keeps a button that cancels it, and takes its result from  *)
(* a queued event.  Modal boxes run an event loop of their own, so the     *)
(* result may arrive while one of them is open; a cancel also starts a     *)
(* root command, kill_mksquashfs, that nobody waits for.  The worker is    *)
(* what the GUI can tell of it: the checks before installSignalCleanup,    *)
(* then steps with a look at the stop flag before each.                    *)
(***************************************************************************)
EXTENDS Naturals

CONSTANTS
    MaxRuns,    \* bound: runs started from one window
    Steps,      \* steps of a run
    SquashStep  \* the one that runs mksquashfs, counted from the end

ASSUME GuiAssumption ==
    MaxRuns \in Nat \ {0} /\ Steps \in Nat \ {0} /\ SquashStep \in 1..Steps

Runs == 1..MaxRuns

VARIABLES
    gui,         \* where the GUI thread is: its event loop, an open box, the editor
    onOutput,    \* the output page is shown
    inProgress,  \* m_operationInProgress
    controls,    \* the controls that enableControls switches are on
    button,      \* the text of btnCancel
    run,         \* the last run started
    worker,      \* where each run's worker is
    left,        \* its steps to go
    outcome,     \* how it ended
    stop,        \* g_signal_stop_requested
    kills,       \* runs whose cancel has a kill_mksquashfs job outstanding
    cancelled,   \* history: runs the user cancelled while they were in progress
    heard        \* history: those whose worker was past its reset of the flag

windowVars == <<gui, onOutput, inProgress, controls, button, run>>
workerVars == <<worker, left, outcome>>
historyVars == <<cancelled, heard>>
guiVars == <<windowVars, workerVars, stop, kills, historyVars>>

Boxes == {"boot", "cancel?", "quit?", "close?"}
InEventLoop == gui \in {"loop"} \cup Boxes

GuiInit ==
    /\ gui = "loop" /\ onOutput = FALSE /\ inProgress = FALSE /\ controls = TRUE
    /\ button = "Close" /\ run = 0
    /\ worker = [r \in Runs |-> "none"] /\ left = [r \in Runs |-> 0]
    /\ outcome = [r \in Runs |-> "none"]
    /\ stop = FALSE /\ kills = {}
    /\ cancelled = {} /\ heard = {}
----------------------------------------------------------------------------
(* The window. *)

(* Mutant: the other controls stay on during the run. *)
StartUnguarded(edit) ==
    /\ gui = "loop" /\ controls /\ ~onOutput /\ run < MaxRuns
    /\ run' = run + 1
    /\ onOutput' = TRUE /\ inProgress' = TRUE /\ UNCHANGED controls
    /\ worker' = [worker EXCEPT ![run'] = "checks"]
    /\ gui' = IF edit THEN "boot" ELSE "loop"
    /\ button' = IF edit THEN "Cancel" ELSE "Close"
    /\ UNCHANGED <<left, outcome, stop, kills, historyVars>>

(***************************************************************************)
(* handleSettingsPage and prepareForOutput: the worker is started, then    *)
(* the boot menu question may be asked, then the button is renamed.        *)
(***************************************************************************)
Start(edit) ==
    /\ gui = "loop" /\ controls /\ ~onOutput /\ run < MaxRuns
    /\ run' = run + 1
    /\ onOutput' = TRUE /\ inProgress' = TRUE /\ controls' = FALSE
    /\ worker' = [worker EXCEPT ![run'] = "checks"]
    /\ gui' = IF edit THEN "boot" ELSE "loop"
    /\ button' = IF edit THEN "Cancel" ELSE "Close"
    /\ UNCHANGED <<left, outcome, stop, kills, historyVars>>

(* editBootMenu: No, or Yes and then an editor the GUI thread waits for. *)
EditBootMenu ==
    /\ gui = "boot" /\ gui' = "editor"
    /\ UNCHANGED <<onOutput, inProgress, controls, button, run, workerVars, stop, kills, historyVars>>

EndOfPrepare ==
    /\ gui \in {"boot", "editor"} /\ gui' = "loop"
    /\ button' = "Close"
    /\ UNCHANGED <<onOutput, inProgress, controls, run, workerVars, stop, kills, historyVars>>

(* closeApp, and btnCancel_clicked for a button that still reads "Cancel". *)
CloseApp ==
    gui' = IF ~(onOutput /\ inProgress) THEN "gone"
           ELSE IF button = "Cancel" THEN "cancel?" ELSE "quit?"

PressButtonOrEscape ==
    /\ gui = "loop" /\ CloseApp
    /\ UNCHANGED <<onOutput, inProgress, controls, button, run, workerVars, stop, kills, historyVars>>

(* Mutant: only the window's own flag is set, which nobody reads. *)
RequestOperationCancelLocally ==
    /\ stop' = stop
    /\ button' = "Cancelling..."
    /\ kills' = kills \cup {run}

RequestOperationCancel ==
    /\ stop' = TRUE
    /\ button' = "Cancelling..."
    /\ kills' = kills \cup {run}

(* The box was opened during a run; Yes does not ask again whether it still goes on. *)
ConfirmCancel ==
    /\ gui \in {"cancel?", "quit?"} /\ gui' = "loop"
    /\ RequestOperationCancel
    /\ cancelled' = IF inProgress THEN cancelled \cup {run} ELSE cancelled
    /\ heard' = IF worker[run] \in {"working", "busy"} THEN heard \cup {run} ELSE heard
    /\ UNCHANGED <<onOutput, inProgress, controls, run, workerVars>>

Decline ==
    /\ gui \in {"cancel?", "quit?", "close?"} /\ gui' = "loop"
    /\ UNCHANGED <<onOutput, inProgress, controls, button, run, workerVars, stop, kills, historyVars>>

(* closeEvent; with a Yes the process ends, and no stop is requested. *)
CloseWindow ==
    /\ \/ gui = "loop" /\ gui' = IF onOutput /\ inProgress THEN "close?" ELSE "gone"
       \/ gui = "close?" /\ gui' = "gone"
    /\ UNCHANGED <<onOutput, inProgress, controls, button, run, workerVars, stop, kills, historyVars>>

Back ==
    /\ gui = "loop" /\ controls /\ onOutput
    /\ onOutput' = FALSE
    /\ UNCHANGED <<gui, inProgress, controls, button, run, workerVars, stop, kills, historyVars>>

(* Mutant: an aborted run is shown, and the operation state kept. *)
BackgroundProcessingSucceeded ==
    /\ InEventLoop /\ run \in Runs /\ worker[run] = "returned"
    /\ worker' = [worker EXCEPT ![run] = "none"]
    /\ IF outcome[run] = "success"
       THEN inProgress' = FALSE /\ controls' = TRUE /\ button' = "Close"
       ELSE UNCHANGED <<inProgress, controls, button>>
    /\ UNCHANGED <<gui, onOutput, run, left, outcome, stop, kills, historyVars>>

(* onBackgroundProcessingFinished, in whichever event loop is running. *)
BackgroundProcessingFinished ==
    /\ InEventLoop /\ run \in Runs /\ worker[run] = "returned"
    /\ worker' = [worker EXCEPT ![run] = "none"]
    /\ inProgress' = FALSE /\ controls' = TRUE /\ button' = "Close"
    /\ UNCHANGED <<gui, onOutput, run, left, outcome, stop, kills, historyVars>>
----------------------------------------------------------------------------
(* The worker of run r, and the kill job of a cancel. *)

Alive == gui # "gone"

Return(r, result) ==
    /\ worker' = [worker EXCEPT ![r] = "returned"]
    /\ outcome' = [outcome EXCEPT ![r] = result]
    /\ UNCHANGED left

ChecksFail(r) ==
    /\ Alive /\ worker[r] = "checks" /\ Return(r, "aborted")
    /\ UNCHANGED <<windowVars, stop, kills, historyVars>>

(* Mutant: the flag is left as it is. *)
InstallWithoutReset(r) ==
    /\ Alive /\ worker[r] = "checks"
    /\ worker' = [worker EXCEPT ![r] = "working"] /\ left' = [left EXCEPT ![r] = Steps]
    /\ UNCHANGED <<windowVars, outcome, stop, kills, historyVars>>

(* installSignalCleanup lowers the flag. *)
Install(r) ==
    /\ Alive /\ worker[r] = "checks" /\ stop' = FALSE
    /\ worker' = [worker EXCEPT ![r] = "working"] /\ left' = [left EXCEPT ![r] = Steps]
    /\ UNCHANGED <<windowVars, outcome, kills, historyVars>>

(* Mutant: one step more than there are. *)
BeginStepPastTheEnd(r) ==
    /\ Alive /\ worker[r] = "working" /\ ~stop
    /\ worker' = [worker EXCEPT ![r] = "busy"]
    /\ UNCHANGED <<windowVars, left, outcome, stop, kills, historyVars>>

BeginStep(r) ==
    /\ Alive /\ worker[r] = "working" /\ left[r] > 0 /\ ~stop
    /\ worker' = [worker EXCEPT ![r] = "busy"]
    /\ UNCHANGED <<windowVars, left, outcome, stop, kills, historyVars>>

EndStep(r) ==
    /\ Alive /\ worker[r] = "busy"
    /\ worker' = [worker EXCEPT ![r] = "working"] /\ left' = [left EXCEPT ![r] = @ - 1]
    /\ UNCHANGED <<windowVars, outcome, stop, kills, historyVars>>

(* Every way to the end passes clearSignalCleanup, which lowers the flag. *)
FailStep(r) ==
    /\ Alive /\ worker[r] \in {"busy", "killed"}
    /\ Return(r, IF worker[r] = "killed" THEN "killed" ELSE "aborted") /\ stop' = FALSE
    /\ UNCHANGED <<windowVars, kills, historyVars>>

SeeStop(r) ==
    /\ Alive /\ worker[r] = "working" /\ left[r] > 0 /\ stop
    /\ Return(r, "stopped") /\ stop' = FALSE
    /\ UNCHANGED <<windowVars, kills, historyVars>>

Complete(r) ==
    /\ Alive /\ worker[r] = "working" /\ left[r] = 0
    /\ Return(r, "success") /\ stop' = FALSE
    /\ UNCHANGED <<windowVars, kills, historyVars>>

Squashing(r) == worker[r] = "busy" /\ left[r] = SquashStep

(* The helper's pkill takes whichever mksquashfs there is. *)
KillMksquashfs(c) ==
    /\ Alive /\ c \in kills /\ kills' = kills \ {c}
    /\ worker' = [r \in Runs |-> IF Squashing(r) THEN "killed" ELSE worker[r]]
    /\ UNCHANGED <<windowVars, left, outcome, stop, historyVars>>

WorkerStep(r) ==
    \/ ChecksFail(r) \/ Install(r) \/ BeginStep(r) \/ EndStep(r)
    \/ FailStep(r) \/ SeeStop(r) \/ Complete(r)

User ==
    \/ \E edit \in BOOLEAN : Start(edit)
    \/ EditBootMenu \/ PressButtonOrEscape \/ ConfirmCancel \/ Decline \/ CloseWindow \/ Back

GuiNext ==
    \/ User \/ EndOfPrepare \/ BackgroundProcessingFinished
    \/ \E r \in Runs : WorkerStep(r) \/ KillMksquashfs(r)

GuiSpec == GuiInit /\ [][GuiNext]_guiVars

(***************************************************************************)
(* Threads are scheduled, posted events are delivered, commands end, and   *)
(* the user leaves the boot menu question or the editor some time; no      *)
(* other answer of the user is counted on.                                 *)
(***************************************************************************)
FairGuiSpec ==
    /\ GuiSpec
    /\ WF_guiVars(EndOfPrepare) /\ WF_guiVars(BackgroundProcessingFinished)
    /\ \A r \in Runs : WF_guiVars(WorkerStep(r))
----------------------------------------------------------------------------
GuiTypeOK ==
    /\ gui \in {"loop", "editor", "gone"} \cup Boxes
    /\ onOutput \in BOOLEAN /\ inProgress \in BOOLEAN /\ controls \in BOOLEAN
    /\ button \in {"Cancel", "Cancelling...", "Close"}
    /\ run \in 0..MaxRuns
    /\ worker \in [Runs -> {"none", "checks", "working", "busy", "killed", "returned"}]
    /\ left \in [Runs -> 0..Steps]
    /\ outcome \in [Runs -> {"none", "success", "aborted", "stopped", "killed"}]
    /\ stop \in BOOLEAN /\ kills \subseteq Runs
    /\ cancelled \subseteq Runs /\ heard \subseteq cancelled

(***************************************************************************)
(* Two workers never run side by side on the one stop flag and the one     *)
(* overlay, although nothing but disabled controls and modal boxes keeps   *)
(* the user from starting a second one.                                    *)
(***************************************************************************)
OneWorkerAtATime ==
    \A r, q \in Runs : worker[r] # "none" /\ worker[q] # "none" => r = q

(***************************************************************************)
(* A cancel that finds the worker past installSignalCleanup is obeyed: the *)
(* run begins no further step.                                             *)
(***************************************************************************)
HeardCancelIsObeyed == [][\A r \in heard : worker[r] = "working" => worker'[r] # "busy"]_guiVars

(***************************************************************************)
(* A run is stopped by its own cancel only: a flag left over from a cancel *)
(* that came too late for an earlier run does not reach it.                *)
(***************************************************************************)
OnlyCancelledRunsStop == \A r \in Runs : outcome[r] = "stopped" => r \in cancelled

(* A run in progress is reported back to the window, boxes or not. *)
RunIsReported == inProgress ~> (~inProgress \/ gui = "gone")
============================================================================
