------------------------- MODULE GuiSessionProofs -------------------------
(***************************************************************************)
(* What the window and the worker keep for any number of runs and steps.   *)
(***************************************************************************)
EXTENDS GuiSession, TLAPS

(* Past the reset of the flag, and not yet past clearSignalCleanup. *)
Listening(r) == worker[r] \in {"working", "busy", "killed"}

(* Only the last run has a worker, and while it has one the controls are off. *)
WorkerIsLast ==
    /\ \A r \in Runs : worker[r] # "none" => r = run
    /\ controls => \A r \in Runs : worker[r] = "none"
    /\ controls = ~inProgress

StepsRemain == \A r \in Runs : worker[r] \in {"busy", "killed"} => left[r] > 0

(* A raised flag that a worker can see is its own user's. *)
FlagIsOwn ==
    /\ stop => \A r \in Runs : Listening(r) => r \in cancelled
    /\ \A r \in heard : Listening(r) => stop
    /\ \A r \in heard : worker[r] # "checks"
    /\ \A r \in heard : r <= run

(* A box about a run is open only once there has been one. *)
BoxNeedsRun ==
    /\ gui \in {"cancel?", "quit?"} => run > 0
    /\ inProgress => run > 0

GuiInv ==
    /\ GuiTypeOK /\ BoxNeedsRun /\ WorkerIsLast
    /\ StepsRemain /\ FlagIsOwn /\ OnlyCancelledRunsStop

USE GuiAssumption

LEMMA GuiInitInv == GuiInit => GuiInv
  <1> SUFFICES ASSUME GuiInit PROVE GuiInv
    OBVIOUS
  <1>1. button \in {"Cancel", "Cancelling...", "Close"}
    BY DEF GuiInit
  <1>2. run \in 0..MaxRuns /\ left \in [Runs -> 0..Steps]
    BY DEF GuiInit, Runs
  <1>3. GuiTypeOK
    BY <1>1, <1>2 DEF GuiInit, GuiTypeOK
  <1> QED
    BY <1>3 DEF BoxNeedsRun, GuiInit, GuiInv, WorkerIsLast, StepsRemain, FlagIsOwn, OnlyCancelledRunsStop, Listening

(* Steps that leave the workers and the flag alone. *)
LEMMA WindowKeepsInv ==
    ASSUME GuiInv,
           EditBootMenu \/ EndOfPrepare \/ PressButtonOrEscape \/ Decline \/ CloseWindow \/ Back
               \/ UNCHANGED guiVars
    PROVE  GuiInv'
  <1> USE DEF GuiInv, guiVars, windowVars, workerVars, historyVars
  <1>1. UNCHANGED <<inProgress, controls, run, worker, left, outcome, stop, kills,
                    cancelled, heard>>
    BY DEF EditBootMenu, EndOfPrepare, PressButtonOrEscape, Decline, CloseWindow, Back
  <1>2. gui' \in {"loop", "editor", "gone"} \cup Boxes /\ onOutput' \in BOOLEAN
    BY DEF EditBootMenu, EndOfPrepare, PressButtonOrEscape, Decline, CloseWindow, Back,
           CloseApp, GuiTypeOK, Boxes
  <1>3. button' \in {"Cancel", "Cancelling...", "Close"}
    BY DEF EditBootMenu, EndOfPrepare, PressButtonOrEscape, Decline, CloseWindow, Back, GuiTypeOK
  <1>4. GuiTypeOK'
    BY <1>1, <1>2, <1>3 DEF GuiTypeOK
  <1>5. BoxNeedsRun'
    BY <1>1 DEF EditBootMenu, EndOfPrepare, PressButtonOrEscape, Decline, CloseWindow, Back,
           CloseApp, BoxNeedsRun
  <1> QED
    BY <1>1, <1>4, <1>5 DEF WorkerIsLast, StepsRemain, FlagIsOwn, OnlyCancelledRunsStop, Listening

LEMMA StartKeepsInv == ASSUME GuiInv, NEW edit \in BOOLEAN, Start(edit) PROVE GuiInv'
  <1> USE DEF GuiInv, workerVars, historyVars
  <1>1. run' = run + 1 /\ run' \in Runs /\ \A r \in Runs : worker[r] = "none"
    BY DEF Start, GuiTypeOK, Runs, WorkerIsLast
  <1>2. \A r \in Runs : worker'[r] = IF r = run' THEN "checks" ELSE "none"
    BY <1>1 DEF Start, GuiTypeOK
  <1>3. GuiTypeOK'
    <2>1. gui' \in {"loop", "editor", "gone"} \cup Boxes /\ run' \in 0..MaxRuns
      BY <1>1 DEF Start, Boxes, Runs
    <2>2. button' \in {"Cancel", "Cancelling...", "Close"}
      BY DEF Start
    <2>3. worker' \in [Runs -> {"none", "checks", "working", "busy", "killed", "returned"}]
      BY DEF Start, GuiTypeOK
    <2> QED
      BY <2>1, <2>2, <2>3 DEF Start, GuiTypeOK
  <1>4. WorkerIsLast'
    BY <1>1, <1>2 DEF Start, WorkerIsLast, Runs
  <1>5. FlagIsOwn'
    BY <1>1, <1>2 DEF Start, FlagIsOwn, Listening, GuiTypeOK, Runs
  <1>6. StepsRemain' /\ OnlyCancelledRunsStop'
    BY <1>2 DEF Start, StepsRemain, OnlyCancelledRunsStop
  <1>7. BoxNeedsRun'
    BY <1>1 DEF Start, BoxNeedsRun, Runs
  <1> QED
    BY <1>3, <1>4, <1>5, <1>6, <1>7

LEMMA ConfirmKeepsInv == ASSUME GuiInv, ConfirmCancel PROVE GuiInv'
  <1> USE DEF GuiInv, workerVars, ConfirmCancel, RequestOperationCancel
  <1>1. \A r \in Runs : Listening(r) => r = run /\ inProgress
    BY DEF WorkerIsLast, Listening, GuiTypeOK
  <1>2. run \in Runs
    BY DEF GuiTypeOK, BoxNeedsRun, Runs
  <1>3. run \in heard' => run \in heard \/ Listening(run)
    BY DEF Listening
  <1>4. GuiTypeOK'
    <2>1. button' \in {"Cancel", "Cancelling...", "Close"}
      BY DEF RequestOperationCancel
    <2>2. heard' \subseteq cancelled'
      BY <1>1, <1>2 DEF Listening, GuiTypeOK
    <2>3. kills' \subseteq Runs /\ cancelled' \subseteq Runs
      BY <1>2 DEF GuiTypeOK
    <2> QED
      BY <2>1, <2>2, <2>3 DEF GuiTypeOK
  <1>5. BoxNeedsRun' /\ WorkerIsLast' /\ StepsRemain'
    BY DEF BoxNeedsRun, WorkerIsLast, StepsRemain
  <1>6. FlagIsOwn'
    BY <1>1, <1>2, <1>3 DEF FlagIsOwn, Listening, GuiTypeOK, Runs
  <1>7. OnlyCancelledRunsStop'
    BY DEF OnlyCancelledRunsStop
  <1> QED
    BY <1>4, <1>5, <1>6, <1>7

LEMMA FinishedKeepsInv == ASSUME GuiInv, BackgroundProcessingFinished PROVE GuiInv'
  <1> USE DEF GuiInv, historyVars, BackgroundProcessingFinished
  <1>1. GuiTypeOK'
    <2>1. button' \in {"Cancel", "Cancelling...", "Close"}
      BY DEF RequestOperationCancel
    <2> QED
      BY <2>1 DEF GuiTypeOK
  <1>2. \A r \in Runs : worker'[r] = "none"
    BY DEF GuiTypeOK, WorkerIsLast
  <1>3. WorkerIsLast' /\ BoxNeedsRun'
    BY <1>2 DEF BoxNeedsRun, WorkerIsLast
  <1>4. StepsRemain' /\ OnlyCancelledRunsStop'
    BY <1>2 DEF StepsRemain, OnlyCancelledRunsStop
  <1>5. FlagIsOwn'
    BY <1>2 DEF FlagIsOwn, Listening, GuiTypeOK
  <1> QED
    BY <1>1, <1>3, <1>4, <1>5

LEMMA WorkerKeepsInv == ASSUME GuiInv, NEW r \in Runs, WorkerStep(r) PROVE GuiInv'
  <1> USE DEF GuiInv, windowVars, historyVars, Return
  <1>1. worker[r] # "none" /\ r = run /\ UNCHANGED <<windowVars, historyVars, kills>>
    <2>1. worker[r] # "none" /\ UNCHANGED <<windowVars, historyVars, kills>>
      BY DEF WorkerStep, ChecksFail, Install, BeginStep, EndStep, FailStep, SeeStop, Complete
    <2> QED
      BY <2>1 DEF WorkerIsLast
  <1>2. \A q \in Runs \ {r} : worker[q] = "none" /\ worker'[q] = "none" /\ outcome'[q] = outcome[q]
    BY <1>1 DEF WorkerStep, ChecksFail, Install, BeginStep, EndStep, FailStep, SeeStop, Complete,
           WorkerIsLast, GuiTypeOK
  <1>3. WorkerIsLast' /\ BoxNeedsRun'
    BY <1>1, <1>2 DEF WorkerIsLast, BoxNeedsRun
  <1>4. /\ GuiTypeOK'
        /\ worker'[r] \in {"busy", "killed"} => left'[r] > 0
        /\ stop' /\ worker'[r] \in {"working", "busy", "killed"} => r \in cancelled
        /\ r \in heard => worker'[r] # "checks"
        /\ r \in heard /\ worker'[r] \in {"working", "busy", "killed"} => stop'
        /\ outcome'[r] = "stopped" => r \in cancelled
    <2> USE <1>1 DEF GuiTypeOK, StepsRemain, FlagIsOwn, OnlyCancelledRunsStop, Listening
    <2>1. CASE ChecksFail(r)
      BY <2>1 DEF ChecksFail
    <2>2. CASE Install(r)
      <3>1. stop' = FALSE /\ worker'[r] = "working" /\ r \notin heard /\ outcome' = outcome
        BY <2>2 DEF Install
      <3>2. left' \in [Runs -> 0..Steps] /\ worker' \in [Runs -> {"none", "checks", "working",
                                                                 "busy", "killed", "returned"}]
        BY <2>2 DEF Install
      <3> QED
        BY <3>1, <3>2, <2>2 DEF Install
    <2>3. CASE BeginStep(r)
      BY <2>3 DEF BeginStep
    <2>4. CASE EndStep(r)
      BY <2>4 DEF EndStep
    <2>5. CASE FailStep(r)
      BY <2>5 DEF FailStep
    <2>6. CASE SeeStop(r)
      BY <2>6 DEF SeeStop
    <2>7. CASE Complete(r)
      BY <2>7 DEF Complete
    <2> QED
      BY <2>1, <2>2, <2>3, <2>4, <2>5, <2>6, <2>7 DEF WorkerStep
  <1>5. StepsRemain' /\ OnlyCancelledRunsStop'
    BY <1>1, <1>2, <1>4 DEF StepsRemain, OnlyCancelledRunsStop
  <1>6. FlagIsOwn'
    BY <1>1, <1>2, <1>4 DEF FlagIsOwn, Listening, GuiTypeOK
  <1> QED
    BY <1>3, <1>4, <1>5, <1>6

LEMMA KillKeepsInv == ASSUME GuiInv, NEW c \in Runs, KillMksquashfs(c) PROVE GuiInv'
  BY DEF GuiInv, windowVars, historyVars, KillMksquashfs, Squashing, GuiTypeOK, BoxNeedsRun, WorkerIsLast,
         StepsRemain, FlagIsOwn, OnlyCancelledRunsStop, Listening

LEMMA GuiStepInv == GuiInv /\ [GuiNext]_guiVars => GuiInv'
  <1> SUFFICES ASSUME GuiInv, [GuiNext]_guiVars PROVE GuiInv'
    OBVIOUS
  <1>1. CASE \E edit \in BOOLEAN : Start(edit)
    BY <1>1, StartKeepsInv
  <1>2. CASE ConfirmCancel
    BY <1>2, ConfirmKeepsInv
  <1>3. CASE BackgroundProcessingFinished
    BY <1>3, FinishedKeepsInv
  <1>4. CASE \E r \in Runs : WorkerStep(r)
    BY <1>4, WorkerKeepsInv
  <1>5. CASE \E r \in Runs : KillMksquashfs(r)
    BY <1>5, KillKeepsInv
  <1>6. CASE EditBootMenu \/ EndOfPrepare \/ PressButtonOrEscape \/ Decline \/ CloseWindow \/ Back
                 \/ UNCHANGED guiVars
    BY <1>6, WindowKeepsInv
  <1> QED
    BY <1>1, <1>2, <1>3, <1>4, <1>5, <1>6 DEF GuiNext, User

THEOREM GuiInvariant == GuiSpec => []GuiInv
  BY GuiInitInv, GuiStepInv, PTL DEF GuiSpec

(* The window's and the workers' state keeps its types. *)
THEOREM GuiTypes == GuiSpec => []GuiTypeOK
  <1>1. GuiInv => GuiTypeOK
    BY DEF GuiInv
  <1> QED
    BY <1>1, GuiInvariant, PTL

(* However many runs a window starts, no two have a worker at a time. *)
THEOREM GuiOneWorker == GuiSpec => []OneWorkerAtATime
  <1>1. GuiInv => OneWorkerAtATime
    BY DEF GuiInv, WorkerIsLast, OneWorkerAtATime
  <1> QED
    BY <1>1, GuiInvariant, PTL

(* No run is stopped by a flag that another run's cancel has left raised. *)
THEOREM GuiStops == GuiSpec => []OnlyCancelledRunsStop
  <1>1. GuiInv => OnlyCancelledRunsStop
    BY DEF GuiInv
  <1> QED
    BY <1>1, GuiInvariant, PTL

(* After a cancel its worker can see, a run begins no step. *)
THEOREM GuiObeys == GuiSpec => HeardCancelIsObeyed
  <1> DEFINE Obeyed == \A r \in heard : worker[r] = "working" => worker'[r] # "busy"
  <1>1. GuiInv /\ [GuiNext]_guiVars => [Obeyed]_guiVars
    <2> SUFFICES ASSUME GuiInv, GuiNext, NEW r \in heard, worker[r] = "working"
                 PROVE  worker'[r] # "busy"
      OBVIOUS
    <2>1. r \in Runs /\ stop
      BY DEF GuiInv, GuiTypeOK, FlagIsOwn, Listening
    <2>2. ASSUME NEW q \in Runs, BeginStep(q) PROVE FALSE
      BY <2>1, <2>2 DEF BeginStep
    <2> QED
      BY <2>1, <2>2 DEF GuiInv, GuiTypeOK, GuiNext, User, WorkerStep, ChecksFail, Install, EndStep,
           FailStep, SeeStop, Complete, KillMksquashfs, Return, Start, EditBootMenu, EndOfPrepare,
           PressButtonOrEscape, ConfirmCancel, Decline, CloseWindow, Back,
           BackgroundProcessingFinished, workerVars
  <1> QED
    BY <1>1, GuiInvariant, PTL DEF GuiSpec, HeardCancelIsObeyed
============================================================================
