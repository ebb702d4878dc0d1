----------------------------- MODULE Elevation -----------------------------
(***************************************************************************)
(* Root commands of a program that is not root: CommandRunner::helperProc  *)
(* and the password boxes of gui_elevation.cpp.  The worker of a run and   *)
(* the kill_mksquashfs job of a cancel call it from threads of their own,  *)
(* share one cached password and have the GUI thread ask for it; a box     *)
(* runs an event loop, in which the next caller's question may arrive.     *)
(***************************************************************************)
EXTENDS Naturals, Sequences

CONSTANTS
    Ways,      \* how this program may become root: "root" (it is), "sudo" with the
               \* GUI's box, "tool" (a CLI, doas or gksu), "none"
    MaxCalls   \* bound: calls of each thread

ASSUME ElevationAssumption ==
    Ways \subseteq {"root", "sudo", "tool", "none"} /\ MaxCalls \in Nat \ {0}

Callers == {"run", "kill"}
Typed == {"right", "wrong"}
Attempts == 2

VARIABLES
    way,       \* the one of Ways that holds
    alive,     \* the process, and its GUI event loop, still run
    stop,      \* g_signal_stop_requested
    stamp,     \* sudo's own memory: it will not read the password
    cache,     \* g_cachedPassword
    boxes,     \* callers whose password box is open, the uppermost first
    pc,        \* where each caller is
    attempt,   \* attempts its call has begun
    password,  \* what askPassword gave it
    outcome,   \* what its last call returned
    calls,     \* its calls so far
    ran,       \* history: how often its command was executed in this call
    quoted,    \* history: that printed what sudo says of a refused password
    typos      \* history: wrong passwords typed, up to two

sharedVars == <<way, alive, stop, stamp, cache, boxes>>
callVars == <<pc, attempt, password, outcome, calls>>
historyVars == <<ran, quoted, typos>>
elevationVars == <<sharedVars, callVars, historyVars>>

Each(value) == [c \in Callers |-> value]

ElevationInit ==
    /\ way \in Ways /\ alive = TRUE /\ stop = FALSE /\ stamp = FALSE
    /\ cache = "none" /\ boxes = <<>>
    /\ pc = Each("idle") /\ attempt = Each(0) /\ password = Each("none")
    /\ outcome = Each("none") /\ calls = Each(0)
    /\ ran = Each(0) /\ quoted = Each(FALSE) /\ typos = 0

InCall(c) == pc[c] \notin {"idle", "returned"}

Goes(c, from, to) == alive /\ pc[c] = from /\ pc' = [pc EXCEPT ![c] = to]

Returns(c, from, how) ==
    Goes(c, from, "returned") /\ outcome' = [outcome EXCEPT ![c] = how]
----------------------------------------------------------------------------
(* helperProc. *)

Enter(c) ==
    /\ calls[c] < MaxCalls /\ calls' = [calls EXCEPT ![c] = @ + 1]
    /\ attempt' = [attempt EXCEPT ![c] = 0] /\ outcome' = [outcome EXCEPT ![c] = "none"]
    /\ ran' = [ran EXCEPT ![c] = 0] /\ quoted' = [quoted EXCEPT ![c] = FALSE]
    /\ UNCHANGED <<way, alive, stamp, cache, boxes, password, typos>>

(* A root command of the run. *)
Call ==
    /\ \E from \in {"idle", "returned"} : Goes("run", from, "called")
    /\ Enter("run") /\ UNCHANGED stop

(* requestOperationCancel: the flag first, then the kill job. *)
Cancel ==
    /\ InCall("run") /\ stop' = TRUE
    /\ \E from \in {"idle", "returned"} : Goes("kill", from, "called")
    /\ Enter("kill")

(* clearSignalCleanup at the end of the run, installSignalCleanup of the next. *)
ResetStop ==
    /\ alive /\ stop /\ ~InCall("run") /\ stop' = FALSE
    /\ UNCHANGED <<way, alive, stamp, cache, boxes, callVars, historyVars>>

(* No helper, or nothing to become root with. *)
CannotElevate(c) ==
    /\ Returns(c, "called", "failed")
    /\ UNCHANGED <<sharedVars, attempt, password, calls, historyVars>>

(* uid 0, or a tool that does its own asking. *)
Directly(c) ==
    /\ way \in {"root", "tool"} /\ Goes(c, "called", "spawn")
    /\ UNCHANGED <<sharedVars, attempt, password, outcome, calls, historyVars>>

(* askPassword posts itself to the GUI thread and blocks. *)
Ask(c) ==
    /\ way = "sudo" /\ Goes(c, "called", "posted")
    /\ attempt' = [attempt EXCEPT ![c] = @ + 1]
    /\ UNCHANGED <<sharedVars, password, outcome, calls, historyVars>>
----------------------------------------------------------------------------
(* askPasswordOnGuiThread.  The GUI thread is free unless it is about to store. *)

GuiIsFree == \A c \in Callers : pc[c] # "typed"

LookUp(c) ==
    /\ GuiIsFree /\ cache # "none"
    /\ Goes(c, "posted", "spawn") /\ password' = [password EXCEPT ![c] = cache]
    /\ UNCHANGED <<sharedVars, attempt, outcome, calls, historyVars>>

OpenBox(c) ==
    /\ GuiIsFree /\ cache = "none"
    /\ Goes(c, "posted", "box") /\ boxes' = <<c>> \o boxes
    /\ UNCHANGED <<way, alive, stop, stamp, cache, attempt, password, outcome, calls, historyVars>>

(* Only the uppermost box can be answered, and its call returns first. *)
Uppermost(c) == boxes # <<>> /\ Head(boxes) = c /\ boxes' = Tail(boxes)

Type(c, p) ==
    /\ GuiIsFree /\ Uppermost(c) /\ Goes(c, "box", "typed")
    /\ password' = [password EXCEPT ![c] = p]
    /\ typos' = IF p = "wrong" /\ typos < 2 THEN typos + 1 ELSE typos
    /\ UNCHANGED <<way, alive, stop, stamp, cache, attempt, outcome, calls, ran, quoted>>

(* An empty answer or a closed box: "Administrator password required." *)
Dismiss(c) ==
    /\ GuiIsFree /\ Uppermost(c) /\ Returns(c, "box", "required")
    /\ UNCHANGED <<way, alive, stop, stamp, cache, attempt, password, calls, historyVars>>

Store(c) ==
    /\ Goes(c, "typed", "spawn") /\ cache' = password[c]
    /\ UNCHANGED <<way, alive, stop, stamp, boxes, attempt, password, outcome, calls, historyVars>>
----------------------------------------------------------------------------
(* ProcessRunner::run of the tool. *)

Accepted(c) == way # "sudo" \/ stamp \/ password[c] = "right"

Authenticate(c) ==
    /\ ~stop /\ Accepted(c) /\ Goes(c, "spawn", "running")
    /\ stamp' = (way = "sudo")
    /\ UNCHANGED <<way, alive, stop, cache, boxes, attempt, password, outcome, calls, historyVars>>

Refuse(c) ==
    /\ ~stop /\ ~Accepted(c) /\ Goes(c, "spawn", "refused")
    /\ UNCHANGED <<sharedVars, attempt, password, outcome, calls, historyVars>>

(***************************************************************************)
(* The first round of the loop finds the flag raised: the tool is sent its *)
(* signals before a byte of the password is written to it.  At best it had *)
(* no need of it, and is out of reach of signals already.                  *)
(***************************************************************************)
CutShort(c) ==
    /\ stop /\ Returns(c, "spawn", "crash")
    /\ ran' = IF way # "sudo" \/ stamp
              THEN [ran EXCEPT ![c] = ran[c] + 1] ELSE ran
    /\ UNCHANGED <<sharedVars, attempt, password, calls, quoted, typos>>

CutShortAtOnce(c) ==
    /\ stop /\ Returns(c, "spawn", "crash")
    /\ UNCHANGED <<sharedVars, attempt, password, calls, historyVars>>

Executed(c) == ran' = [ran EXCEPT ![c] = @ + 1]

Interrupted(c) ==
    /\ stop /\ Returns(c, "running", "crash") /\ Executed(c)
    /\ UNCHANGED <<sharedVars, attempt, password, calls, quoted, typos>>

(* Mutant: a command that fails is taken for one that was refused. *)
FinishRetries(c) ==
    /\ Executed(c)
    /\ \/ Returns(c, "running", "ran")
       \/ Goes(c, "running", "refused") /\ UNCHANGED outcome
    /\ UNCHANGED <<sharedVars, attempt, password, calls, quoted, typos>>

Finish(c) ==
    /\ Returns(c, "running", "ran") /\ Executed(c)
    /\ UNCHANGED <<sharedVars, attempt, password, calls, quoted, typos>>

(* sudo_auth_failed looks for sudo's words in all that was printed. *)
FinishQuoting(c) ==
    /\ way = "sudo" /\ Goes(c, "running", "refused") /\ Executed(c)
    /\ quoted' = [quoted EXCEPT ![c] = TRUE]
    /\ UNCHANGED <<sharedVars, attempt, password, outcome, calls, typos>>

(* Exit 126 or 127: handleElevationError ends a CLI that is not root. *)
ElevationError(c) ==
    /\ way = "tool" /\ pc[c] = "running" /\ alive' = FALSE
    /\ UNCHANGED <<way, stop, stamp, cache, boxes, callVars, historyVars>>

(* Mutant: one attempt too many. *)
AgainOffByOne(c) ==
    IF attempt[c] <= Attempts
    THEN /\ Goes(c, "refused", "posted") /\ UNCHANGED outcome
         /\ attempt' = [attempt EXCEPT ![c] = @ + 1]
    ELSE Returns(c, "refused", "incorrect") /\ UNCHANGED attempt

Again(c) ==
    IF attempt[c] < Attempts
    THEN /\ Goes(c, "refused", "posted") /\ UNCHANGED outcome
         /\ attempt' = [attempt EXCEPT ![c] = @ + 1]
    ELSE Returns(c, "refused", "incorrect") /\ UNCHANGED attempt

(* Mutant: the cache is left as it is. *)
InvalidateNot(c) ==
    /\ Again(c)
    /\ UNCHANGED <<sharedVars, password, calls, historyVars>>

(* Mutant: the attempts are not counted. *)
InvalidateUncounted(c) ==
    /\ Goes(c, "refused", "posted") /\ cache' = "none"
    /\ UNCHANGED <<way, alive, stop, stamp, boxes, attempt, password, outcome, calls, historyVars>>

(* clearCachedPassword, whatever another thread has stored in the meantime. *)
Invalidate(c) ==
    /\ Again(c) /\ cache' = "none"
    /\ UNCHANGED <<way, alive, stop, stamp, boxes, password, calls, historyVars>>
----------------------------------------------------------------------------
(* The event loop ends and main returns; no caller is waited for. *)
Quit ==
    /\ alive /\ alive' = FALSE
    /\ UNCHANGED <<way, stop, stamp, cache, boxes, callVars, historyVars>>

StampExpires ==
    /\ alive /\ stamp /\ stamp' = FALSE
    /\ UNCHANGED <<way, alive, stop, cache, boxes, callVars, historyVars>>

Caller(c) ==
    \/ CannotElevate(c) \/ Directly(c) \/ Ask(c)
    \/ Authenticate(c) \/ Refuse(c) \/ CutShort(c) \/ CutShortAtOnce(c)
    \/ Interrupted(c) \/ Finish(c) \/ FinishQuoting(c) \/ ElevationError(c) \/ Invalidate(c)

GuiThread(c) ==
    \/ LookUp(c) \/ OpenBox(c) \/ (\E p \in Typed : Type(c, p)) \/ Dismiss(c) \/ Store(c)

ElevationNext ==
    \/ Call \/ Cancel \/ ResetStop \/ Quit \/ StampExpires
    \/ \E c \in Callers : Caller(c) \/ GuiThread(c)

ElevationSpec == ElevationInit /\ [][ElevationNext]_elevationVars

(* Threads are scheduled, commands end, and the user answers a box in the end. *)
FairElevationSpec ==
    /\ ElevationSpec
    /\ \A c \in Callers : WF_elevationVars(Caller(c)) /\ WF_elevationVars(GuiThread(c))
----------------------------------------------------------------------------
ElevationTypeOK ==
    /\ way \in Ways /\ alive \in BOOLEAN /\ stop \in BOOLEAN /\ stamp \in BOOLEAN
    /\ cache \in Typed \cup {"none"} /\ boxes \in Seq(Callers)
    /\ pc \in [Callers -> {"idle", "called", "posted", "box", "typed", "spawn", "running",
                           "refused", "returned"}]
    /\ attempt \in [Callers -> 0..Attempts]
    /\ password \in [Callers -> Typed \cup {"none"}]
    /\ outcome \in [Callers -> {"none", "failed", "required", "incorrect", "crash", "ran"}]
    /\ calls \in [Callers -> 0..MaxCalls]
    /\ ran \in [Callers -> 0..Attempts] /\ quoted \in [Callers -> BOOLEAN] /\ typos \in 0..2

(***************************************************************************)
(* A command whose output does not quote sudo is executed at most once,    *)
(* and it is reported as executed if and only if it was; what a cancel has *)
(* cut short may be either.                                                *)
(***************************************************************************)
ReportedAsItWent ==
    \A c \in Callers : ~quoted[c] =>
        /\ ran[c] <= 1
        /\ outcome[c] = "ran" => ran[c] = 1
        /\ outcome[c] \in {"failed", "required", "incorrect"} => ran[c] = 0

(***************************************************************************)
(* One mistake is forgiven: no call gives up on the password unless two    *)
(* wrong ones were typed, however the callers shared, stored and cleared   *)
(* the cached one between them.                                            *)
(***************************************************************************)
OneTypoIsForgiven ==
    \A c \in Callers : outcome[c] = "incorrect" /\ ~quoted[c] => typos >= 2

(***************************************************************************)
(* Every question is answered and every call returns while the program     *)
(* runs: boxes that open over one another are closed one after another.    *)
(***************************************************************************)
CallReturns == \A c \in Callers : InCall(c) ~> ~InCall(c) \/ ~alive
============================================================================
