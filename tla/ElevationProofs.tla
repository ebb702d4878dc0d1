-------------------------- MODULE ElevationProofs --------------------------
(***************************************************************************)
(* What CommandRunner::helperProc and askPasswordOnGuiThread keep, for any *)
(* way of becoming root and any number of calls of the two threads.        *)
(***************************************************************************)
EXTENDS Elevation, TLAPS

(* A call returns its outcome at its end, and executes only as it attempts. *)
CallOK(c) ==
    /\ InCall(c) => outcome[c] = "none" /\ (quoted[c] \/ ran[c] = 0)
    /\ pc[c] = "called" => attempt[c] = 0 /\ ran[c] = 0 /\ ~quoted[c]
    /\ pc[c] \in {"posted", "box", "typed", "refused"} => way = "sudo"
    /\ pc[c] \in {"posted", "box", "typed", "spawn", "running"} =>
          IF way = "sudo" THEN ran[c] + 1 <= attempt[c] ELSE ran[c] = 0
    /\ pc[c] = "refused" => ran[c] <= attempt[c]
    /\ pc[c] = "typed" \/ (pc[c] = "spawn" /\ way = "sudo") => password[c] \in Typed
    /\ way # "sudo" => password[c] = "none"
    /\ ~quoted[c] =>
          /\ ran[c] <= 1
          /\ outcome[c] = "ran" => ran[c] = 1
          /\ outcome[c] \in {"failed", "required", "incorrect"} => ran[c] = 0

CallsOK == \A c \in Callers : CallOK(c)

(* The second attempt of a call that was refused once, and who holds a wrong password. *)
TriedBefore(c) == InCall(c) /\ ~quoted[c] /\ attempt[c] = 2
Holds(c) == pc[c] \in {"spawn", "running", "refused"} /\ password[c] = "wrong"

(***************************************************************************)
(* Every wrong password around was typed, and the one a call meets behind  *)
(* a refusal is not the one that was refused: that was cleared.            *)
(***************************************************************************)
TypoOK(c, d) ==
    /\ cache = "wrong" => typos >= 1
    /\ pc[c] = "typed" /\ pc[d] = "typed" => c = d
    /\ pc[c] = "typed" /\ password[c] = "wrong" => typos >= 1
    /\ Holds(c) => typos >= 1
    /\ pc[c] = "refused" /\ ~quoted[c] => password[c] = "wrong"
    /\ TriedBefore(c) =>
          /\ typos >= 1
          /\ pc[c] \in {"posted", "box"} /\ cache = "wrong" => typos >= 2
          /\ pc[c] = "typed" /\ password[c] = "wrong" => typos >= 2
          /\ Holds(c) => typos >= 2
    /\ outcome[c] = "incorrect" /\ ~quoted[c] => typos >= 2
    /\ c # d /\ pc[d] = "typed" /\ password[d] = "wrong" /\ (TriedBefore(c) \/ Holds(c)) =>
          typos >= 2

TyposOK == \A c, d \in Callers : TypoOK(c, d)

ElevationInv == ElevationTypeOK /\ CallsOK /\ TyposOK

USE ElevationAssumption DEF ElevationAssumption

LEMMA ElevationStart == ElevationInit => ElevationInv
  <1> SUFFICES ASSUME ElevationInit PROVE ElevationInv
    OBVIOUS
  <1> USE DEF ElevationInit, Each, Attempts
  <1>1. ElevationTypeOK
    <2>1. boxes \in Seq(Callers)
      OBVIOUS
    <2>2. pc \in [Callers -> {"idle"}] /\ password \in [Callers -> {"none"}]
          /\ outcome \in [Callers -> {"none"}] /\ quoted \in [Callers -> {FALSE}]
          /\ attempt \in [Callers -> {0}] /\ calls \in [Callers -> {0}] /\ ran \in [Callers -> {0}]
      OBVIOUS
    <2>3. 0 \in 0..MaxCalls /\ 0 \in 0..2
      OBVIOUS
    <2> QED
      BY <2>1, <2>2, <2>3 DEF ElevationTypeOK
  <1>2. CallsOK
    BY DEF CallsOK, CallOK, InCall
  <1>3. TyposOK
    BY DEF TyposOK, TypoOK, InCall, TriedBefore, Holds
  <1> QED
    BY <1>1, <1>2, <1>3 DEF ElevationInv

LEMMA CallsKept == ElevationInv /\ [ElevationNext]_elevationVars => CallsOK'
  <1> SUFFICES ASSUME ElevationInv, [ElevationNext]_elevationVars, NEW d \in Callers
               PROVE CallOK(d)'
    BY DEF CallsOK
  <1> USE DEF ElevationInv, ElevationTypeOK, CallsOK, CallOK, InCall, Goes, Returns, Enter, Attempts, Typed,
              sharedVars, callVars, historyVars, Executed, Again
  <1>1. CASE Call \/ Cancel
    BY <1>1 DEF Call, Cancel, Callers
  <1>2. CASE ResetStop \/ Quit \/ StampExpires \/ UNCHANGED elevationVars
    BY <1>2 DEF ResetStop, Quit, StampExpires, elevationVars
  <1>3. ASSUME NEW c \in Callers, Caller(c) PROVE CallOK(d)'
    <2>1. CASE CannotElevate(c) \/ Directly(c) \/ Ask(c)
      BY <2>1 DEF CannotElevate, Directly, Ask
    <2>2. CASE Authenticate(c)
      BY <2>2 DEF Authenticate
    <2>3. CASE Refuse(c)
      <3>1. /\ pc' = [pc EXCEPT ![c] = "refused"] /\ pc[c] = "spawn" /\ way = "sudo"
            /\ UNCHANGED <<way, ran, quoted, outcome, attempt, password>>
        BY <2>3 DEF Refuse, Accepted
      <3>2. ran[c] \in 0..2 /\ attempt[c] \in 0..2 /\ CallOK(c) /\ CallOK(d)
        BY <1>3
      <3> QED
        BY <3>1, <3>2
    <2>4. CASE CutShort(c) \/ CutShortAtOnce(c) \/ Interrupted(c)
      BY <2>4 DEF CutShort, CutShortAtOnce, Interrupted
    <2>5. CASE Finish(c) \/ FinishQuoting(c) \/ ElevationError(c)
      BY <2>5 DEF Finish, FinishQuoting, ElevationError
    <2>6. CASE Invalidate(c)
      <3>1. CASE attempt[c] < 2
        <4>1. /\ pc' = [pc EXCEPT ![c] = "posted"] /\ attempt' = [attempt EXCEPT ![c] = attempt[c] + 1]
              /\ pc[c] = "refused" /\ UNCHANGED <<way, ran, quoted, outcome, password>>
          BY <2>6, <3>1 DEF Invalidate
        <4> QED
          BY <4>1
      <3>2. CASE ~(attempt[c] < 2)
        <4>1. /\ pc' = [pc EXCEPT ![c] = "returned"] /\ outcome' = [outcome EXCEPT ![c] = "incorrect"]
              /\ pc[c] = "refused" /\ UNCHANGED <<way, ran, quoted, attempt, password>>
          BY <2>6, <3>2 DEF Invalidate
        <4> QED
          BY <4>1
      <3> QED
        BY <3>1, <3>2
    <2> QED
      BY <1>3, <2>1, <2>2, <2>3, <2>4, <2>5, <2>6 DEF Caller
  <1>4. ASSUME NEW c \in Callers, GuiThread(c) PROVE CallOK(d)'
    <2>1. CASE LookUp(c)
      BY <2>1 DEF LookUp
    <2>2. CASE OpenBox(c)
      BY <2>2 DEF OpenBox
    <2>3. CASE Dismiss(c)
      BY <2>3 DEF Dismiss
    <2>4. CASE Store(c)
      BY <2>4 DEF Store
    <2>5. ASSUME NEW p \in Typed, Type(c, p) PROVE CallOK(d)'
      BY <2>5 DEF Type
    <2> QED
      BY <1>4, <2>1, <2>2, <2>3, <2>4, <2>5 DEF GuiThread
  <1> QED
    BY <1>1, <1>2, <1>3, <1>4 DEF ElevationNext

LEMMA ElevationTypesKept ==
  ElevationInv /\ [ElevationNext]_elevationVars => ElevationTypeOK'
  <1> SUFFICES ASSUME ElevationInv, [ElevationNext]_elevationVars PROVE ElevationTypeOK'
    OBVIOUS
  <1> USE DEF ElevationInv, ElevationTypeOK, CallsOK, CallOK, InCall, Goes, Returns, Enter, Attempts,
              sharedVars, callVars, historyVars, Executed, Again
  <1>1. CASE Call
    BY <1>1 DEF Call, Callers
  <1>2. CASE Cancel
    BY <1>2 DEF Cancel, Callers
  <1>3. CASE ResetStop \/ Quit \/ StampExpires \/ UNCHANGED elevationVars
    BY <1>3 DEF ResetStop, Quit, StampExpires, elevationVars
  <1>4. ASSUME NEW c \in Callers, Caller(c) PROVE ElevationTypeOK'
    <2>1. CASE CannotElevate(c) \/ Directly(c)
      BY <2>1 DEF CannotElevate, Directly
    <2>2. CASE Ask(c)
      BY <2>2 DEF Ask
    <2>3. CASE Authenticate(c) \/ Refuse(c)
      BY <2>3 DEF Authenticate, Refuse
    <2>4. pc[c] \in {"spawn", "running"} => ran[c] + 1 \in 0..2
      <3>1. attempt[c] \in 0..2 /\ ran[c] \in 0..2 /\ CallOK(c)
        BY <1>4
      <3> QED
        BY <3>1
    <2>5. CASE CutShort(c)
      BY <2>4, <2>5 DEF CutShort
    <2>6. CASE CutShortAtOnce(c)
      BY <2>6 DEF CutShortAtOnce
    <2>7. CASE Interrupted(c)
      BY <2>4, <2>7 DEF Interrupted
    <2>8. CASE Finish(c)
      BY <2>4, <2>8 DEF Finish
    <2>9. CASE FinishQuoting(c)
      BY <2>4, <2>9 DEF FinishQuoting
    <2>10. CASE ElevationError(c)
      BY <2>10 DEF ElevationError
    <2>11. CASE Invalidate(c)
      <3>1. CASE attempt[c] < 2
        <4>1. attempt[c] \in 0..2
          BY <1>4
        <4>2. attempt[c] + 1 \in 0..2
          BY <3>1, <4>1
        <4>3. /\ pc' = [pc EXCEPT ![c] = "posted"] /\ attempt' = [attempt EXCEPT ![c] = attempt[c] + 1]
              /\ cache' = "none"
              /\ UNCHANGED <<way, alive, stop, stamp, boxes, outcome, password, calls, historyVars>>
          BY <2>11, <3>1 DEF Invalidate
        <4>4. pc' \in [Callers -> {"idle", "called", "posted", "box", "typed", "spawn", "running",
                                  "refused", "returned"}] /\ attempt' \in [Callers -> 0..2]
          BY <4>2, <4>3
        <4> QED
          BY <4>3, <4>4
      <3>2. CASE ~(attempt[c] < 2)
        BY <2>11, <3>2, ZenonT(60) DEF Invalidate
      <3> QED
        BY <3>1, <3>2
    <2> QED
      BY <1>4, <2>1, <2>2, <2>3, <2>5, <2>6, <2>7, <2>8, <2>9, <2>10, <2>11 DEF Caller
  <1>5. ASSUME NEW c \in Callers, GuiThread(c) PROVE ElevationTypeOK'
    <2>1. CASE LookUp(c)
      BY <2>1 DEF LookUp
    <2>2. CASE OpenBox(c)
      BY <2>2 DEF OpenBox
    <2>3. CASE Dismiss(c)
      BY <2>3 DEF Dismiss, Uppermost
    <2>4. CASE Store(c)
      BY <2>4 DEF Store
    <2>5. ASSUME NEW p \in Typed, Type(c, p) PROVE ElevationTypeOK'
      BY <2>5 DEF Type, Uppermost
    <2> QED
      BY <1>5, <2>1, <2>2, <2>3, <2>4, <2>5 DEF GuiThread
  <1> QED
    BY <1>1, <1>2, <1>3, <1>4, <1>5 DEF ElevationNext

LEMMA TyposKept == ElevationInv /\ [ElevationNext]_elevationVars => TyposOK'
  <1> SUFFICES ASSUME ElevationInv, [ElevationNext]_elevationVars,
                      NEW e \in Callers, NEW f \in Callers
               PROVE TypoOK(e, f)'
    BY DEF TyposOK
  <1> USE DEF ElevationInv, ElevationTypeOK, TyposOK, TypoOK, TriedBefore, Holds, InCall, Goes, Returns,
              Enter, Attempts, sharedVars, callVars, historyVars, Executed, Again
  <1>1. CASE Call \/ Cancel
    BY <1>1 DEF Call, Cancel, Callers
  <1>2. CASE ResetStop \/ Quit \/ StampExpires \/ UNCHANGED elevationVars
    BY <1>2 DEF ResetStop, Quit, StampExpires, elevationVars
  <1>3. ASSUME NEW c \in Callers, Caller(c) PROVE TypoOK(e, f)'
    <2>1. CASE CannotElevate(c)
      BY <2>1 DEF CannotElevate
    <2>2. CASE Directly(c)
      BY <2>2 DEF Directly, CallsOK, CallOK
    <2>3. CASE Ask(c)
      BY <2>3 DEF Ask, CallsOK, CallOK
    <2>4. CASE Authenticate(c)
      BY <2>4 DEF Authenticate
    <2>5. CASE Refuse(c)
      BY <2>5 DEF Refuse, Accepted, CallsOK, CallOK, Typed
    <2>6. CASE CutShort(c) \/ CutShortAtOnce(c) \/ Interrupted(c)
      BY <2>6 DEF CutShort, CutShortAtOnce, Interrupted
    <2>7. CASE Finish(c)
      BY <2>7 DEF Finish
    <2>8. CASE FinishQuoting(c)
      <3>1. /\ pc' = [pc EXCEPT ![c] = "refused"] /\ quoted' = [quoted EXCEPT ![c] = TRUE]
            /\ pc[c] = "running" /\ UNCHANGED <<cache, attempt, password, outcome, typos>>
        BY <2>8 DEF FinishQuoting
      <3>2. quoted'[c] = TRUE
        BY <3>1
      <3> QED
        BY <3>1, <3>2
    <2>9. CASE ElevationError(c)
      BY <2>9 DEF ElevationError
    <2>10. CASE Invalidate(c)
      <3>1. /\ cache' = "none" /\ pc[c] = "refused" /\ UNCHANGED <<quoted, password, typos>>
            /\ attempt[c] \in 0..2
        BY <1>3, <2>10 DEF Invalidate
      <3>2. CASE attempt[c] < 2
        <4>1. /\ pc' = [pc EXCEPT ![c] = "posted"] /\ UNCHANGED outcome
              /\ attempt' = [attempt EXCEPT ![c] = attempt[c] + 1]
          BY <2>10, <3>2 DEF Invalidate
        <4> QED
          BY <3>1, <4>1
      <3>3. CASE ~(attempt[c] < 2)
        <4>1. /\ pc' = [pc EXCEPT ![c] = "returned"] /\ UNCHANGED attempt
              /\ outcome' = [outcome EXCEPT ![c] = "incorrect"] /\ attempt[c] = 2
          BY <2>10, <3>1, <3>3 DEF Invalidate
        <4> QED
          BY <3>1, <4>1
      <3> QED
        BY <3>2, <3>3
    <2> QED
      BY <1>3, <2>1, <2>2, <2>3, <2>4, <2>5, <2>6, <2>7, <2>8, <2>9, <2>10 DEF Caller
  <1>4. ASSUME NEW c \in Callers, GuiThread(c) PROVE TypoOK(e, f)'
    <2>1. CASE LookUp(c)
      BY <2>1 DEF LookUp, GuiIsFree
    <2>2. CASE OpenBox(c)
      BY <2>2 DEF OpenBox
    <2>3. CASE Dismiss(c)
      BY <2>3 DEF Dismiss
    <2>4. CASE Store(c)
      BY <2>4 DEF Store
    <2>5. ASSUME NEW p \in Typed, Type(c, p) PROVE TypoOK(e, f)'
      BY <2>5 DEF Type, GuiIsFree
    <2> QED
      BY <1>4, <2>1, <2>2, <2>3, <2>4, <2>5 DEF GuiThread
  <1> QED
    BY <1>1, <1>2, <1>3, <1>4 DEF ElevationNext

(* The invariant above holds of every behaviour of the two callers and the GUI thread. *)
THEOREM ElevationIsKept == ElevationSpec => []ElevationInv
  <1>1. ElevationInv /\ [ElevationNext]_elevationVars => ElevationInv'
    BY ElevationTypesKept, CallsKept, TyposKept DEF ElevationInv
  <1> QED
    BY ElevationStart, <1>1, PTL DEF ElevationSpec

(* What the cache, the boxes and the calls may hold; no call has a third attempt. *)
THEOREM ElevationTypes == ElevationSpec => []ElevationTypeOK
  BY ElevationIsKept, PTL DEF ElevationInv

(***************************************************************************)
(* helperProc executes a command once and says so, unless the command's    *)
(* own output was taken for a refused password or a cancel cut it short.   *)
(***************************************************************************)
THEOREM ElevationReports == ElevationSpec => []ReportedAsItWent
  <1>1. ElevationInv => ReportedAsItWent
    BY DEF ElevationInv, CallsOK, CallOK, ReportedAsItWent
  <1> QED
    BY ElevationIsKept, <1>1, PTL

(***************************************************************************)
(* A call says "incorrect password" only behind two mistyped ones: the     *)
(* refused one was cleared before the second attempt looked it up.         *)
(***************************************************************************)
THEOREM ElevationForgives == ElevationSpec => []OneTypoIsForgiven
  <1>1. ElevationInv => OneTypoIsForgiven
    BY DEF ElevationInv, TyposOK, TypoOK, OneTypoIsForgiven
  <1> QED
    BY ElevationIsKept, <1>1, PTL
============================================================================
