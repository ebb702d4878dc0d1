------------------------ MODULE WorkExecutorProofs ------------------------
(***************************************************************************)
(* What WorkCppExecutor::run promises for every plan, proved.              *)
(***************************************************************************)
EXTENDS WorkExecutor, TLAPS

StepSet == [kind : Kinds, op : STRING]

(* A step is in progress, or the commands of a failed check are. *)
InStep == status \in {"busy", "chown", "overlay"}

(* A failure of a required step that did not end the call at once is about  *)
(* to be met by the check that follows the step.                            *)
CheckWillFail ==
    /\ status \in {"running", "busy"} /\ at <= Len(plan)
    /\ \/ plan[at].kind = "checkLine" /\ ~lineOk
       \/ plan[at].kind = "checkRoot" /\ ~rootOk

MissedIsMet ==
    missed /\ ~aborted /\ status \in {"running", "busy", "returned"} => CheckWillFail

LateIsBounded ==
    /\ late <= 1
    /\ status = "busy" => late = 0
    /\ Active /\ ~stop => late = 0

AbortsAreMarked ==
    /\ ~aborted => \A i \in 1..Len(plan) : i < at => plan[i].kind # "abort"
    /\ status = "returned" /\ ~aborted => at = Len(plan) + 1

(* The inductive invariant. *)
ExecutorInv ==
    /\ ExecutorTypeOK
    /\ InStep => at <= Len(plan)
    /\ MissedIsMet
    /\ LateIsBounded
    /\ AbortsAreMarked

USE PlansAssumption, ExitsOnDeniedAssumption

(* A required command line or tolerated root command has its check at the next place. *)
LEMMA RequiredIsChecked ==
    ASSUME NEW p \in Seq(StepSet), NEW i \in 1..Len(p), Required(p, i)
    PROVE  \/ p[i].kind \in {"strict", "embed"}
           \/ p[i].kind = "line" /\ i + 1 <= Len(p) /\ p[i + 1].kind = "checkLine"
           \/ p[i].kind = "tolerant" /\ i + 1 <= Len(p) /\ p[i + 1].kind = "checkRoot"
  BY DEF Required

(* run() starts from a state of the invariant. *)
LEMMA ExecutorInitInv == ExecutorInit => ExecutorInv
  <1> SUFFICES ASSUME ExecutorInit PROVE ExecutorInv
    OBVIOUS
  <1>1. <<>> \in Seq(StepSet) /\ Len(<<>>) = 0 /\ 1 \in 1..(Len(<<>>) + 1)
    OBVIOUS
  <1>2. ExecutorTypeOK
    <2>1. plan \in Seq(StepSet) /\ at \in 1..(Len(plan) + 1)
      BY <1>1 DEF ExecutorInit
    <2> QED
      BY <2>1 DEF ExecutorInit, ExecutorTypeOK, StepSet
  <1>3. InStep => at <= Len(plan)
    BY DEF ExecutorInit, InStep
  <1>4. MissedIsMet /\ LateIsBounded
    BY DEF ExecutorInit, MissedIsMet, LateIsBounded
  <1>5. AbortsAreMarked
    BY <1>1 DEF ExecutorInit, AbortsAreMarked
  <1> QED
    BY <1>2, <1>3, <1>4, <1>5 DEF ExecutorInv

(* Entering run() with a new plan. *)
LEMMA CallInv == ASSUME ExecutorInv, NEW p \in Plans, Call(p) PROVE ExecutorInv'
  <1>1. p \in Seq(StepSet)
    BY DEF StepSet
  <1>2. Len(p) \in Nat
    BY <1>1
  <1>3. ExecutorTypeOK'
    <2>1. plan' \in Seq(StepSet) /\ at' \in 1..(Len(plan') + 1)
      BY <1>1, <1>2 DEF Call
    <2>2. stop' \in BOOLEAN
      BY DEF Call, ExecutorInv, ExecutorTypeOK
    <2> QED
      BY <2>1, <2>2 DEF Call, ExecutorTypeOK, StepSet
  <1>4. (InStep => at <= Len(plan))'
    BY DEF Call, InStep
  <1>5. MissedIsMet' /\ LateIsBounded'
    BY DEF Call, MissedIsMet, LateIsBounded, Active
  <1>6. AbortsAreMarked'
    BY <1>2 DEF Call, AbortsAreMarked
  <1> QED
    BY <1>3, <1>4, <1>5, <1>6 DEF ExecutorInv

(* The head of the loop: stop, run off the end, or begin a step. *)
LEMMA HeadInv == ASSUME ExecutorInv, HeadStop \/ HeadEnd \/ HeadStart PROVE ExecutorInv'
  <1> USE DEF HeadStop, HeadEnd, HeadStart, ExecutorInv
  <1>1. plan' = plan /\ Len(plan) \in Nat /\ at \in 1..(Len(plan) + 1)
    BY DEF ExecutorTypeOK
  <1>2. ExecutorTypeOK'
    BY <1>1 DEF ExecutorTypeOK, InStep
  <1>3. (InStep => at <= Len(plan))'
    BY <1>1 DEF InStep
  <1>4. MissedIsMet'
    <2>1. CASE HeadStop
      BY <2>1 DEF MissedIsMet
    <2>2. CASE HeadEnd
      <3>1. ~(at <= Len(plan))
        BY <2>2, <1>1
      <3> QED
        BY <2>2, <3>1 DEF MissedIsMet, CheckWillFail
    <2>3. CASE HeadStart
      BY <2>3, <1>1 DEF MissedIsMet, CheckWillFail
    <2> QED
      BY <2>1, <2>2, <2>3
  <1>5. LateIsBounded'
    BY <1>1 DEF LateIsBounded, Active
  <1>6. AbortsAreMarked'
    BY <1>1 DEF AbortsAreMarked
  <1> QED
    BY <1>2, <1>3, <1>4, <1>5, <1>6

(* The two commands of a failed check. *)
LEMMA FailedCheckInv ==
    ASSUME ExecutorInv, NEW out \in Outcomes,
           FailedCheckChown(out) \/ FailedCheckOverlay(out)
    PROVE  ExecutorInv'
  <1> USE DEF FailedCheckChown, FailedCheckOverlay, Die, GiveUp, ExecutorInv
  <1>1. plan' = plan /\ Len(plan) \in Nat /\ at \in 1..(Len(plan) + 1)
    BY DEF ExecutorTypeOK
  <1>2. ExecutorTypeOK'
    BY <1>1 DEF ExecutorTypeOK, InStep
  <1>3. (InStep => at <= Len(plan))'
    BY <1>1 DEF InStep
  <1>4. MissedIsMet'
    BY <1>1 DEF MissedIsMet, CheckWillFail
  <1>5. LateIsBounded'
    BY <1>1 DEF LateIsBounded, Active
  <1>6. AbortsAreMarked'
    BY <1>1 DEF AbortsAreMarked
  <1> QED
    BY <1>2, <1>3, <1>4, <1>5, <1>6

(* The flag is raised or reset. *)
LEMMA FlagInv == ASSUME ExecutorInv, RequestStop \/ ResetStop PROVE ExecutorInv'
  <1> USE DEF RequestStop, ResetStop, Idle, callVars, ExecutorInv
  <1>1. plan' = plan /\ Len(plan) \in Nat /\ at \in 1..(Len(plan) + 1)
    BY DEF ExecutorTypeOK
  <1>2. ExecutorTypeOK'
    BY <1>1 DEF ExecutorTypeOK, InStep
  <1>3. (InStep => at <= Len(plan))'
    BY <1>1 DEF InStep
  <1>4. MissedIsMet'
    BY <1>1 DEF MissedIsMet, CheckWillFail
  <1>5. LateIsBounded'
    BY <1>1 DEF LateIsBounded, Active
  <1>6. AbortsAreMarked'
    BY <1>1 DEF AbortsAreMarked
  <1> QED
    BY <1>2, <1>3, <1>4, <1>5, <1>6

(* A step comes out, by the kind of step. *)
LEMMA FinishInv == ASSUME ExecutorInv, NEW out \in Outcomes, Finish(out) PROVE ExecutorInv'
  <1> DEFINE k == plan[at].kind
  <1>1. /\ plan \in Seq(StepSet) /\ Len(plan) \in Nat
        /\ at \in 1..Len(plan) /\ status = "busy" /\ late = 0
        /\ plan' = plan /\ stop' = stop
        /\ late' \in {0, 1} /\ (~stop => late' = 0)
        /\ missed' = (missed \/ (out # "ok" /\ Required(plan, at)))
    BY DEF ExecutorInv, ExecutorTypeOK, StepSet, InStep, LateIsBounded, Finish, Note, Active
  <1>2. out # "ok" /\ Required(plan, at) =>
           \/ k \in {"strict", "embed"}
           \/ k = "line" /\ at + 1 <= Len(plan) /\ plan[at + 1].kind = "checkLine"
           \/ k = "tolerant" /\ at + 1 <= Len(plan) /\ plan[at + 1].kind = "checkRoot"
    BY <1>1, RequiredIsChecked
  <1>3. missed /\ ~aborted =>
           \/ (k = "checkLine" /\ ~lineOk)
           \/ (k = "checkRoot" /\ ~rootOk)
    BY <1>1 DEF ExecutorInv, MissedIsMet, CheckWillFail
  <1>4. /\ at' \in {at, at + 1} /\ status' \in {"running", "returned", "exited", "chown"}
        /\ lineOk' \in BOOLEAN /\ rootOk' \in BOOLEAN /\ aborted' \in BOOLEAN
        /\ (status' = "chown" => at' = at)
    BY <1>1 DEF Finish, FinishQuiet, FinishSure, FinishAbort, FinishCheckRoot, FinishCheckLine,
          FinishLine, FinishEmbed, FinishRoot, Advance, GiveUp, Die, Current, ExecutorInv,
          ExecutorTypeOK
  <1>5. ExecutorTypeOK'
    BY <1>1, <1>4 DEF ExecutorInv, ExecutorTypeOK, StepSet, Required
  <1>6. (InStep => at <= Len(plan))'
    BY <1>1, <1>4 DEF InStep
  <1>7. LateIsBounded'
    BY <1>1, <1>4 DEF LateIsBounded, Active
  <1>8. MissedIsMet'
    <2> SUFFICES ASSUME missed', ~aborted', status' \in {"running", "returned"}
                 PROVE  /\ status' = "running" /\ at' <= Len(plan)
                        /\ \/ plan[at'].kind = "checkLine" /\ ~lineOk'
                           \/ plan[at'].kind = "checkRoot" /\ ~rootOk'
      BY <1>1, <1>4 DEF MissedIsMet, CheckWillFail
    <2>1. ~aborted
      BY <1>1 DEF Finish, FinishQuiet, FinishSure, FinishAbort, FinishCheckRoot, FinishCheckLine,
            FinishLine, FinishEmbed, FinishRoot, Advance, GiveUp, Die, Current
    <2>2. CASE missed
      <3>1. (k = "checkLine" /\ ~lineOk) \/ (k = "checkRoot" /\ ~rootOk)
        BY <2>1, <2>2, <1>3
      <3>2. aborted' \/ status' = "chown"
        BY <3>1, <1>1 DEF Finish, FinishQuiet, FinishSure, FinishAbort, FinishCheckRoot,
              FinishCheckLine, FinishLine, FinishEmbed, FinishRoot, GiveUp, Current, RootKinds
      <3> QED
        BY <3>2
    <2>3. CASE ~missed
      <3>1. out # "ok" /\ Required(plan, at)
        BY <2>3, <1>1
      <3>2. CASE k \in {"strict", "embed"}
        <4>1. aborted' \/ status' = "exited"
          BY <3>1, <3>2, <1>1 DEF Finish, FinishLine, FinishEmbed, FinishRoot, GiveUp, Die, Current
        <4> QED
          BY <4>1
      <3>3. CASE k = "line" /\ at + 1 <= Len(plan) /\ plan[at + 1].kind = "checkLine"
        <4>1. at' = at + 1 /\ status' = "running" /\ lineOk' = FALSE
          BY <3>1, <3>3, <1>1 DEF Finish, FinishLine, FinishEmbed, FinishRoot, Advance, Current,
                RootKinds
        <4> QED
          BY <4>1, <3>3
      <3>4. CASE k = "tolerant" /\ at + 1 <= Len(plan) /\ plan[at + 1].kind = "checkRoot"
        <4>1. at' = at + 1 /\ status' = "running" /\ rootOk' = FALSE
          BY <3>1, <3>4, <1>1, <2>1 DEF Finish, FinishLine, FinishEmbed, FinishRoot, Advance, GiveUp,
                Die, Current, RootKinds
        <4> QED
          BY <4>1, <3>4
      <3> QED
        BY <3>1, <3>2, <3>3, <3>4, <1>2
    <2> QED
      BY <2>2, <2>3 DEF ExecutorInv, ExecutorTypeOK
  <1>9. AbortsAreMarked'
    <2>1. ~aborted' => ~aborted /\ (at' = at + 1 => k # "abort")
      BY <1>1 DEF Finish, FinishQuiet, FinishSure, FinishAbort, FinishCheckRoot, FinishCheckLine,
            FinishLine, FinishEmbed, FinishRoot, Advance, GiveUp, Die, Current, RootKinds
    <2>2. status' = "returned" => aborted'
      BY <1>1 DEF Finish, FinishQuiet, FinishSure, FinishAbort, FinishCheckRoot, FinishCheckLine,
            FinishLine, FinishEmbed, FinishRoot, Advance, GiveUp, Die, Current
    <2> QED
      BY <1>1, <1>4, <2>1, <2>2 DEF AbortsAreMarked, ExecutorInv
  <1> QED
    BY <1>5, <1>6, <1>7, <1>8, <1>9 DEF ExecutorInv

(* Every step of the executor preserves the invariant. *)
LEMMA ExecutorNextInv == ExecutorInv /\ [ExecutorNext]_executorVars => ExecutorInv'
  <1> SUFFICES ASSUME ExecutorInv, [ExecutorNext]_executorVars PROVE ExecutorInv'
    OBVIOUS
  <1>1. CASE \E p \in Plans : Call(p)
    BY <1>1, CallInv
  <1>2. CASE CallStep
    BY <1>2, HeadInv, FinishInv, FailedCheckInv DEF CallStep
  <1>3. CASE RequestStop \/ ResetStop
    BY <1>3, FlagInv
  <1>4. CASE Restart
    <2>1. (ExecutorInit => ExecutorInv)'
      BY ExecutorInitInv, PTL
    <2> QED
      BY <1>4, <2>1 DEF Restart, ExecutorInit
  <1>5. CASE UNCHANGED executorVars
    BY <1>5 DEF executorVars, callVars, ExecutorInv, ExecutorTypeOK, InStep, MissedIsMet,
          CheckWillFail, LateIsBounded, AbortsAreMarked, Active
  <1> QED
    BY <1>1, <1>2, <1>3, <1>4, <1>5 DEF ExecutorNext

(* The invariant holds in every behaviour of the executor. *)
THEOREM ExecutorInvariant == ExecutorSpec => []ExecutorInv
  BY ExecutorInitInv, ExecutorNextInv, PTL DEF ExecutorSpec

(***************************************************************************)
(* The variables of run() keep their types, and the loop index never       *)
(* leaves the plan by more than one, whatever the plan.                    *)
(***************************************************************************)
THEOREM ExecutorTypes == ExecutorSpec => []ExecutorTypeOK
  <1>1. ExecutorInv => ExecutorTypeOK
    BY DEF ExecutorInv
  <1> QED
    BY <1>1, ExecutorInvariant, PTL

(***************************************************************************)
(* For every plan: if run() returns without aborted, then every command    *)
(* the plan cannot do without has succeeded.                               *)
(***************************************************************************)
THEOREM ExecutorSuccess == ExecutorSpec => []SuccessMeansRequiredDone
  <1>1. ExecutorInv => SuccessMeansRequiredDone
    BY DEF ExecutorInv, MissedIsMet, CheckWillFail, SuccessMeansRequiredDone
  <1> QED
    BY <1>1, ExecutorInvariant, PTL

(* For every plan: at most one step is carried out under a raised stop flag. *)
THEOREM ExecutorStop == ExecutorSpec => []StopBoundsWork
  <1>1. ExecutorInv => StopBoundsWork
    BY DEF ExecutorInv, LateIsBounded, StopBoundsWork
  <1> QED
    BY <1>1, ExecutorInvariant, PTL

(* For every plan: a plan with an Abort step is never reported as a success. *)
THEOREM ExecutorAborts == ExecutorSpec => []AbortedPlanNeverSucceeds
  <1>1. ExecutorInv => AbortedPlanNeverSucceeds
    BY DEF ExecutorInv, AbortsAreMarked, ExecutorTypeOK, AbortedPlanNeverSucceeds
  <1> QED
    BY <1>1, ExecutorInvariant, PTL
============================================================================
