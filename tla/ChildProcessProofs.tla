------------------------- MODULE ChildProcessProofs -------------------------
(***************************************************************************)
(* What run_impl of process_runner.cpp keeps, for pipes of any capacity,   *)
(* any length of input and any amount of output.                           *)
(***************************************************************************)
EXTENDS ChildProcess, TLAPS

(* The child that the parent is busy with, and what it has to end for. *)
StageOK ==
    /\ pc # "returned" => result = "none"
    /\ pc = "idle" => child = "none"
    /\ pc \in {"handshake", "head", "round", "terminating", "reaping"} =>
          child \in {"forked", "alive", "zombie"}
    /\ pc = "returned" => child \in {"none", "reaped"} \/ result = "pollError"
    /\ child \in {"none", "forked", "alive"} <=> fate = "none"
    /\ result = "normal" => fate \in {"exit", "noexec"}
    /\ result = "crash" => fate = "signal"
    /\ result = "notStarted" => fate \in {"none", "noexec"}

(* What poll said of a pipe stays true until the pipe is served. *)
RoundOK ==
    /\ ready \subseteq open
    /\ pc \notin {"round", "dead"} => ready = {}
    /\ "in" \in ready => unsent > 0 /\ (inside["in"] < Capacity \/ Broken)
    /\ \A s \in Streams : s \in ready /\ inside[s] = 0 => s \notin held

(* Where the bytes are: no pipe is closed over what is still to come. *)
BytesOK ==
    /\ \A s \in Streams : got[s] + inside[s] = written[s]
    /\ \A s \in Streams : s \notin open => inside[s] = 0 /\ s \notin held
    /\ child \in {"none", "forked"} => act = "none"
    /\ act \in Pipes => act \in held
    /\ written["out"] + written["err"] <= MaxOutput
    /\ act \in Streams => written["out"] + written["err"] < MaxOutput
    /\ result \in {"normal", "crash"} => \A s \in Streams : inside[s] = 0

ChildInv == ChildProcessTypeOK /\ StageOK /\ RoundOK /\ BytesOK

USE BoundsAssumption DEF BoundsAssumption

LEMMA ChildInit == ChildProcessInit => ChildInv
  <1> SUFFICES ASSUME ChildProcessInit PROVE ChildInv
    OBVIOUS
  <1> USE DEF ChildProcessInit, Zero, Streams, Pipes
  <1>1. ChildProcessTypeOK
    <2>1. Zero \in [Streams -> 0..MaxOutput] /\ [p \in Pipes |-> 0] \in [Pipes -> 0..Capacity]
      OBVIOUS
    <2>2. {} \subseteq Pipes /\ kept \subseteq Pipes
      OBVIOUS
    <2> QED
      BY <2>1, <2>2 DEF ChildProcessTypeOK
  <1>2. StageOK /\ RoundOK /\ BytesOK
    BY DEF StageOK, RoundOK, BytesOK
  <1> QED
    BY <1>1, <1>2 DEF ChildInv

LEMMA ChildStepKeepsStage == ChildInv /\ [ChildProcessNext]_childProcessVars => StageOK'
  <1> SUFFICES ASSUME ChildInv, [ChildProcessNext]_childProcessVars PROVE StageOK'
    OBVIOUS
  <1> USE DEF ChildInv, ChildProcessTypeOK, StageOK, RoundOK, Return, Reap, Killed, Terminable,
              Quietly, Lives, parentVars, childVars
  <1>1. CASE CannotStart \/ Fork \/ HandshakeErrno \/ HandshakeEnds
    BY <1>1 DEF CannotStart, Fork, HandshakeErrno, HandshakeEnds
  <1>2. CASE Interrupt \/ Destroy \/ Terminated
    BY <1>2 DEF Interrupt, Destroy, Terminated
  <1>3. CASE Poll \/ PollFails \/ Write \/ WriteBroken \/ (\E s \in Streams : Read(s)) \/ NextRound
    BY <1>3 DEF Poll, PollFails, Write, WriteBroken, Read, NextRound
  <1>4. CASE ReapAndDrain \/ ReapUnwatched
    BY <1>4 DEF ReapAndDrain, ReapUnwatched, Reported
  <1>5. CASE Exec \/ ExecFails \/ ChildEnters \/ ChildReads \/ ChildEnds
             \/ \E s \in Streams : ChildWrites(s)
    BY <1>5 DEF Exec, ExecFails, ChildEnters, ChildReads, ChildEnds, ChildWrites
  <1>6. CASE ChildCrashes \/ \E p \in Pipes : ChildCloses(p)
    BY <1>6 DEF ChildCrashes, ChildCloses
  <1>7. CASE TimePasses \/ RequestStop \/ OtherChildEnds \/ UNCHANGED childProcessVars
    BY <1>7 DEF TimePasses, RequestStop, OtherChildEnds, childProcessVars
  <1> QED
    BY <1>1, <1>2, <1>3, <1>4, <1>5, <1>6, <1>7 DEF ChildProcessNext, ParentStep, ChildStep

LEMMA ChildStepKeepsRound == ChildInv /\ [ChildProcessNext]_childProcessVars => RoundOK'
  <1> SUFFICES ASSUME ChildInv, [ChildProcessNext]_childProcessVars PROVE RoundOK'
    OBVIOUS
  <1> USE DEF ChildInv, ChildProcessTypeOK, StageOK, RoundOK, Return, Reap, Killed, Broken,
              Quietly, Lives, parentVars, childVars, Streams, Pipes
  <1>1. CASE CannotStart \/ Fork \/ HandshakeErrno \/ HandshakeEnds
    BY <1>1 DEF CannotStart, Fork, HandshakeErrno, HandshakeEnds
  <1>2. CASE Interrupt \/ Destroy \/ Terminated
    BY <1>2 DEF Interrupt, Destroy, Terminated
  <1>3. CASE Poll
    BY <1>3 DEF Poll, Watched, EndOfFile
  <1>4. CASE PollFails \/ WriteBroken \/ NextRound
    BY <1>4 DEF PollFails, WriteBroken, NextRound, CloseInput
  <1>5. CASE Write
    BY <1>5 DEF Write
  <1>6. ASSUME NEW s \in Streams, Read(s) PROVE RoundOK'
    BY <1>6 DEF Read
  <1>7. CASE ReapAndDrain \/ ReapUnwatched
    BY <1>7 DEF ReapAndDrain, ReapUnwatched
  <1>8. CASE Exec \/ ExecFails \/ ChildEnters \/ ChildEnds
    BY <1>8 DEF Exec, ExecFails, ChildEnters, ChildEnds
  <1>9. CASE ChildReads
    BY <1>9 DEF ChildReads
  <1>10. ASSUME NEW s \in Streams, ChildWrites(s) PROVE RoundOK'
    BY <1>10 DEF ChildWrites
  <1>11. CASE ChildCrashes \/ \E p \in Pipes : ChildCloses(p)
    BY <1>11 DEF ChildCrashes, ChildCloses
  <1>12. CASE TimePasses \/ RequestStop \/ OtherChildEnds \/ UNCHANGED childProcessVars
    BY <1>12 DEF TimePasses, RequestStop, OtherChildEnds, childProcessVars
  <1> QED
    BY <1>1, <1>2, <1>3, <1>4, <1>5, <1>6, <1>7, <1>8, <1>9, <1>10, <1>11, <1>12
       DEF ChildProcessNext, ParentStep, ChildStep

LEMMA ChildStepKeepsBytes == ChildInv /\ [ChildProcessNext]_childProcessVars => BytesOK'
  <1> SUFFICES ASSUME ChildInv, [ChildProcessNext]_childProcessVars PROVE BytesOK'
    OBVIOUS
  <1> USE DEF ChildInv, ChildProcessTypeOK, StageOK, RoundOK, BytesOK, Return, Reap, Killed, Broken,
              Quietly, Lives, parentVars, childVars, Streams, Pipes
  <1>1. CASE CannotStart \/ Fork \/ HandshakeErrno \/ HandshakeEnds
    BY <1>1 DEF CannotStart, Fork, HandshakeErrno, HandshakeEnds
  <1>2. CASE Interrupt \/ Destroy \/ Terminated
    BY <1>2 DEF Interrupt, Destroy, Terminated
  <1>3. CASE Poll \/ PollFails \/ WriteBroken \/ NextRound
    BY <1>3 DEF Poll, PollFails, WriteBroken, NextRound, CloseInput
  <1>4. CASE Write
    BY <1>4 DEF Write
  <1>5. ASSUME NEW s \in Streams, Read(s) PROVE BytesOK'
    BY <1>5 DEF Read
  <1>6. CASE ReapAndDrain
    BY <1>6 DEF ReapAndDrain, CloseInput
  <1>7. CASE ReapUnwatched
    BY <1>7 DEF ReapUnwatched, Watched
  <1>8. CASE Exec
    BY <1>8 DEF Exec
  <1>9. CASE ExecFails \/ ChildEnds
    BY <1>9 DEF ExecFails, ChildEnds
  <1>10. CASE ChildEnters
    BY <1>10 DEF ChildEnters
  <1>11. CASE ChildReads
    BY <1>11 DEF ChildReads
  <1>12. ASSUME NEW s \in Streams, ChildWrites(s) PROVE BytesOK'
    BY <1>12 DEF ChildWrites
  <1>13. CASE ChildCrashes \/ \E p \in Pipes : ChildCloses(p)
    BY <1>13 DEF ChildCrashes, ChildCloses
  <1>14. CASE TimePasses \/ RequestStop \/ OtherChildEnds \/ UNCHANGED childProcessVars
    BY <1>14 DEF TimePasses, RequestStop, OtherChildEnds, childProcessVars
  <1> QED
    BY <1>1, <1>2, <1>3, <1>4, <1>5, <1>6, <1>7, <1>8, <1>9, <1>10, <1>11, <1>12, <1>13, <1>14
       DEF ChildProcessNext, ParentStep, ChildStep

LEMMA ChildStepKeepsTypes ==
  ChildInv /\ [ChildProcessNext]_childProcessVars => ChildProcessTypeOK'
  <1> SUFFICES ASSUME ChildInv, [ChildProcessNext]_childProcessVars PROVE ChildProcessTypeOK'
    OBVIOUS
  <1> USE DEF ChildInv, ChildProcessTypeOK, StageOK, RoundOK, BytesOK, Return, Reap, Killed, Broken,
              Quietly, Lives, parentVars, childVars
  <1>1. CASE CannotStart \/ Fork \/ HandshakeErrno \/ HandshakeEnds
    BY <1>1 DEF CannotStart, Fork, HandshakeErrno, HandshakeEnds
  <1>2. CASE Interrupt \/ Destroy \/ Terminated
    BY <1>2 DEF Interrupt, Destroy, Terminated
  <1>3. CASE Poll \/ PollFails \/ WriteBroken \/ NextRound
    BY <1>3 DEF Poll, PollFails, WriteBroken, NextRound, CloseInput, Watched
  <1>4. CASE Write
    BY <1>4 DEF Write
  <1>5. ASSUME NEW s \in Streams, Read(s) PROVE ChildProcessTypeOK'
    BY <1>5 DEF Read
  <1>6. CASE ReapAndDrain
    BY <1>6 DEF ReapAndDrain, CloseInput, Reported
  <1>7. CASE ReapUnwatched
    BY <1>7 DEF ReapUnwatched, Reported
  <1>8. CASE Exec \/ ExecFails \/ ChildEnds
    BY <1>8 DEF Exec, ExecFails, ChildEnds
  <1>9. CASE ChildEnters
    BY <1>9 DEF ChildEnters, Pipes
  <1>10. CASE ChildReads
    BY <1>10 DEF ChildReads
  <1>11. ASSUME NEW s \in Streams, ChildWrites(s) PROVE ChildProcessTypeOK'
    <2>1. s \in Pipes /\ inside'[s] \in 0..Capacity
      BY <1>11 DEF ChildWrites, Pipes
    <2>2. written[s] + 1 \in 0..MaxOutput
      BY <1>11 DEF ChildWrites, Streams, Pipes
    <2>3. inside' \in [Pipes -> 0..Capacity] /\ written' \in [Streams -> 0..MaxOutput]
      BY <1>11, <2>1, <2>2 DEF ChildWrites
    <2> QED
      BY <1>11, <2>3 DEF ChildWrites
  <1>12. CASE ChildCrashes \/ \E p \in Pipes : ChildCloses(p)
    BY <1>12 DEF ChildCrashes, ChildCloses
  <1>13. CASE TimePasses \/ RequestStop
    BY <1>13, ZenonT(60) DEF TimePasses, RequestStop
  <1>14. CASE UNCHANGED childProcessVars
    BY <1>14 DEF childProcessVars
  <1>15. CASE OtherChildEnds
    BY <1>15 DEF OtherChildEnds
  <1> QED
    BY <1>1, <1>2, <1>3, <1>4, <1>5, <1>6, <1>7, <1>8, <1>9, <1>10, <1>11, <1>12, <1>13, <1>14, <1>15
       DEF ChildProcessNext, ParentStep, ChildStep

(* The invariant above holds of every behaviour of run_impl and its child. *)
THEOREM ChildIsKept == ChildProcessSpec => []ChildInv
  <1>1. ChildInv /\ [ChildProcessNext]_childProcessVars => ChildInv'
    BY ChildStepKeepsTypes, ChildStepKeepsStage, ChildStepKeepsRound, ChildStepKeepsBytes
       DEF ChildInv
  <1> QED
    BY ChildInit, <1>1, PTL DEF ChildProcessSpec

(* What the pipes, the texts read from them and the child may hold. *)
THEOREM ChildTypes == ChildProcessSpec => []ChildProcessTypeOK
  BY ChildIsKept, PTL DEF ChildInv

(***************************************************************************)
(* run_impl reports no end of a child before it has read all that the      *)
(* child wrote: a pipe it closed was empty and had no writer, and what is  *)
(* left in the others is drained behind the child's end.                   *)
(***************************************************************************)
THEOREM ChildOutput == ChildProcessSpec => []OutputIsComplete
  <1>1. ChildInv => OutputIsComplete
    <2> SUFFICES ASSUME ChildInv, result \in {"normal", "crash"} PROVE got = written
      BY DEF OutputIsComplete
    <2>1. got \in [Streams -> Nat] /\ written \in [Streams -> Nat]
      BY DEF ChildInv, ChildProcessTypeOK
    <2>2. \A s \in Streams : got[s] = written[s]
      BY <2>1 DEF ChildInv, BytesOK
    <2> QED
      BY <2>1, <2>2
  <1> QED
    BY ChildIsKept, <1>1, PTL

(* How run_impl says the child ended is how it ended. *)
THEOREM ChildVerdict == ChildProcessSpec => []VerdictIsTheChilds
  <1>1. ChildInv => VerdictIsTheChilds
    BY DEF ChildInv, StageOK, VerdictIsTheChilds
  <1> QED
    BY ChildIsKept, <1>1, PTL

(* run_impl returns from no child it has not waited for, but on a poll error. *)
THEOREM ChildReaped == ChildProcessSpec => []NoChildIsLeft
  <1>1. ChildInv => NoChildIsLeft
    BY DEF ChildInv, StageOK, NoChildIsLeft
  <1> QED
    BY ChildIsKept, <1>1, PTL
=============================================================================
