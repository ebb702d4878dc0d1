---------------------------- MODULE ChildProcess ----------------------------
(***************************************************************************)
(* run_impl of process_runner.cpp: one child with a pipe for each of its   *)
(* standard streams.  The parent is one loop of rounds; the child is any   *)
(* program that reads, writes, closes its ends, sleeps and ends.  A byte   *)
(* stands for as much as one read or write moves.                          *)
(***************************************************************************)
EXTENDS Naturals, FiniteSets

CONSTANTS
    Capacity,   \* bytes a pipe holds
    MaxInput,   \* bound: bytes of stdinText
    MaxOutput   \* bound: bytes the child writes

ASSUME BoundsAssumption ==
    /\ Capacity \in Nat \ {0} /\ MaxInput \in Nat /\ MaxOutput \in Nat

Streams == {"out", "err"}
Pipes == {"in"} \cup Streams

VARIABLES
    pc,        \* where run_impl is; "dead" when the program is
    timed,     \* timeout_ms >= 0
    late,      \* ... and it is over
    stop,      \* signalStopRequested
    unsent,    \* stdinText from stdinPos on
    open,      \* pipes whose end the parent still has
    ready,     \* pipes poll reported and this round has not served yet
    got,       \* stdoutText, stderrText
    result,    \* how run_impl returned
    child,     \* "none", "forked", "alive", "zombie" or "reaped"
    fate,      \* how the child ended
    act,       \* system call the child is in, "sleep" forever, or "none"
    held,      \* pipes whose end the child still has
    kept,      \* pipes whose writing end a child that another thread has forked inherited
    immune,    \* the child is sudo: signals of a user's program do not reach it
    inside,    \* bytes in each pipe
    written    \* history: what the child has written

parentVars == <<pc, timed, stop, unsent, open, ready, got, result>>
childVars  == <<child, fate, act, held, written>>
childProcessVars == <<parentVars, childVars, late, kept, immune, inside>>

Zero == [s \in Streams |-> 0]

ChildProcessInit ==
    /\ pc = "idle" /\ late = FALSE /\ stop = FALSE /\ timed \in BOOLEAN
    /\ unsent \in 0..MaxInput /\ open = {} /\ ready = {} /\ got = Zero /\ result = "none"
    /\ child = "none" /\ fate = "none" /\ act = "none" /\ held = {} /\ written = Zero
    /\ kept \in {{}, Pipes} /\ immune \in BOOLEAN
    /\ inside = [p \in Pipes |-> 0]

Done == pc \in {"returned", "dead"}

Return(how) == pc' = "returned" /\ result' = how

(* Mutant: WIFEXITED is taken for granted. *)
ReportedUnseen == "normal"

(* waitpid: what it tells of a child that has ended. *)
Reported == IF fate = "signal" THEN "crash" ELSE "normal"
Reap == child' = "reaped" /\ UNCHANGED <<fate, act, held, written>>

(* Nobody is left who could write to the pipe, or read from it. *)
EndOfFile(s) == s \notin held \cup kept
Broken == "in" \notin held
----------------------------------------------------------------------------
(* Starting the child. *)

(* pipe or fork fails. *)
CannotStart ==
    /\ pc = "idle" /\ Return("notStarted")
    /\ UNCHANGED <<timed, stop, unsent, open, ready, got, childVars, late, kept, immune, inside>>

Fork ==
    /\ pc = "idle" /\ pc' = "handshake"
    /\ child' = "forked" /\ held' = Pipes /\ open' = Pipes
    /\ UNCHANGED <<timed, stop, unsent, ready, got, result, fate, act, written, late, kept, immune,
                   inside>>

(* execvp goes through, which closes the exec pipe, or its errno is sent. *)
Exec ==
    /\ child = "forked" /\ child' = "alive"
    /\ UNCHANGED <<parentVars, fate, act, held, written, late, kept, immune, inside>>

ExecFails ==
    /\ child = "forked"
    /\ child' = "zombie" /\ fate' = "noexec" /\ held' = {}
    /\ UNCHANGED <<parentVars, act, written, late, kept, immune, inside>>

HandshakeErrno ==
    /\ pc = "handshake" /\ child = "zombie" /\ fate = "noexec"
    /\ Reap /\ Return("notStarted")
    /\ UNCHANGED <<timed, stop, unsent, open, ready, got, late, kept, immune, inside>>

(* End of file, or 10 ms without news: the child counts as started. *)
HandshakeEnds ==
    /\ pc = "handshake" /\ fate # "noexec"
    /\ pc' = "head"
    /\ UNCHANGED <<timed, stop, unsent, open, ready, got, result, childVars, late, kept, immune, inside>>
----------------------------------------------------------------------------
(* A round of the loop. *)

Terminable == child \in {"forked", "alive"} /\ ~immune

Killed == child' = "zombie" /\ fate' = "signal" /\ held' = {} /\ act' = "none" /\ UNCHANGED written

(* SIGTERM, which the child may take or leave. *)
Interrupt ==
    /\ pc = "head" /\ stop /\ pc' = "terminating"
    /\ (Terminable /\ Killed) \/ UNCHANGED childVars
    /\ UNCHANGED <<timed, stop, unsent, open, ready, got, result, late, kept, immune, inside>>

(* SIGKILL, sent to a child that the call has been waiting for too long. *)
Destroy ==
    /\ \/ pc = "head" /\ ~stop /\ late
       \/ pc = "terminating" /\ child # "zombie"
    /\ pc' = "reaping"
    /\ IF Terminable THEN Killed ELSE UNCHANGED childVars
    /\ UNCHANGED <<timed, stop, unsent, open, ready, got, result, late, kept, immune, inside>>

(* Mutant: the child is killed, and nobody waits for it. *)
TerminatedUnreaped ==
    /\ pc \in {"terminating", "reaping"}
    /\ Return("terminated")
    /\ UNCHANGED <<timed, stop, unsent, open, ready, got, childVars, late, kept, immune, inside>>

(* waitpid behind the signals.  The pipes are not read any more. *)
Terminated ==
    /\ pc \in {"terminating", "reaping"} /\ child = "zombie"
    /\ Reap /\ Return("terminated")
    /\ UNCHANGED <<timed, stop, unsent, open, ready, got, late, kept, immune, inside>>

Quietly == pc = "head" /\ ~stop /\ ~late

Watched == open \cap (Streams \cup (IF unsent > 0 THEN {"in"} ELSE {}))

(* Mutant: revents is not looked at. *)
PollBlind ==
    /\ Quietly /\ Watched # {}
    /\ pc' = "round" /\ ready' = Watched
    /\ UNCHANGED <<timed, stop, unsent, open, got, result, childVars, late, kept, immune, inside>>

(* poll: the pipes that are ready now, none when its 50 ms are over. *)
Poll ==
    /\ Quietly /\ Watched # {}
    /\ pc' = "round"
    /\ ready' = { p \in Watched : IF p = "in" THEN inside[p] < Capacity \/ Broken
                                              ELSE inside[p] > 0 \/ EndOfFile(p) }
    /\ UNCHANGED <<timed, stop, unsent, open, got, result, childVars, late, kept, immune, inside>>

(* poll fails with something else than EINTR. *)
PollFails ==
    /\ Quietly /\ Watched # {}
    /\ Return("pollError")
    /\ UNCHANGED <<timed, stop, unsent, open, ready, got, childVars, late, kept, immune, inside>>

(* Mutant: stdinText is written in one go, which waits for the room. *)
WriteEverything ==
    /\ pc = "round" /\ "in" \in ready /\ ~Broken
    /\ unsent + inside["in"] <= Capacity
    /\ ready' = ready \ {"in"}
    /\ inside' = [inside EXCEPT !["in"] = @ + unsent] /\ unsent' = 0
    /\ UNCHANGED <<pc, timed, stop, open, got, result, childVars, late, kept, immune>>

Write ==
    /\ pc = "round" /\ "in" \in ready /\ ~Broken
    /\ ready' = ready \ {"in"}
    /\ inside' = [inside EXCEPT !["in"] = @ + 1] /\ unsent' = unsent - 1
    /\ UNCHANGED <<pc, timed, stop, open, got, result, childVars, late, kept, immune>>

(* Nobody has SIGPIPE ignored: writing to a child that reads no more is the end. *)
WriteBroken ==
    /\ pc = "round" /\ "in" \in ready /\ Broken
    /\ pc' = "dead"
    /\ UNCHANGED <<timed, stop, unsent, open, ready, got, result, childVars, late, kept, immune, inside>>

(* stdin is served first, stderr last; a read of nothing closes the pipe. *)
Read(s) ==
    /\ pc = "round" /\ s \in ready /\ "in" \notin ready
    /\ s = "err" => "out" \notin ready
    /\ ready' = ready \ {s}
    /\ IF inside[s] > 0
       THEN /\ got' = [got EXCEPT ![s] = @ + 1] /\ inside' = [inside EXCEPT ![s] = @ - 1]
            /\ UNCHANGED open
       ELSE open' = open \ {s} /\ UNCHANGED <<got, inside>>
    /\ UNCHANGED <<pc, timed, stop, unsent, result, childVars, late, kept, immune>>

CloseInput == IF unsent = 0 THEN open \ {"in"} ELSE open

(* The end of the round: waitpid with WNOHANG says that the child is alive. *)
NextRound ==
    /\ pc = "round" /\ ready = {} /\ child # "zombie"
    /\ pc' = "head" /\ open' = CloseInput
    /\ UNCHANGED <<timed, stop, unsent, ready, got, result, childVars, late, kept, immune, inside>>

(* Mutant: what is left in the pipes of a dead child is not read. *)
ReapUndrained ==
    /\ pc = "round" /\ ready = {} /\ child = "zombie"
    /\ Reap /\ Return(Reported) /\ open' = CloseInput
    /\ UNCHANGED <<timed, stop, unsent, ready, got, late, kept, immune, inside>>

(* ... or that it has ended, and the pipes are drained. *)
ReapAndDrain ==
    /\ pc = "round" /\ ready = {} /\ child = "zombie"
    /\ Reap /\ Return(Reported) /\ open' = CloseInput
    /\ got' = [s \in Streams |-> IF s \in open THEN got[s] + inside[s] ELSE got[s]]
    /\ inside' = [p \in Pipes |-> IF p \in open \cap Streams THEN 0 ELSE inside[p]]
    /\ UNCHANGED <<timed, stop, unsent, ready, late, kept, immune>>

(* No pipe is left to watch: waitpid alone, every millisecond. *)
ReapUnwatched ==
    /\ Quietly /\ Watched = {} /\ child = "zombie"
    /\ Reap /\ Return(Reported)
    /\ UNCHANGED <<timed, stop, unsent, open, ready, got, late, kept, immune, inside>>
----------------------------------------------------------------------------
(* The child: it enters a call, and is in it until the call is done. *)

Lives == child = "alive"

ChildEnters ==
    /\ Lives /\ act = "none"
    /\ \E a \in {"end", "sleep"} \cup held :
          /\ a \in Streams => written["out"] + written["err"] < MaxOutput
          /\ act' = a
    /\ UNCHANGED <<parentVars, child, fate, held, written, late, kept, immune, inside>>

ChildWrites(s) ==
    /\ Lives /\ act = s /\ inside[s] < Capacity
    /\ inside' = [inside EXCEPT ![s] = @ + 1]
    /\ written' = [written EXCEPT ![s] = @ + 1] /\ act' = "none"
    /\ UNCHANGED <<parentVars, child, fate, held, late, kept, immune>>

(* A read of standard input; at the end of it the child closes it. *)
ChildReads ==
    /\ Lives /\ act = "in"
    /\ \/ inside["in"] > 0 /\ inside' = [inside EXCEPT !["in"] = @ - 1] /\ UNCHANGED held
       \/ /\ inside["in"] = 0 /\ "in" \notin open \cup kept
          /\ held' = held \ {"in"} /\ UNCHANGED inside
    /\ act' = "none"
    /\ UNCHANGED <<parentVars, child, fate, written, late, kept, immune>>

ChildCloses(p) ==
    /\ Lives /\ act = "none" /\ p \in held
    /\ held' = held \ {p}
    /\ UNCHANGED <<parentVars, child, fate, act, written, late, kept, immune, inside>>

ChildEnds ==
    /\ Lives /\ act = "end"
    /\ child' = "zombie" /\ fate' = "exit" /\ held' = {} /\ act' = "none"
    /\ UNCHANGED <<parentVars, written, late, kept, immune, inside>>

(* Its own fault, or the job that kills mksquashfs by its name. *)
ChildCrashes ==
    /\ Lives
    /\ child' = "zombie" /\ fate' = "signal" /\ held' = {} /\ act' = "none"
    /\ UNCHANGED <<parentVars, written, late, kept, immune, inside>>
----------------------------------------------------------------------------
(* The rest of the world. *)

TimePasses ==
    /\ timed /\ ~late /\ late' = TRUE
    /\ UNCHANGED <<parentVars, childVars, kept, immune, inside>>

RequestStop ==
    /\ ~stop /\ stop' = TRUE
    /\ UNCHANGED <<pc, timed, unsent, open, ready, got, result, childVars, late, kept, immune, inside>>

(* The other thread's child has ended. *)
OtherChildEnds ==
    /\ kept # {} /\ kept' = {}
    /\ UNCHANGED <<parentVars, childVars, late, immune, inside>>

ParentStep ==
    \/ CannotStart \/ Fork \/ HandshakeErrno \/ HandshakeEnds
    \/ Interrupt \/ Destroy \/ Terminated
    \/ Poll \/ PollFails \/ Write \/ WriteBroken \/ (\E s \in Streams : Read(s))
    \/ NextRound \/ ReapAndDrain \/ ReapUnwatched

ChildStep ==
    \/ Exec \/ ExecFails \/ ChildEnters \/ ChildReads \/ ChildEnds
    \/ \E s \in Streams : ChildWrites(s)

ChildProcessNext ==
    \/ ParentStep \/ ChildStep \/ ChildCrashes \/ (\E p \in Pipes : ChildCloses(p))
    \/ TimePasses \/ RequestStop \/ OtherChildEnds

ChildProcessSpec == ChildProcessInit /\ [][ChildProcessNext]_childProcessVars

(***************************************************************************)
(* The thread and the child are scheduled, time passes, and the child of   *)
(* the other thread, which is not waiting for this one, ends.              *)
(***************************************************************************)
FairChildProcessSpec ==
    /\ ChildProcessSpec
    /\ WF_childProcessVars(ParentStep) /\ WF_childProcessVars(ChildStep)
    /\ WF_childProcessVars(TimePasses) /\ WF_childProcessVars(OtherChildEnds)
----------------------------------------------------------------------------
ChildProcessTypeOK ==
    /\ pc \in {"idle", "handshake", "head", "round", "terminating", "reaping", "returned", "dead"}
    /\ timed \in BOOLEAN /\ late \in BOOLEAN /\ stop \in BOOLEAN /\ immune \in BOOLEAN
    /\ unsent \in 0..MaxInput
    /\ open \subseteq Pipes /\ ready \subseteq Pipes /\ held \subseteq Pipes /\ kept \subseteq Pipes
    /\ got \in [Streams -> 0..MaxOutput] /\ written \in [Streams -> 0..MaxOutput]
    /\ inside \in [Pipes -> 0..Capacity]
    /\ result \in {"none", "notStarted", "normal", "crash", "terminated", "pollError"}
    /\ child \in {"none", "forked", "alive", "zombie", "reaped"}
    /\ fate \in {"none", "noexec", "exit", "signal"}
    /\ act \in {"none", "sleep", "end"} \cup Pipes

(***************************************************************************)
(* A call that reports how the child ended has read everything the child   *)
(* wrote, however the last bytes, the end of the child and the closing of  *)
(* the pipes by others were ordered.                                       *)
(***************************************************************************)
OutputIsComplete == result \in {"normal", "crash"} => got = written

(***************************************************************************)
(* The verdict is the child's: "not started" only if no program was        *)
(* executed, a normal exit only of a child that ended by itself (or could  *)
(* not be executed and is reported with 127), a crash only of one that a   *)
(* signal ended.                                                           *)
(***************************************************************************)
VerdictIsTheChilds ==
    /\ result = "notStarted" => fate \in {"none", "noexec"}
    /\ result = "normal" => fate \in {"exit", "noexec"}
    /\ result = "crash" => fate = "signal"

(***************************************************************************)
(* No call leaves a child behind, running or unreaped, but the one whose   *)
(* poll failed.                                                            *)
(***************************************************************************)
NoChildIsLeft == pc = "returned" => child \in {"none", "reaped"} \/ result = "pollError"

(***************************************************************************)
(* Every call ends, whoever fills which pipe first.  Excepted are a child  *)
(* that never ends where nothing was to end it, and one that signals do    *)
(* not reach while the parent does nothing but wait for it.                *)
(***************************************************************************)
Unstoppable == act = "sleep" /\ ~timed /\ ~stop
Unreachable == immune /\ pc \in {"terminating", "reaping"}

CallComesBack == pc = "handshake" ~> Done \/ Unstoppable \/ Unreachable
============================================================================
