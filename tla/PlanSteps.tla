----------------------------- MODULE PlanSteps -----------------------------
(***************************************************************************)
(* The vocabulary of work plans.  WorkCppPlanStep is a variant of twelve   *)
(* payloads, and RunCommandLine hides a dozen pseudo commands behind text  *)
(* prefixes; what the executor does with a step depends only on the kind   *)
(* given here.  "op" names what the step does to the machine.              *)
(*                                                                         *)
(*   quiet     no verdict is kept: messages, WRITE_*, ProcessExecute,      *)
(*             file and directory removal, Mkpath, Chdir, TempDirRemove    *)
(*   line      the outcome becomes the last command-line verdict: shell    *)
(*             commands, MD5_CHECKSUM, FSYNC_FILE, SAVE_PACKAGE_LIST,      *)
(*             FileCopy                                                    *)
(*   sure      the last command-line verdict becomes TRUE whatever         *)
(*             happened: STDIO_*, REPLACE_MENU_STRINGS                     *)
(*   embed     EMBED_*: a failure aborts the plan on the spot              *)
(*   strict    ProcAsRoot whose failure aborts the plan on the spot        *)
(*   tolerant  ProcAsRoot of mount, umount, mountpoint, installed-to-live  *)
(*             and embed_installer: a failure is left to the next check    *)
(*   checkRoot / checkLine   the two families of CHECK_RESULT              *)
(*   abort     the plan records its own failure                            *)
(***************************************************************************)
EXTENDS Naturals, Sequences

RootKinds == {"strict", "tolerant"}
CommandKinds == {"line", "embed"} \cup RootKinds
CheckKinds == {"checkRoot", "checkLine"}
Kinds == {"quiet", "sure", "abort"} \cup CommandKinds \cup CheckKinds

Step(kind, op) == [kind |-> kind, op |-> op]

Quiet(op)    == Step("quiet", op)
Line(op)     == Step("line", op)
Sure(op)     == Step("sure", op)
Embed(op)    == Step("embed", op)
Strict(op)   == Step("strict", op)
Tolerant(op) == Step("tolerant", op)
CheckRoot    == Step("checkRoot", "check")
CheckLine    == Step("checkLine", "check")
Abort(op)    == Step("abort", op)

Optional(condition, steps) == IF condition THEN steps ELSE <<>>

(***************************************************************************)
(* The plan cannot do without step i: its failure ends the call, either at *)
(* once or through the check that directly follows it.                     *)
(***************************************************************************)
Required(p, i) ==
    \/ p[i].kind \in {"strict", "embed"}
    \/ /\ p[i].kind = "line"
       /\ i + 1 \in 1..Len(p)
       /\ p[i + 1].kind = "checkLine"
    \/ /\ p[i].kind = "tolerant"
       /\ i + 1 \in 1..Len(p)
       /\ p[i + 1].kind = "checkRoot"
============================================================================
