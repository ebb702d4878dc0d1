--------------------------- MODULE MCWorkExecutor ---------------------------
(***************************************************************************)
(* Every plan of up to two steps, a command with any step between it and a *)
(* check (a verdict that may be overwritten before it is looked at), and   *)
(* an Abort step with a check or a command after it.                       *)
(***************************************************************************)
EXTENDS WorkExecutor

Of(k) == Step(k, "op")

ShortPlans == UNION { [1..n -> {Of(k) : k \in Kinds}] : n \in 0..2 }

DelayedChecks ==
    { <<Of(c), Of(k), Of(check)>> : c \in {"line", "tolerant"}, k \in Kinds, check \in CheckKinds }

AfterAbort ==
    { <<Of("abort"), Of(c), Of(check)>> : c \in CommandKinds, check \in CheckKinds }

MCPlans == ShortPlans \cup DelayedChecks \cup AfterAbort
============================================================================
