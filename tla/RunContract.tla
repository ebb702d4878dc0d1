---------------------------- MODULE RunContract ----------------------------
(***************************************************************************)
(* What a user is promised of a run, with everything inside left out: an   *)
(* image appears under its final name in one step and whole, and a run     *)
(* reports success only when its image is there, and whole.                *)
(***************************************************************************)
VARIABLES
    image,     \* under the final name: nothing, an earlier run's, this run's, or a damaged one
    report,    \* what is known of the run
    rewrites   \* the run was asked to make the published image hybrid, in place

contractVars == <<image, report, rewrites>>

ContractInit == image = "none" /\ report = "idle"

StartRun ==
    /\ report # "running" /\ report' = "running"
    /\ image' = IF image = "whole" THEN "old" ELSE image

PublishImage ==
    /\ report = "running" /\ image # "whole"
    /\ image' = "whole"
    /\ UNCHANGED <<report, rewrites>>

(* Only where it was asked for is a published image written to, and may break. *)
DamageImage ==
    /\ report = "running" /\ rewrites /\ image = "whole"
    /\ image' = "damaged"
    /\ UNCHANGED <<report, rewrites>>

ReportSuccess ==
    /\ report = "running" /\ image = "whole"
    /\ report' = "success"
    /\ UNCHANGED <<image, rewrites>>

(* A failure may also come after the image was published. *)
EndOtherwise ==
    /\ report = "running"
    /\ report' \in {"aborted", "interrupted", "lost"}
    /\ UNCHANGED <<image, rewrites>>

(* A process that dies after its report takes the report with it. *)
LoseReport ==
    /\ report \in {"success", "aborted", "interrupted"}
    /\ report' = "lost"
    /\ UNCHANGED <<image, rewrites>>

ContractNext == StartRun \/ PublishImage \/ DamageImage \/ ReportSuccess \/ EndOtherwise \/ LoseReport

ContractSpec == ContractInit /\ [][ContractNext]_contractVars
============================================================================
