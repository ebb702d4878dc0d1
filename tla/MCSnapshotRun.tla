--------------------------- MODULE MCSnapshotRun ---------------------------
(***************************************************************************)
(* Runs with the settings that take different paths through the plans.     *)
(***************************************************************************)
EXTENDS SnapshotRun

Plain == [reset |-> FALSE, installer |-> FALSE, edit |-> FALSE, kernel |-> TRUE,
          hybrid |-> FALSE, sums |-> FALSE, space |-> TRUE]
Reset     == [Plain EXCEPT !.reset = TRUE]
Installer == [Plain EXCEPT !.installer = TRUE]
NoKernel  == [Plain EXCEPT !.kernel = FALSE]
Hybrid    == [Plain EXCEPT !.hybrid = TRUE, !.sums = TRUE, !.edit = TRUE, !.space = FALSE]

AllChoices == {Plain, Reset, Installer, NoKernel, Hybrid}

MCPlans == RunnerPlans(AllChoices)

(* A CLI, of a user and of root, and the GUI, on a machine where anything goes wrong. *)
UserCli == [cli |-> TRUE, exits |-> TRUE, faults |-> TRUE, refusals |-> {}, stops |-> TRUE,
            crashes |-> FALSE, space |-> {"enough", "short", "move"},
            choices |-> AllChoices, runs |-> 2]
RootCli == [UserCli EXCEPT !.exits = FALSE, !.choices = {Plain, Hybrid}, !.runs = 1]
Gui     == [UserCli EXCEPT !.cli = FALSE, !.exits = FALSE, !.crashes = TRUE, !.choices = {Plain}]

(* One where the disk is full whenever installed-to-live writes its record. *)
FullDisk == [UserCli EXCEPT !.refusals = {"record"}, !.space = {"enough"}, !.choices = {Plain}]

(* The GUI where nothing does, for three runs in a row. *)
Quietly == [Gui EXCEPT !.faults = FALSE, !.stops = FALSE, !.crashes = FALSE,
                       !.space = {"enough"}, !.choices = {Plain, Hybrid}, !.runs = 3]

EveryWorld   == {UserCli, RootCli, Gui, FullDisk, Quietly}
DeniedUmount == {[UserCli EXCEPT !.refusals = {"umount"}, !.stops = FALSE, !.space = {"enough"},
                                 !.choices = {Plain}, !.runs = 1]}
ResetRun     == {[Quietly EXCEPT !.choices = {Reset}, !.runs = 1]}
============================================================================
