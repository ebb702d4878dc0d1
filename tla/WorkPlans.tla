----------------------------- MODULE WorkPlans -----------------------------
(***************************************************************************)
(* The plans of WorkCppPlanner and BatchprocessingCppPlanner, as sequences *)
(* of steps.  Messages, message boxes, Chdir and the WRITE_* steps carry   *)
(* no verdict and touch nothing the properties speak of: each plan keeps   *)
(* only those quiet steps that change a file the model follows.            *)
(*                                                                         *)
(* choices   what the user set: reset (resetAccounts), installer           *)
(*           (forceInstaller without calamares-settings-debian), edit      *)
(*           (editBootMenu), kernel (settings.kernel given), hybrid        *)
(*           (makeIsohybrid), sums (makeMd5sum), space (neither monthly    *)
(*           nor overrideSize)                                             *)
(* probes    what the runner saw before planning: root, lower (mount       *)
(*           points), conf (cleanup.conf exists), base (the overlay        *)
(*           directory exists)                                             *)
(***************************************************************************)
EXTENDS PlanSteps

(* Mutant: what is still mounted from an earlier run stays mounted. *)
OverlaySetupNoUmount(probes) ==
    <<Strict("mkdir-overlay"), Tolerant("mountpoint-root"), Tolerant("mountpoint-lower"),
      Tolerant("bind-lower"), CheckRoot, Tolerant("mount-overlay"), CheckRoot,
      Line("test-etc"), CheckLine, Line("test-passwd"), CheckLine>>

(***************************************************************************)
(* setupBindRootOverlay().  setupBindRootOverlay_bindMountOk and the other *)
(* planning-time verdicts are TRUE in every environment the runner         *)
(* computes, so the branches they guard are never planned.                 *)
(***************************************************************************)
OverlaySetup(probes) ==
    <<Strict("mkdir-overlay"), Tolerant("mountpoint-root")>>
    \o Optional(probes.root, <<Tolerant("umount-root")>>)
    \o <<Tolerant("mountpoint-lower")>>
    \o Optional(probes.lower, <<Tolerant("umount-lower")>>)
    \o <<Tolerant("bind-lower"), CheckRoot, Tolerant("mount-overlay"), CheckRoot,
         Line("test-etc"), CheckLine, Line("test-passwd"), CheckLine>>

(***************************************************************************)
(* planSetupEnv.  The work directory is one that checkTempDir made, whose  *)
(* name always holds "/s4-snapshot".                                       *)
(***************************************************************************)
PlanSetupEnv(choices, probes) ==
    <<Line("mountpoint-boot"), Strict("datetime_log")>>
    \o OverlaySetup(probes)
    \o Optional(choices.reset, <<Strict("mkdir-stamp"), Strict("touch-stamp")>>)
    \o <<Tolerant("installed-to-live"), CheckRoot>>
    \o Optional(choices.installer, <<Tolerant("embed_installer"), CheckRoot>>)

(***************************************************************************)
(* planCopyNewIso.  The initrd path is never empty, nor the login name.    *)
(***************************************************************************)
PlanCopyNewIso(choices) ==
    IF ~choices.kernel THEN <<Abort("Kernel-not-configured")>> ELSE
    <<Embed("extract-iso-template"),
      Line("copy-vmlinuz"), CheckLine,
      Sure("replace-menu"), Line("md5-vmlinuz"),
      Embed("populate-initrd"),
      Line("copy-initrd-modules"), CheckLine,
      Strict("copy-initrd-programs"), Strict("chown-initrd"),
      Line("pack-initrd"), Line("test-initrd"), CheckLine,
      Line("fsync-initrd"), Line("md5-initrd")>>

PlanSavePackageList == <<Line("package-list")>>

PlanEditBootMenu == <<Line("edit-menu")>>

(* Mutant: the temporary name is skipped, xorriso writes the final file. *)
PlanCreateIsoInPlace(choices) ==
    <<Strict("mksquashfs"), Line("test-linuxfs"), CheckLine,
      Line("move-linuxfs"), CheckLine, Line("md5-linuxfs"),
      Strict("cleanup"), Line("xorriso-final"), CheckLine>>

(* Mutant: the bind root is left to the next run. *)
PlanCreateIsoNoCleanup(choices) ==
    <<Strict("mksquashfs"), Line("test-linuxfs"), CheckLine,
      Line("move-linuxfs"), CheckLine, Line("md5-linuxfs"),
      Line("rm-iso.tmp"), Line("xorriso"), CheckLine,
      Line("publish-iso"), CheckLine, Line("fsync-iso")>>

(* Mutant: the bind root is cleaned up before it is squashed. *)
PlanCreateIsoCleanupFirst(choices) ==
    <<Strict("cleanup"), Strict("mksquashfs"), Line("test-linuxfs"), CheckLine,
      Line("move-linuxfs"), CheckLine, Line("md5-linuxfs"),
      Line("rm-iso.tmp"), Line("xorriso"), CheckLine,
      Line("publish-iso"), CheckLine, Line("fsync-iso")>>

(***************************************************************************)
(* planCreateIso: squash the bind root, move the result to iso-2, clean    *)
(* the bind root up, write the image under a temporary name, rename it,    *)
(* and make it hybrid where it then lies.  sha512 has the shape of md5.    *)
(***************************************************************************)
PlanCreateIso(choices) ==
    <<Strict("mksquashfs"), Line("test-linuxfs"), CheckLine,
      Line("move-linuxfs"), CheckLine, Line("md5-linuxfs"),
      Strict("cleanup"), Line("rm-iso.tmp"), Line("xorriso"), CheckLine,
      Line("publish-iso"), CheckLine, Line("fsync-iso")>>
    \o Optional(choices.hybrid, <<Line("isohybrid"), CheckLine>>)
    \o Optional(choices.sums, <<Line("md5-iso")>>)

(***************************************************************************)
(* planCleanup as the runner asks for it: started, not done.  The initrd   *)
(* TempDirRemove finds no callback and no path, and does nothing.          *)
(***************************************************************************)
PlanCleanup(probes) ==
    <<Strict("chown_conf"), Sure("show-cursor"), Strict("kill_mksquashfs")>>
    \o Optional(probes.conf, <<Strict("cleanup")>>)
    \o Optional(probes.base, <<Strict("cleanup_overlay")>>)
    \o <<Strict("copy_log"), Abort("cleanUp-exit-failure")>>

(***************************************************************************)
(* planOrchestration, as the names of the stages the runner goes through.  *)
(***************************************************************************)
RejectedStages == <<"abort">>              \* checkCompression failed
MisplacedStages == <<"cleanUp", "abort">>  \* snapshot or temp dir check failed

Stages(choices) ==
    <<"setupEnv">>
    \o Optional(choices.space, <<"checkEnoughSpace">>)
    \o <<"copyNewIso", "savePackageList">>
    \o Optional(choices.edit, <<"editBootMenu">>)
    \o <<"createIso">>

WorkPlan(stage, choices, probes) ==
    CASE stage = "setupEnv"        -> PlanSetupEnv(choices, probes)
      [] stage = "copyNewIso"      -> PlanCopyNewIso(choices)
      [] stage = "savePackageList" -> PlanSavePackageList
      [] stage = "editBootMenu"    -> PlanEditBootMenu
      [] stage = "createIso"       -> PlanCreateIso(choices)
      [] stage = "cleanUp"         -> <<>>

WorkStages == {"setupEnv", "copyNewIso", "savePackageList", "editBootMenu", "createIso", "cleanUp"}

Choices == [reset : BOOLEAN, installer : BOOLEAN, edit : BOOLEAN, kernel : BOOLEAN,
            hybrid : BOOLEAN, sums : BOOLEAN, space : BOOLEAN]
Probes == [root : BOOLEAN, lower : BOOLEAN, conf : BOOLEAN, base : BOOLEAN]

(* Every plan the runner can hand to the executor under these settings. *)
RunnerPlans(choiceSet) ==
    { WorkPlan(stage, c, p) : stage \in WorkStages, c \in choiceSet, p \in Probes }
    \cup { PlanCleanup(p) : p \in Probes }
============================================================================
