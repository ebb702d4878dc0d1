------------------------------ MODULE Machine ------------------------------
(***************************************************************************)
(* What the commands of the plans do to the machine: the helper's own      *)
(* commands as helper.cpp and installed_to_live_cpp.cpp write them, and    *)
(* mount, umount, mksquashfs, xorriso and the shell as the plans use them. *)
(***************************************************************************)
EXTENDS Naturals

CONSTANTS
    Dirs,       \* work directories one run can create, in order of creation
    MaxStack,   \* bound: mounts stacked on one mount point
    Worlds      \* the circumstances a behaviour may be in, see world

ASSUME DirsAssumption == Dirs = {"W1", "W2"}
ASSUME MaxStackAssumption == MaxStack \in Nat \ {0}
ASSUME WorldsAssumption ==
    \A w \in Worlds :
        /\ w.faults \in BOOLEAN /\ w.exits \in BOOLEAN
        /\ w.refusals \subseteq {"umount", "mountpoint", "record"}

(***************************************************************************)
(* host outlives the process.                                              *)
(*   lower, root   mounts stacked on bind-root-overlay/lower and /root     *)
(*   base          the overlay's directories exist                         *)
(*   prepared      installed-to-live went through on the top root mount    *)
(*   conf          /tmp/installed-to-live/cleanup.conf; an empty one does  *)
(*                 not name the bind root                                  *)
(*   live          the running system's own files are all there            *)
(*   final         the image under its final name                          *)
(***************************************************************************)
Hosts == [lower : 0..MaxStack, root : 0..MaxStack,
          base : BOOLEAN, prepared : BOOLEAN, conf : {"none", "empty", "whole"}, live : BOOLEAN,
          final : {"none", "old", "partial", "good"}]

NewHost == [lower |-> 0, root |-> 0, base |-> FALSE, prepared |-> FALSE,
            conf |-> "none", live |-> TRUE, final |-> "none"]

(***************************************************************************)
(* job is what one run makes: the parts of the image, and its work         *)
(* directories ("husk": _embedded without the extracted scripts).          *)
(***************************************************************************)
Parts == {"none", "partial", "good"}
Jobs == [kernel : Parts, initrd : Parts, linuxfs : Parts, iso2 : Parts, tmp : Parts,
         work : [Dirs -> {"gone", "bare", "husk", "workspace"}]]

NewJob == [kernel |-> "none", initrd |-> "none", linuxfs |-> "none", iso2 |-> "none",
           tmp |-> "none", work |-> [d \in Dirs |-> "gone"]]

VARIABLES host, job
machineVars == <<host, job>>

(***************************************************************************)
(* world is chosen once.  Here it says                                     *)
(*   faults    a command that could succeed may fail                       *)
(*   refusals  what may fail on a sound machine and is not looked at: a    *)
(*             umount, a mountpoint, the writing of a record               *)
(*   exits     the process is a CLI that is not root: a denied elevation   *)
(*             ends it, where in the others the command has just failed    *)
(***************************************************************************)
VARIABLE world

Refused == IF world.exits THEN "denied" ELSE "fail"

(***************************************************************************)
(* Ways a command comes out: an outcome, and the machine it leaves.        *)
(***************************************************************************)
Out(outcome, h, j) == [out |-> outcome, host |-> h, job |-> j]

Unchanged(outcomes) == { Out(o, host, job) : o \in outcomes }
Failing == IF world.faults THEN Unchanged({"fail"}) ELSE {}
OnHost(h) == {Out("ok", h, job)} \cup Failing
OnJob(j) == {Out("ok", host, j)} \cup Failing
Maybe(outcomes) == Unchanged(IF world.faults THEN outcomes \cup {"fail"} ELSE outcomes)

Verdict(holds) == Unchanged(IF holds THEN {"ok"} ELSE {"fail"})

(* mountpoint -q *)
Mountpoint(count) ==
    Verdict(count > 0) \cup (IF "mountpoint" \in world.refusals THEN Unchanged({"fail"}) ELSE {})

(* umount --recursive takes the top mount away, if there is one. *)
UmountLeaves(count) ==
    IF count = 0 THEN {0}
    ELSE {count - 1} \cup (IF "umount" \in world.refusals THEN {count} ELSE {})

(* What the umount uncovers counts as not prepared; without refusals there is nothing under it. *)
UmountRoot ==
    { IF r < host.root
      THEN Out("ok", [host EXCEPT !.root = r, !.prepared = FALSE], job)
      ELSE Out("fail", host, job) : r \in UmountLeaves(host.root) }

UmountLower ==
    { Out(IF l < host.lower THEN "ok" ELSE "fail", [host EXCEPT !.lower = l], job)
        : l \in UmountLeaves(host.lower) }

BindLower ==
    IF host.lower < MaxStack THEN OnHost([host EXCEPT !.lower = @ + 1]) ELSE Failing

MountOverlay ==
    IF host.root < MaxStack
    THEN OnHost([host EXCEPT !.root = @ + 1, !.prepared = FALSE])
    ELSE Failing

(* Its writes go unchecked: where they are refused, the last one may have emptied the record. *)
RecordsHold == "record" \notin world.refusals

(***************************************************************************)
(* installed-to-live start ...: throws an earlier record away, writes its  *)
(* own, and only then into the bind root.  It may fail before the first,   *)
(* or behind each of them, or die while it writes.                         *)
(***************************************************************************)
InstalledToLive ==
    LET recorded(c) == [host EXCEPT !.conf = c]
        left == IF RecordsHold THEN {"whole"} ELSE {"empty", "whole"}
    IN  { Out("ok", [recorded(c) EXCEPT !.prepared = TRUE], job) : c \in left }
        \cup Failing
        \cup IF world.faults
             THEN { Out("fail", recorded(c), job) : c \in {"none", "empty", "whole"} } ELSE {}

(* Mutant: the record goes first. *)
CleanupRecordFirst ==
    LET forgotten == [host EXCEPT !.conf = "none"]
        found == IF host.conf = "whole" THEN [forgotten EXCEPT !.root = 0, !.prepared = FALSE]
                                        ELSE forgotten
    IN  OnHost(found) \cup IF world.faults THEN {Out("fail", forgotten, job)} ELSE {}

(***************************************************************************)
(* The helper's cleanup: installed-to-live unmounts the bind root its      *)
(* record names, if there is one that does, then removes the record.  It   *)
(* may be cut short in between.                                            *)
(***************************************************************************)
Cleanup ==
    LET found == IF host.conf = "whole" THEN [host EXCEPT !.root = 0, !.prepared = FALSE] ELSE host
    IN  OnHost([found EXCEPT !.conf = "none"])
        \cup IF world.faults THEN {Out("fail", found, job)} ELSE {}

(***************************************************************************)
(* cleanupOverlay: the two umounts are not looked at, then remove_all goes *)
(* through whatever is still mounted below the base: the root file system  *)
(* itself under lower, the bind mounted /home under a prepared root.       *)
(***************************************************************************)
RemoveOverlay ==
    { LET reached == l > 0 \/ (r > 0 /\ host.prepared) IN
      Out(IF l = 0 /\ r = 0 THEN "ok" ELSE "fail",
          [host EXCEPT !.root = r, !.lower = l,
                       !.prepared = @ /\ r = host.root,
                       !.base = @ /\ r > 0,
                       !.live = @ /\ ~reached],
          job)
      : r \in UmountLeaves(host.root), l \in UmountLeaves(host.lower) }

(* Cut short before it has removed anything. *)
LeaveOverlay ==
    { Out("fail",
          [host EXCEPT !.root = r, !.lower = l, !.prepared = @ /\ r = host.root],
          job)
      : r \in UmountLeaves(host.root) \cup {host.root},
        l \in UmountLeaves(host.lower) \cup {host.lower} }

CleanupOverlay == RemoveOverlay \cup IF world.faults THEN LeaveOverlay ELSE {}

(* mksquashfs reads the bind root; without one it finds next to nothing. *)
Squash ==
    LET squashed == IF host.root = 0 THEN "partial" ELSE "good"
    IN  OnJob([job EXCEPT !.linuxfs = squashed])
        \cup IF world.faults THEN {Out("fail", host, [job EXCEPT !.linuxfs = "partial"])} ELSE {}

(* (find | cpio | gzip) > initrd.gz: the shell sees gzip's status only. *)
PackInitrd ==
    OnJob([job EXCEPT !.initrd = "good"])
    \cup IF world.faults THEN { Out(o, host, [job EXCEPT !.initrd = "partial"]) : o \in {"ok", "fail"} }
                   ELSE {}

(* xorriso packs the template (kernel, initrd) with iso-2. *)
Burnt == IF job.kernel = "good" THEN job.iso2 ELSE "partial"
Xorriso ==
    OnJob([job EXCEPT !.tmp = IF Burnt = "none" THEN "partial" ELSE Burnt])
    \cup IF world.faults THEN {Out("fail", host, [job EXCEPT !.tmp = "partial"])} ELSE {}
XorrisoInPlace ==
    OnHost([host EXCEPT !.final = IF Burnt = "none" THEN "partial" ELSE Burnt])
    \cup IF world.faults THEN {Out("fail", [host EXCEPT !.final = "partial"], job)} ELSE {}

Publish == {Out("ok", [host EXCEPT !.final = job.tmp], [job EXCEPT !.tmp = "none"])} \cup Failing

(* isohybrid writes into the published image. *)
Isohybrid ==
    Maybe({"ok"})
    \cup IF world.faults THEN {Out("fail", [host EXCEPT !.final = "partial"], job)} ELSE {}

(***************************************************************************)
(* The plans name the first work directory, even after a move: a missing   *)
(* one is made again, without the scripts.                                 *)
(***************************************************************************)
ExtractTemplate == OnJob([job EXCEPT !.work["W1"] = IF @ = "gone" THEN "bare" ELSE @])
PopulateInitrd ==
    LET made == [job EXCEPT !.work["W1"] = IF @ = "workspace" THEN @ ELSE "husk"]
    IN  OnJob(made) \cup IF world.faults THEN {Out("fail", host, made)} ELSE {}
CopyModules == IF job.work["W1"] = "workspace" THEN Maybe({"ok"}) ELSE Unchanged({"fail"})

(***************************************************************************)
(* Every command of the plans.  touch -p is refused by touch itself, and   *)
(* embed_installer is no command the helper knows (exit 127).              *)
(***************************************************************************)
Results(op) ==
    CASE op = "mkdir-overlay"   -> OnHost([host EXCEPT !.base = TRUE])
      [] op = "mountpoint-root"  -> Mountpoint(host.root)
      [] op = "mountpoint-lower" -> Mountpoint(host.lower)
      [] op = "umount-root"      -> UmountRoot
      [] op = "umount-lower"     -> UmountLower
      [] op = "bind-lower"       -> BindLower
      [] op = "mount-overlay"    -> MountOverlay
      [] op \in {"test-etc", "test-passwd"} ->
            IF host.root > 0 THEN Maybe({"ok"}) ELSE Unchanged({"fail"})
      [] op = "touch-stamp"      -> Unchanged({"fail"})
      [] op = "installed-to-live" -> InstalledToLive
      [] op = "embed_installer"  -> Unchanged({Refused})
      [] op = "extract-iso-template" -> ExtractTemplate
      [] op = "copy-vmlinuz"     ->
            OnJob([job EXCEPT !.kernel = "good"])
            \cup IF world.faults THEN {Out("fail", host, [job EXCEPT !.kernel = "partial"])} ELSE {}
      [] op = "populate-initrd"  -> PopulateInitrd
      [] op = "copy-initrd-modules" -> CopyModules
      [] op = "pack-initrd"      -> PackInitrd
      [] op = "test-initrd"      -> Verdict(job.initrd # "none")
      [] op = "mksquashfs"       -> Squash
      [] op = "test-linuxfs"     -> Verdict(job.linuxfs # "none")
      [] op = "move-linuxfs"     -> OnJob([job EXCEPT !.iso2 = job.linuxfs, !.linuxfs = "none"])
      [] op = "cleanup"          -> Cleanup
      [] op = "cleanup_overlay"  -> CleanupOverlay
      [] op = "xorriso"          -> Xorriso
      [] op = "xorriso-final"    -> XorrisoInPlace
      [] op = "publish-iso"      -> Publish
      [] op = "isohybrid"        -> Isohybrid
      [] OTHER                   -> Maybe({"ok"})

MachineTypeOK == host \in Hosts /\ job \in Jobs /\ world \in Worlds
============================================================================
