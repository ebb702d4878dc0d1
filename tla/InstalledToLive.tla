-------------------------- MODULE InstalledToLive --------------------------
(***************************************************************************)
(* InstalledToLiveCpp, the helper's installed-to-live: one process runs    *)
(* start and then a script of commands, each of which lays template files  *)
(* over the bind root and writes down, in cleanup.conf, what cleanup has   *)
(* to remove from the real root; another process runs cleanup.  The user   *)
(* works on the real root meanwhile, and either process may die.           *)
(*                                                                         *)
(* Under an overlay what is added to the bind root goes to the upper       *)
(* directory; without one the bind root is the real root.  The entries of  *)
(* a template that are links are copied to the real root in both.          *)
(*                                                                         *)
(* cleanup.conf is truncated and then written, and except for start nobody *)
(* looks at how that went: any write may be refused, which leaves the file *)
(* as it was, or leave it empty.  It is shorter than a page, so there is   *)
(* nothing in between.                                                     *)
(***************************************************************************)
EXTENDS Naturals, Sequences

CONSTANTS
    Files, Links,  \* template entries, named by their path
    Folders,       \* the directories they are in
    Folder,        \* Folder[e]: the one e is in
    Scripts,       \* commands that may follow start
    Modes,         \* whether the bind root is an overlay
    MaxLaunches    \* bound: processes started

Entries == Files \cup Links

Empty(folder) == [op |-> "empty", entries |-> {}, folder |-> folder, strict |-> TRUE]
Template(entries, strict) ==
    [op |-> "template", entries |-> entries, folder |-> "none", strict |-> strict]
Adjust(file) == [op |-> "adjust", entries |-> {file}, folder |-> "none", strict |-> FALSE]
Mounts == [op |-> "mounts", entries |-> {}, folder |-> "none", strict |-> TRUE]

Commands ==
    { Empty(folder) : folder \in Folders } \cup { Adjust(f) : f \in Files } \cup {Mounts}
    \cup { Template(entries, TRUE) : entries \in SUBSET Entries }
    \cup { Template(entries, FALSE) : entries \in SUBSET Entries }

ASSUME LiveAssumption ==
    /\ Files \cap Links = {} /\ Entries \cap Folders = {}
    /\ Folder \in [Entries -> Folders] /\ Scripts \subseteq Seq(Commands)
    /\ Modes \subseteq BOOLEAN /\ MaxLaunches \in Nat

VARIABLES
    overlay,   \* the bind root is an overlay of the real root
    real,      \* what is at each path of the real root, and whose it is
    upper,     \* paths added to the overlay
    mounted,   \* the bind root is mounted
    covered,   \* template files bind mounted in it
    emptied,   \* folders of it with an empty directory mounted on them
    scratch,   \* paths added to those directories
    pc,        \* where the process is
    script,    \* its commands left
    left,      \* template entries left of the current one
    mem,       \* Config's rmFiles and rmDirs
    conf,      \* cleanup.conf: "none", "empty" (of no use to a reader) or "whole"
    disk,      \* what a whole one lists
    launches,  \* processes started
    old,       \* history: what the user has had since before the last start
    lost,      \* history: additions whose record was lost with a process, a write or a start
    named,     \* history: what whole records have listed since the last start
    prepared   \* history: the last start went through, with all of its script

rootVars == <<overlay, real, upper, mounted, covered, emptied, scratch>>
processVars == <<pc, script, left, mem, launches>>
recordVars == <<conf, disk>>
historyVars == <<old, lost, named, prepared>>
liveVars == <<rootVars, processVars, recordVars, historyVars>>

Paths == Entries \cup Folders
Nothing == [files |-> {}, dirs |-> {}]
Both(a, b) == [files |-> a.files \cup b.files, dirs |-> a.dirs \cup b.dirs]

Present(p) == real[p] # "absent"
Mine == { e \in Entries : real[e] = "mine" }

(* A link whose target is missing does not exist for fs::exists. *)
Exists(p) == real[p] \notin {"absent", "dangling"}

InView(p) ==
    IF p \in Entries /\ Folder[p] \in emptied THEN p \in scratch ELSE Exists(p) \/ p \in upper

LiveInit ==
    /\ overlay \in Modes
    /\ real \in [Paths -> {"absent", "user", "dangling"}]
    /\ \A p \in Paths : real[p] = "dangling" => p \in Links
    /\ \A e \in Entries : Present(e) => Present(Folder[e])
    /\ upper = {} /\ mounted = FALSE /\ covered = {} /\ emptied = {} /\ scratch = {}
    /\ pc = "idle" /\ script = <<>> /\ left = {} /\ mem = Nothing /\ launches = 0
    /\ conf = "none" /\ disk = Nothing
    /\ old = {} /\ lost = {} /\ named = Nothing /\ prepared = FALSE
----------------------------------------------------------------------------
(* The user, on the real root. *)

UserCreates(e) ==
    /\ real[e] = "absent"
    /\ real' = [real EXCEPT ![e] = "user",
                            ![Folder[e]] = IF @ = "absent" THEN "user" ELSE @]
    /\ UNCHANGED <<overlay, upper, mounted, covered, emptied, scratch, processVars, recordVars,
                   historyVars>>

UserDeletes(e) ==
    /\ real[e] = "user"
    /\ real' = [real EXCEPT ![e] = "absent"]
    /\ old' = old \ {e}
    /\ UNCHANGED <<overlay, upper, mounted, covered, emptied, scratch, processVars, recordVars,
                   lost, named, prepared>>
----------------------------------------------------------------------------
(* start and its script. *)

(* planSetupEnv mounts an overlay anew before each call, on the upper of the last one. *)
Launch(s) ==
    /\ pc = "idle" /\ launches < MaxLaunches
    /\ pc' = "start" /\ script' = s /\ launches' = launches + 1
    /\ left' = {} /\ mem' = Nothing
    /\ mounted' = (mounted \/ overlay)
    /\ covered' = IF overlay THEN {} ELSE covered
    /\ emptied' = IF overlay THEN {} ELSE emptied
    /\ scratch' = IF overlay THEN {} ELSE scratch
    /\ prepared' = FALSE
    /\ UNCHANGED <<overlay, real, upper, recordVars, old, lost, named>>

(* What is on the real root and in no record that is left. *)
Forgotten(record) == lost \cup (Mine \ record.files)

(***************************************************************************)
(* The process ends or dies.  What it alone knows is forgotten: what the   *)
(* command under way has not written down, and everything if the record is *)
(* empty.                                                                  *)
(***************************************************************************)
End ==
    /\ pc' = "idle" /\ script' = <<>> /\ left' = {}
    /\ lost' = IF pc = "entries" \/ conf = "empty" THEN Forgotten(disk) ELSE lost
    /\ UNCHANGED <<mem, launches>>

(* Mutant: the record of an earlier start is kept. *)
StartKeepsRecord ==
    /\ pc = "start" /\ pc' = "command"
    /\ conf' = "whole" /\ UNCHANGED disk
    /\ mounted' = TRUE
    /\ old' = { p \in Paths : real[p] = "user" } /\ lost' = Forgotten(disk) /\ named' = Nothing
    /\ scratch' = {}
    /\ UNCHANGED <<overlay, real, upper, covered, emptied, script, left, mem, launches, prepared>>

(***************************************************************************)
(* doStart -F: the work directory goes, with the record that may be in it, *)
(* and an empty record of the new root is written.  Only a file that       *)
(* cannot be opened is noticed: the text stays in the stream until it is   *)
(* closed, behind the look at its state.                                   *)
(***************************************************************************)
Start ==
    /\ pc = "start" /\ pc' = "command"
    /\ conf' \in {"whole", "empty"} /\ disk' = Nothing
    /\ mounted' = TRUE
    /\ old' = { p \in Paths : real[p] = "user" } /\ lost' = Forgotten(Nothing) /\ named' = Nothing
    /\ scratch' = {}
    /\ UNCHANGED <<overlay, real, upper, covered, emptied, script, left, mem, launches, prepared>>

(* The bind mount failed, the new record was refused, or the process died behind the removal. *)
StartFails ==
    /\ pc = "start" /\ pc' = "idle" /\ script' = <<>> /\ left' = {}
    /\ conf' \in {"none", "empty"} /\ disk' = Nothing
    /\ mounted' \in {mounted, TRUE} /\ (conf' = "empty" => mounted')
    /\ lost' = Forgotten(Nothing) /\ scratch' = {}
    /\ UNCHANGED <<overlay, real, upper, covered, emptied, mem, launches, old, named, prepared>>

(* Mutant: a key that is not in the file is read as an empty list. *)
ReadAsEmpty == disk

(* readConfFile: a key that is not in the file leaves what the process knows. *)
ReadConfFile == IF conf = "whole" THEN disk ELSE mem

(* Every command begins with readConfFile; adjtime and its like skip a missing file. *)
BeginCommand ==
    LET command == Head(script) IN
    /\ pc = "command" /\ script # <<>> /\ conf # "none"
    /\ mem' = ReadConfFile
    /\ IF command.op = "adjust" /\ \E e \in command.entries : ~Exists(e)
       THEN script' = Tail(script) /\ UNCHANGED <<pc, left>>
       ELSE pc' = "entries" /\ left' = command.entries /\ UNCHANGED script
    /\ UNCHANGED <<rootVars, launches, recordVars, historyVars>>

EndScript ==
    /\ pc = "command" /\ (script # <<>> => conf = "none")
    /\ End
    /\ prepared' = (script = <<>>)
    /\ UNCHANGED <<rootVars, recordVars, old, named>>

(* Mutant: files and directories swapped. *)
RecordedSwapped(files, dirs) == [mem EXCEPT !.files = @ \cup dirs, !.dirs = @ \cup files]

Recorded(files, dirs) == [mem EXCEPT !.files = @ \cup files, !.dirs = @ \cup dirs]

(* Mutant: the path is joined to the real root. *)
MakeOnReal(paths) ==
    /\ real' = [p \in Paths |-> IF p \in paths THEN "mine" ELSE real[p]]
    /\ UNCHANGED <<upper, scratch>>

(* Where a path that is made in the bind root comes to lie. *)
Make(paths) ==
    LET inside == { p \in paths : p \in Entries /\ Folder[p] \in emptied } IN
    /\ scratch' = scratch \cup inside
    /\ upper' = IF overlay THEN upper \cup (paths \ inside) ELSE upper
    /\ real' = IF overlay THEN real
               ELSE [p \in Paths |-> IF p \in paths \ inside THEN "mine" ELSE real[p]]

(***************************************************************************)
(* makeDirForBind and touchFileForBind: what is not in the bind root is    *)
(* made there, and recorded if it is not on the real root either.          *)
(***************************************************************************)
TouchFileForBind(f) ==
    LET made == { p \in {f, Folder[f]} : ~InView(p) }
        new  == { p \in made : ~Exists(p) }
    IN  /\ mem' = Recorded(new \cap Entries, new \cap Folders)
        /\ Make(made)

(* A file is touched and bind mounted, unless there is one mounted on it. *)
LayFile(f) ==
    /\ pc = "entries" /\ f \in left \cap Files
    /\ TouchFileForBind(f)
    /\ covered' = covered \cup {f} /\ left' = left \ {f}
    /\ UNCHANGED <<overlay, mounted, emptied, pc, script, launches, recordVars,
                   historyVars>>

(* The file cannot be touched or mounted: the rest of the template is dropped. *)
LayFileFails(f) ==
    /\ pc = "entries" /\ f \in left \cap Files /\ f \notin covered
    /\ \/ UNCHANGED <<mem, upper, real, scratch>>
       \/ TouchFileForBind(f)
    /\ IF Head(script).strict
       THEN /\ pc' = "idle" /\ script' = <<>> /\ left' = {}
            /\ lost' = lost \cup { e \in Entries : real'[e] = "mine" /\ e \notin disk.files }
       ELSE left' = {} /\ UNCHANGED <<pc, script, lost>>
    /\ UNCHANGED <<overlay, mounted, covered, emptied, launches, recordVars, old, named,
                   prepared>>

(***************************************************************************)
(* A link is copied to the real root, and kept if its target exists.  A    *)
(* dangling one that was there is not seen, makes the copy fail, and is    *)
(* what gets removed then.                                                 *)
(***************************************************************************)
LayLink(l, targetExists) ==
    /\ pc = "entries" /\ l \in left \cap Links /\ left' = left \ {l}
    /\ IF Exists(l) THEN UNCHANGED <<mem, real>>
       ELSE LET kept == real[l] = "absent" /\ targetExists IN
            /\ mem' = IF kept THEN Recorded({l}, {}) ELSE mem
            /\ real' = [real EXCEPT ![l] = IF kept THEN "mine" ELSE "absent",
                                    ![Folder[l]] = IF @ = "absent" THEN "mine" ELSE @]
    /\ UNCHANGED <<overlay, upper, mounted, covered, emptied, scratch, pc, script, launches,
                   recordVars, historyVars>>

(* empty= covers its folder, if there is one. *)
CoverFolder ==
    LET folder == Head(script).folder IN
    IF Head(script).op = "empty" /\ InView(folder)
    THEN /\ emptied' = emptied \cup {folder}
         /\ covered' = { f \in covered : Folder[f] # folder }
         /\ scratch' = { e \in scratch : Folder[e] # folder }
    ELSE UNCHANGED <<emptied, covered, scratch>>

(* Mutant: the record stays in memory. *)
WriteNothing == UNCHANGED <<recordVars, lost, named>>

(***************************************************************************)
(* writeConfFile, its result ignored.  Behind a write that was refused the *)
(* next command goes by the old file, if that one is whole; an empty one   *)
(* leaves what the process knows.                                          *)
(***************************************************************************)
WriteConfFile ==
    \/ /\ conf' = "whole" /\ disk' = mem
       /\ named' = Both(named, mem) /\ UNCHANGED lost
    \/ /\ UNCHANGED <<recordVars, named>>
       /\ lost' = IF conf = "whole" THEN Forgotten(disk) ELSE lost
    \/ /\ conf' = "empty" /\ disk' = Nothing
       /\ UNCHANGED <<lost, named>>

(* Every command that comes to its end writes the record. *)
EndCommand ==
    /\ pc = "entries" /\ left = {}
    /\ pc' = "command" /\ script' = Tail(script)
    /\ CoverFolder /\ WriteConfFile
    /\ UNCHANGED <<overlay, real, upper, mounted, left, mem, launches, old, prepared>>

(* The process dies in that write. *)
WriteCutShort ==
    /\ pc = "entries" /\ left = {}
    /\ pc' = "idle" /\ script' = <<>>
    /\ CoverFolder
    /\ conf' = "empty" /\ disk' = Nothing /\ lost' = Forgotten(Nothing)
    /\ UNCHANGED <<overlay, real, upper, mounted, left, mem, launches, old, named, prepared>>

(* A bind mount of bind=, empty= or passwd failed, or the copy of the templates: fatal. *)
CommandFails ==
    /\ pc = "entries" /\ Head(script).strict
    /\ End
    /\ UNCHANGED <<rootVars, recordVars, old, named, prepared>>
----------------------------------------------------------------------------
(* cleanup. *)

(* A record that is missing or empty lists nothing, and the bind root is /.bind-root then. *)
LaunchCleanup ==
    /\ pc = "idle" /\ launches < MaxLaunches
    /\ pc' = "umount" /\ launches' = launches + 1 /\ mem' = disk
    /\ UNCHANGED <<rootVars, script, left, recordVars, historyVars>>

(* Mutant: cleanup goes on when the umount has failed. *)
UmountNotLookedAt ==
    /\ pc = "umount" /\ pc' = "files"
    /\ UNCHANGED <<rootVars, script, left, mem, launches, recordVars, historyVars>>

(* Whether the bind root of Config is the one in use. *)
RootFound == conf = "whole" \/ ~overlay

UmountBindRoot ==
    /\ pc = "umount" /\ pc' = "files"
    /\ IF RootFound
       THEN mounted' = FALSE /\ covered' = {} /\ emptied' = {} /\ scratch' = {} /\ prepared' = FALSE
       ELSE UNCHANGED <<mounted, covered, emptied, scratch, prepared>>
    /\ UNCHANGED <<overlay, real, upper, script, left, mem, launches, recordVars, old, lost,
                   named>>

UmountFails ==
    /\ pc = "umount" /\ mounted /\ RootFound /\ End
    /\ UNCHANGED <<rootVars, recordVars, old, named, prepared>>

RemoveFiles ==
    /\ pc = "files" /\ pc' = "dirs"
    /\ real' = [p \in Paths |-> IF p \in mem.files THEN "absent" ELSE real[p]]
    /\ UNCHANGED <<overlay, upper, mounted, covered, emptied, scratch, script, left, mem, launches,
                   recordVars, historyVars>>

(* fs::remove takes a directory only when it is empty. *)
RemoveDirs ==
    LET used == { Folder[e] : e \in { e \in Entries : Present(e) } } IN
    /\ pc = "dirs" /\ pc' = "record"
    /\ real' = [p \in Paths |-> IF p \in mem.dirs \ used THEN "absent" ELSE real[p]]
    /\ UNCHANGED <<overlay, upper, mounted, covered, emptied, scratch, script, left, mem, launches,
                   recordVars, historyVars>>

RemoveRecord ==
    /\ pc = "record" /\ pc' = "idle"
    /\ conf' = "none" /\ disk' = Nothing /\ scratch' = {}
    /\ UNCHANGED <<overlay, real, upper, mounted, covered, emptied, script, left, mem, launches,
                   historyVars>>
----------------------------------------------------------------------------
Crash ==
    /\ pc # "idle" /\ End
    /\ UNCHANGED <<rootVars, recordVars, old, named, prepared>>

Done ==
    /\ pc = "idle" /\ launches = MaxLaunches
    /\ UNCHANGED liveVars

LiveNext ==
    \/ \E e \in Entries : UserCreates(e) \/ UserDeletes(e)
    \/ \E s \in Scripts : Launch(s)
    \/ Start \/ StartFails \/ BeginCommand \/ EndScript
    \/ \E f \in Files : LayFile(f) \/ LayFileFails(f)
    \/ \E l \in Links, targetExists \in BOOLEAN : LayLink(l, targetExists)
    \/ EndCommand \/ WriteCutShort \/ CommandFails
    \/ LaunchCleanup \/ UmountBindRoot \/ UmountFails
    \/ RemoveFiles \/ RemoveDirs \/ RemoveRecord
    \/ Crash \/ Done

LiveSpec == LiveInit /\ [][LiveNext]_liveVars
----------------------------------------------------------------------------
Lists == [files : SUBSET Entries, dirs : SUBSET Folders]

LiveTypeOK ==
    /\ overlay \in BOOLEAN
    /\ real \in [Paths -> {"absent", "user", "dangling", "mine"}]
    /\ upper \subseteq Paths /\ mounted \in BOOLEAN /\ covered \subseteq Files
    /\ emptied \subseteq Folders /\ scratch \subseteq Entries
    /\ pc \in {"idle", "start", "command", "entries", "umount", "files", "dirs", "record"}
    /\ script \in Seq(Commands) /\ left \subseteq Entries
    /\ mem \in Lists /\ disk \in Lists /\ conf \in {"none", "empty", "whole"}
    /\ conf # "whole" => disk = Nothing
    /\ launches \in 0..MaxLaunches
    /\ old \subseteq Paths /\ lost \subseteq Entries /\ named \in Lists /\ prepared \in BOOLEAN

(* Where the additions are written down, or will be with the next record. *)
Known == IF pc = "command" THEN ReadConfFile.files ELSE disk.files

(***************************************************************************)
(* Whatever installed-to-live has put on the real root is in cleanup.conf  *)
(* between two commands and between two processes; while a write that      *)
(* failed has left that file empty, the process still knows, and the next  *)
(* write brings it back.  Excused is what a process knew alone that died   *)
(* or ended, what a refused write did not get into the old file, and what  *)
(* a later start has thrown away.                                          *)
(***************************************************************************)
AdditionsAreRecorded == pc \in {"idle", "command"} => Mine \subseteq Known \cup lost

(***************************************************************************)
(* What the user has had since before the start outlives it, through every *)
(* sequence of commands, failures, crashes and cleanups.                   *)
(***************************************************************************)
OldPathsSurvive == \A p \in old : real[p] = "user"

(***************************************************************************)
(* With an overlay no template file ever gets onto the running system,     *)
(* whatever was emptied, left mounted or deleted meanwhile.                *)
(***************************************************************************)
OverlayProtectsReal == overlay => Mine \subseteq Links

(***************************************************************************)
(* A cleanup.conf that is whole lists all that any whole one before it has *)
(* listed since the start: what a failed write empties comes back in full  *)
(* or not at all.                                                          *)
(***************************************************************************)
RecordOnlyGrows ==
    conf = "whole" => named.files \subseteq disk.files /\ named.dirs \subseteq disk.dirs

(***************************************************************************)
(* Seen from a run of the program, which only knows bind roots with an     *)
(* overlay: whatever the process dies in and whichever write fails, a root *)
(* is prepared only with a record of it, and cleanup gives up a whole      *)
(* record only with the root.                                              *)
(***************************************************************************)
Root == INSTANCE BindRoot WITH
    mounted <- overlay /\ mounted, prepared <- overlay /\ prepared,
    record <- IF overlay THEN conf ELSE "none"

KeepsBindRoot == Root!RootSpec
============================================================================
