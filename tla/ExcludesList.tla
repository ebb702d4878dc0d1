---------------------------- MODULE ExcludesList ----------------------------
(***************************************************************************)
(* The user's exclusion list and the default it came from: the prompt that *)
(* offers an updated default, "Use Updated Default", "Keep Custom" and     *)
(* Revert, in the window (where every box runs an event loop, in which the *)
(* watcher of the file may open the next) and at the command line.  Other  *)
(* programs, the user's editor first of all, write to the files meanwhile. *)
(***************************************************************************)
EXTENDS Naturals, Sequences, FiniteSets

CONSTANTS
    MaxUpdates,   \* bound: updates of the default list
    MaxSaves,     \* bound: times the user saves a list
    MaxDepth      \* bound: boxes over one another

ASSUME ExcludesAssumption ==
    MaxUpdates \in Nat /\ MaxSaves \in Nat /\ MaxDepth \in Nat \ {0}

None == <<"none", 0>>
User(n) == <<"user", n>>
Default(n) == <<"default", n>>

Boxes == {"prompt", "diff", "question", "warned", "error"}
Busy == {"backup", "remove", "copy"}

VARIABLES
    program,   \* "window" or "cli"
    source,    \* version of the default list
    list,      \* content of the configured list, None when there is no such file
    newer,     \* the default was modified after the list
    ahead,     \* the default's time of modification is not over yet: no touch beats it
    backups,   \* contents of the copies <list>.yyyyMMddhhmmss
    taken,     \* one of them bears the present second
    watch,     \* the watcher's idea of the list: "on", "stale" once its file is gone, "off"
    event,     \* a fileChanged is waiting for the event loop
    frames,    \* calls of the thread, the innermost first: where it is, who called
    saves,     \* versions the user has saved
    removed,   \* history: contents of the user's that a reset has removed
    excused,   \* history: those whose copy failed, or that were saved behind it
    cause      \* history: something has changed since the question was settled

fileVars == <<source, list, newer, ahead, backups, taken>>
threadVars == <<program, watch, event, frames>>
historyVars == <<saves, removed, excused, cause>>
excludesVars == <<fileVars, threadVars, historyVars>>

ExcludesInit ==
    /\ program \in {"window", "cli"}
    /\ source = 1 /\ list \in {Default(0), Default(1), User(1)}
    /\ newer \in BOOLEAN /\ ahead \in {FALSE, newer} /\ backups = {} /\ taken = FALSE
    /\ watch = IF program = "window" THEN "on" ELSE "off"
    /\ event = FALSE /\ frames = <<>>
    /\ saves = 1 /\ removed = {} /\ excused = {} /\ cause = TRUE

Place == IF frames = <<>> THEN "loop" ELSE Head(frames).at
At(place) == Place = place
Caller == Head(frames).by
GoTo(place) == frames' = <<[Head(frames) EXCEPT !.at = place]>> \o Tail(frames)
Enter(place, caller) == frames' = <<[at |-> place, by |-> caller]>> \o frames

(* The thread is in an event loop: that of the program, or that of a box. *)
Listening == program = "window" /\ Place \in Boxes \cup {"loop"}

(* isSourceExcludesNewer: the times first, then diff. *)
Outdated == list # None /\ newer /\ list # Default(source)

(* watchExcludesFile, which takes the watcher's word for what it watches. *)
Rewatched(w, content) == IF w = "off" /\ content # None /\ program = "window" THEN "on" ELSE w

(* The file behind the path was removed, or something was written to it. *)
Replaced == watch' = IF watch = "on" THEN "stale" ELSE watch
Noticed == event' = (event \/ watch = "on")
----------------------------------------------------------------------------
(* checkUpdatedDefaultExcludes. *)

(* A change of the file: the button, the check, and the file watched again. *)
Deliver ==
    /\ Listening /\ event /\ event' = FALSE /\ Len(frames) < MaxDepth
    /\ LET known == IF watch = "stale" THEN "off" ELSE watch
       IN  IF Outdated
           THEN Enter("prompt", "watcher") /\ watch' = known
           ELSE watch' = Rewatched(known, list) /\ UNCHANGED frames
    /\ UNCHANGED <<program, fileVars, historyVars>>

(* Edit, Next, or the start of a CLI run; boxes are modal. *)
Check ==
    /\ frames = <<>> /\ Outdated /\ Enter("prompt", "user")
    /\ UNCHANGED <<program, fileVars, watch, event, historyVars>>

ShowDiff ==
    /\ At("prompt") /\ GoTo("diff")
    /\ UNCHANGED <<program, fileVars, watch, event, historyVars>>

CloseDiff ==
    /\ At("diff") /\ GoTo("prompt")
    /\ UNCHANGED <<program, fileVars, watch, event, historyVars>>

(* The call is over; the watcher's handler goes on to watch the file again. *)
Done ==
    /\ frames' = Tail(frames)
    /\ watch' = IF Caller = "watcher" THEN Rewatched(watch, list) ELSE watch

(* The prompt is closed (the CLI then quits), or an error is acknowledged. *)
Dismiss ==
    /\ At("prompt") \/ At("question") \/ At("error")
    /\ Done
    /\ UNCHANGED <<program, fileVars, event, historyVars>>

(* Mutant: the time of the list is left as it is. *)
KeepUntouched ==
    /\ At("prompt") /\ Done /\ cause' = (list = None \/ ahead)
    /\ event' = (event \/ watch = "on") /\ UNCHANGED <<program, fileVars, saves, removed, excused>>

(* Keep Custom: utime, which the watcher notices. *)
Keep ==
    /\ At("prompt") /\ Done
    /\ newer' = IF list = None THEN newer ELSE newer /\ ahead
    /\ cause' = (list = None \/ ahead)
    /\ event' = (event \/ (list # None /\ watch = "on"))
    /\ UNCHANGED <<program, source, list, ahead, backups, taken, saves, removed, excused>>

Use ==
    /\ At("prompt") /\ GoTo("backup")
    /\ UNCHANGED <<program, fileVars, watch, event, historyVars>>

(* btnRemoveCustomExclude_clicked. *)
AskRevert ==
    /\ program = "window" /\ frames = <<>> /\ list # Default(source) /\ Enter("question", "user")
    /\ UNCHANGED <<program, fileVars, watch, event, historyVars>>

Revert ==
    /\ At("question") /\ GoTo("backup")
    /\ UNCHANGED <<program, fileVars, watch, event, historyVars>>
----------------------------------------------------------------------------
(* resetCustomExcludes. *)

(* Mutant: the second copy of a second replaces the first. *)
BackUpOver ==
    /\ At("backup") /\ list # None
    /\ GoTo("remove") /\ taken' = TRUE
    /\ backups' = IF taken THEN {list} ELSE backups \cup {list}
    /\ UNCHANGED <<program, source, list, newer, ahead, watch, event, historyVars>>

(* A copy never replaces a file: the second of a second fails. *)
BackUp ==
    /\ At("backup") /\ list # None /\ ~taken
    /\ GoTo("remove") /\ taken' = TRUE /\ backups' = backups \cup {list}
    /\ UNCHANGED <<program, source, list, newer, ahead, watch, event, historyVars>>

NothingToBackUp ==
    /\ At("backup") /\ list = None /\ GoTo("copy")
    /\ UNCHANGED <<program, fileVars, watch, event, historyVars>>

(* The window says so and goes on, the CLI goes on. *)
BackUpFails ==
    /\ At("backup") /\ list # None
    /\ GoTo(IF program = "window" THEN "warned" ELSE "remove")
    /\ excused' = excused \cup {list}
    /\ UNCHANGED <<program, fileVars, watch, event, saves, removed, cause>>

Acknowledge ==
    /\ At("warned") /\ GoTo("remove")
    /\ UNCHANGED <<program, fileVars, watch, event, historyVars>>

Remove ==
    /\ At("remove") /\ list # None /\ GoTo("copy")
    /\ list' = None /\ Replaced /\ Noticed
    /\ removed' = IF list[1] = "user" THEN removed \cup {list} ELSE removed
    /\ UNCHANGED <<program, source, newer, ahead, backups, taken, saves, excused, cause>>

(* resetCustomExcludes has failed: a box, or nothing at the command line. *)
Fails == IF program = "window" THEN GoTo("error") /\ UNCHANGED watch ELSE Done

(* Also when somebody else has removed the list in the meantime. *)
RemoveFails ==
    /\ At("remove") /\ Fails
    /\ UNCHANGED <<program, fileVars, event, historyVars>>

(* The list is watched again, if the watcher knows already that it was not. *)
Copy ==
    /\ At("copy") /\ list = None
    /\ list' = Default(source) /\ newer' = ahead
    /\ frames' = Tail(frames) /\ watch' = Rewatched(watch, list') /\ cause' = FALSE
    /\ UNCHANGED <<program, source, ahead, backups, taken, event, saves, removed, excused>>

(* No space, or a list has appeared that the copy does not replace. *)
CopyFails ==
    /\ At("copy") /\ Fails
    /\ UNCHANGED <<program, fileVars, event, historyVars>>
----------------------------------------------------------------------------
(* Other programs. *)

(* Some reset has copied the list, or tried to, and will remove it. *)
Doomed == \E i \in 1..Len(frames) : frames[i].at \in {"warned", "remove"}

(* An editor writes to the file, or puts another one in its place. *)
UserSaves ==
    /\ saves < MaxSaves /\ saves' = saves + 1
    /\ list' = User(saves') /\ newer' = ahead /\ cause' = TRUE /\ Noticed
    /\ Replaced \/ UNCHANGED watch
    /\ excused' = IF Doomed THEN excused \cup {list'} ELSE excused
    /\ UNCHANGED <<program, source, ahead, backups, taken, frames, removed>>

UserRemoves ==
    /\ list # None /\ list' = None /\ Replaced /\ Noticed /\ cause' = TRUE
    /\ UNCHANGED <<program, source, newer, ahead, backups, taken, frames, saves, removed, excused>>

(* A package brings a default with the time at which it was built. *)
SourceUpdates ==
    /\ source <= MaxUpdates /\ source' = source + 1
    /\ newer' \in BOOLEAN /\ ahead' \in {FALSE, newer'} /\ cause' = TRUE
    /\ UNCHANGED <<program, list, backups, taken, watch, event, frames, saves, removed, excused>>

Tick ==
    /\ taken \/ ahead
    /\ taken' = FALSE /\ ahead' \in {FALSE, ahead}
    /\ UNCHANGED <<program, source, list, newer, backups, threadVars, historyVars>>

ExcludesNext ==
    \/ Deliver \/ Check \/ ShowDiff \/ CloseDiff \/ Dismiss \/ Keep \/ Use
    \/ AskRevert \/ Revert
    \/ BackUp \/ NothingToBackUp \/ BackUpFails \/ Acknowledge
    \/ Remove \/ RemoveFails \/ Copy \/ CopyFails
    \/ UserSaves \/ UserRemoves \/ SourceUpdates \/ Tick

ExcludesSpec == ExcludesInit /\ [][ExcludesNext]_excludesVars
----------------------------------------------------------------------------
Contents == {None} \cup {User(n) : n \in 1..MaxSaves + 1} \cup {Default(n) : n \in 0..MaxUpdates + 1}

ExcludesTypeOK ==
    /\ program \in {"window", "cli"} /\ source \in 1..MaxUpdates + 1
    /\ list \in Contents /\ newer \in BOOLEAN /\ ahead \in BOOLEAN
    /\ backups \subseteq Contents /\ taken \in BOOLEAN
    /\ watch \in {"on", "stale", "off"} /\ event \in BOOLEAN
    /\ frames \in Seq([at : Boxes \cup Busy, by : {"watcher", "user"}]) /\ Len(frames) <= MaxDepth
    /\ \A i \in 2..Len(frames) : frames[i].at \in Boxes
    /\ watch = "on" => list # None
    /\ saves \in 1..MaxSaves + 1 /\ removed \subseteq Contents /\ excused \subseteq Contents
    /\ cause \in BOOLEAN

(***************************************************************************)
(* However prompts nest and whoever writes meanwhile, what the user has    *)
(* saved is removed only behind a copy of it, unless that copy failed or   *)
(* the user saved it between the copy and the removal.                     *)
(***************************************************************************)
UserListSurvives == removed \subseteq backups \cup excused

(***************************************************************************)
(* An answer settles the question: neither the touch of "Keep Custom" nor  *)
(* the removal and copy of "Use Updated Default", which the watcher        *)
(* reports both, makes it open the prompt before something else changes.   *)
(* The exception is a default whose time of modification lies ahead.       *)
(***************************************************************************)
WatcherAsks == Len(frames') > Len(frames) /\ Head(frames') = [at |-> "prompt", by |-> "watcher"]
PromptHasCause == [][WatcherAsks => cause]_excludesVars
============================================================================
