----------------------- MODULE InstalledToLiveProofs -----------------------
(***************************************************************************)
(* For every set of templates, scripts and sessions: what installed-to-    *)
(* live has added is recorded or known to be lost, and what it did not add *)
(* survives it.                                                            *)
(***************************************************************************)
EXTENDS InstalledToLive, TLAPS

(* A process that may know more than what is on disk. *)
Working == pc \in {"command", "entries", "umount", "files", "dirs", "record"}

ScriptRuns == pc = "entries" => script # <<>> /\ Head(script) \in Commands

(* No record lists what the user had before the start. *)
RecordsSpareOld ==
    /\ disk.files \cap old = {} /\ disk.dirs \cap old = {}
    /\ Working => mem.files \cap old = {} /\ mem.dirs \cap old = {}

(* Where an addition is known of, at every place of a process. *)
AdditionsAreKnown ==
    /\ pc \in {"idle", "start", "umount", "files"} => Mine \subseteq disk.files \cup lost
    /\ pc = "command" => Mine \subseteq ReadConfFile.files \cup lost
    /\ pc = "entries" => Mine \subseteq mem.files \cup lost
    /\ pc \in {"dirs", "record"} => Mine \subseteq lost
    /\ pc \in {"umount", "files"} => mem = disk
    /\ pc = "start" => mem = Nothing
    /\ pc \in {"command", "entries"} => conf # "none"

LiveInv ==
    /\ LiveTypeOK /\ ScriptRuns /\ OldPathsSurvive /\ OverlayProtectsReal
    /\ RecordsSpareOld /\ AdditionsAreKnown

USE LiveAssumption

LEMMA NothingListed == Nothing \in Lists
  BY DEF Nothing, Lists

LEMMA BothListed == \A a, b \in Lists : Both(a, b) \in Lists
  BY DEF Both, Lists

LEMMA RecordedAdds ==
    ASSUME mem \in Lists, NEW files \in SUBSET Entries, NEW dirs \in SUBSET Folders
    PROVE  /\ Recorded(files, dirs) \in Lists
           /\ Recorded(files, dirs).files = mem.files \cup files
           /\ Recorded(files, dirs).dirs = mem.dirs \cup dirs
  BY DEF Recorded, Lists

(* What a command goes by is on disk or in memory. *)
LEMMA ReadFromEither == ReadConfFile = disk \/ ReadConfFile = mem
  BY DEF ReadConfFile

LEMMA CommandParts ==
    ASSUME NEW c \in Commands
    PROVE  c.entries \subseteq Entries /\ (c.op = "empty" => c.folder \in Folders)
  <1>1. CASE c \in { Empty(folder) : folder \in Folders }
    BY <1>1 DEF Empty
  <1>2. CASE c \in { Adjust(f) : f \in Files }
    BY <1>2 DEF Adjust, Entries
  <1>3. CASE c = Mounts
    BY <1>3 DEF Mounts
  <1>4. CASE c \in { Template(entries, TRUE) : entries \in SUBSET Entries }
                   \cup { Template(entries, FALSE) : entries \in SUBSET Entries }
    BY <1>4 DEF Template
  <1> QED
    BY <1>1, <1>2, <1>3, <1>4 DEF Commands

LEMMA LiveInitInv == LiveInit => LiveInv
  <1> SUFFICES ASSUME LiveInit PROVE LiveInv
    OBVIOUS
  <1> USE DEF LiveInit, Nothing
  <1>1. mem \in Lists /\ disk \in Lists /\ named \in Lists
    BY DEF Lists
  <1>2. launches \in 0..MaxLaunches /\ script \in Seq(Commands) /\ overlay \in BOOLEAN
    OBVIOUS
  <1>3. real \in [Paths -> {"absent", "user", "dangling", "mine"}]
    OBVIOUS
  <1>4. LiveTypeOK
    BY <1>1, <1>2, <1>3 DEF LiveTypeOK
  <1>5. Mine = {}
    BY DEF Mine, Paths
  <1> QED
    BY <1>4, <1>5 DEF LiveInv, ScriptRuns, OldPathsSurvive, OverlayProtectsReal, RecordsSpareOld,
                      AdditionsAreKnown, Working
----------------------------------------------------------------------------
(* The user. *)

LEMMA UserKeepsInv ==
    ASSUME LiveInv, NEW e \in Entries, UserCreates(e) \/ UserDeletes(e)
    PROVE  LiveInv'
  <1> USE DEF LiveInv, processVars, recordVars, historyVars
  <1>1. /\ UNCHANGED <<overlay, upper, mounted, covered, emptied, scratch, pc, script, left, mem,
                       launches, conf, disk, lost, named, prepared>>
        /\ old' \subseteq old
    BY DEF UserCreates, UserDeletes
  <1>2. /\ e \in Paths /\ Folder[e] \in Paths /\ Folder[e] \notin Entries
        /\ real \in [Paths -> {"absent", "user", "dangling", "mine"}]
    BY DEF Paths, LiveTypeOK, LiveAssumption
  <1>3. real' \in [Paths -> {"absent", "user", "dangling", "mine"}]
    BY <1>2 DEF UserCreates, UserDeletes
  <1>4. \A p \in Paths : real'[p] = "mine" => real[p] = "mine"
    BY <1>2 DEF UserCreates, UserDeletes
  <1>5. \A p \in old' : real'[p] = "user"
    BY <1>2 DEF UserCreates, UserDeletes, OldPathsSurvive, LiveTypeOK
  <1>6. Mine' \subseteq Mine
    BY <1>4 DEF Mine, Paths
  <1>7. LiveTypeOK'
    BY <1>1, <1>3 DEF LiveTypeOK
  <1> QED
    BY <1>1, <1>5, <1>6, <1>7 DEF ScriptRuns, OldPathsSurvive, OverlayProtectsReal,
        RecordsSpareOld, AdditionsAreKnown, ReadConfFile, Working
----------------------------------------------------------------------------
(* Steps that leave the real root as it is. *)

LEMMA EndKeepsInv ==
    ASSUME LiveInv, pc # "idle", End, UNCHANGED <<rootVars, recordVars, old, named>>,
           prepared' \in BOOLEAN
    PROVE  LiveInv'
  <1> USE DEF LiveInv, rootVars, recordVars
  <1>1. Mine' = Mine /\ lost \subseteq lost' /\ lost' \subseteq lost \cup Mine
    BY DEF End, Mine, Forgotten
  <1>2. Mine' \subseteq disk'.files \cup lost'
    <2>1. CASE pc = "entries" \/ conf = "empty"
      BY <1>1, <2>1 DEF End, Forgotten
    <2>2. CASE pc # "entries" /\ conf # "empty"
      <3>1. pc = "command" => ReadConfFile = disk
        BY <2>2 DEF ReadConfFile, AdditionsAreKnown, LiveTypeOK
      <3>2. Mine \subseteq disk.files \cup lost
        BY <2>2, <3>1 DEF AdditionsAreKnown, LiveTypeOK
      <3> QED
        BY <1>1, <3>2
    <2> QED
      BY <2>1, <2>2
  <1>3. script' \in Seq(Commands) /\ lost' \subseteq Entries
    BY <1>1 DEF End, Mine, LiveTypeOK
  <1>4. LiveTypeOK'
    BY <1>3 DEF LiveTypeOK, End
  <1> QED
    BY <1>1, <1>2, <1>4 DEF End, ScriptRuns, OldPathsSurvive, OverlayProtectsReal, RecordsSpareOld,
        AdditionsAreKnown, Working

LEMMA StartKeepsInv ==
    ASSUME LiveInv, (\E s \in Scripts : Launch(s)) \/ Start \/ StartFails
    PROVE  LiveInv'
  <1> USE DEF LiveInv, rootVars, recordVars, historyVars
  <1>1. UNCHANGED <<overlay, real, upper>> /\ Mine' = Mine
    BY DEF Launch, Start, StartFails, Mine
  <1>2. /\ mem' \in Lists /\ disk' \in Lists /\ named' \in Lists
        /\ conf' \in {"none", "empty", "whole"} /\ (conf' # "whole" => disk' = Nothing)
    BY NothingListed DEF Launch, Start, StartFails, LiveTypeOK
  <1>3. script' \in Seq(Commands)
    <2>1. script \in Seq(Commands) /\ Scripts \subseteq Seq(Commands)
      BY DEF LiveTypeOK, LiveAssumption
    <2>2. CASE \E s \in Scripts : Launch(s)
      <3>1. script' \in Scripts
        BY Zenon, <2>2 DEF Launch
      <3> QED
        BY Zenon, <2>1, <3>1
    <2>3. CASE Start \/ StartFails
      <3>1. script' = script \/ script' = <<>>
        BY <2>3 DEF Start, StartFails
      <3>2. <<>> \in Seq(Commands)
        OBVIOUS
      <3> QED
        BY Zenon, <2>1, <3>1, <3>2
    <2> QED
      BY <2>2, <2>3
  <1>0. launches' \in 0..MaxLaunches
    <2>1. launches \in 0..MaxLaunches /\ MaxLaunches \in Nat
      BY DEF LiveTypeOK, LiveAssumption
    <2>2. launches' = launches \/ (launches < MaxLaunches /\ launches' = launches + 1)
      BY DEF Launch, Start, StartFails
    <2> QED
      BY <2>1, <2>2
  <1>4. old' \subseteq Paths /\ lost' \subseteq Entries
    BY DEF Launch, Start, StartFails, LiveTypeOK, Forgotten, Mine
  <1>5. /\ mounted' \in BOOLEAN /\ covered' \subseteq Files /\ emptied' \subseteq Folders
        /\ scratch' \subseteq Entries /\ left' \subseteq Entries
        /\ pc' \in {"idle", "start", "command"} /\ prepared' \in BOOLEAN
    BY DEF Launch, Start, StartFails, LiveTypeOK
  <1>6. LiveTypeOK'
    BY <1>0, <1>1, <1>2, <1>3, <1>4, <1>5 DEF LiveTypeOK
  <1>7. OldPathsSurvive'
    BY <1>1 DEF Launch, Start, StartFails, OldPathsSurvive, LiveTypeOK
  <1>8. RecordsSpareOld'
    <2>1. \/ disk' = disk /\ old' = old /\ pc' # "command"
          \/ disk' = Nothing /\ (pc' = "command" => mem' = Nothing)
      BY DEF Launch, Start, StartFails, AdditionsAreKnown
    <2>2. Working' => pc' = "command"
      BY <1>5 DEF Working
    <2> QED
      BY <2>1, <2>2 DEF RecordsSpareOld, Nothing
  <1>9. Mine' \subseteq disk'.files \cup lost'
    BY <1>1 DEF Launch, Start, StartFails, AdditionsAreKnown, Forgotten, Nothing
  <1>10. pc' \in {"start", "command"} => mem' = Nothing
    BY DEF Launch, Start, StartFails, AdditionsAreKnown
  <1>11. pc' = "command" => ReadConfFile'.files = disk'.files /\ conf' # "none"
    BY <1>10 DEF Launch, Start, StartFails, ReadConfFile
  <1> QED
    BY <1>1, <1>5, <1>6, <1>7, <1>8, <1>9, <1>10, <1>11
       DEF ScriptRuns, OverlayProtectsReal, AdditionsAreKnown

LEMMA BeginKeepsInv ==
    ASSUME LiveInv, BeginCommand
    PROVE  LiveInv'
  <1> USE DEF LiveInv, rootVars, recordVars, historyVars
  <1>1. /\ UNCHANGED <<rootVars, launches, recordVars, historyVars>> /\ Mine' = Mine
        /\ mem' = ReadConfFile /\ pc = "command" /\ pc' \in {"command", "entries"} /\ conf # "none"
    BY DEF BeginCommand, Mine
  <1>2. script # <<>> /\ script \in Seq(Commands)
    BY DEF BeginCommand, LiveTypeOK
  <1>3. Head(script) \in Commands /\ Tail(script) \in Seq(Commands)
    BY <1>2
  <1>4. Head(script).entries \subseteq Entries
    BY <1>3, CommandParts
  <1>5. script' \in Seq(Commands) /\ left' \subseteq Entries
    BY <1>2, <1>3, <1>4 DEF BeginCommand, LiveTypeOK
  <1>6. mem' \in Lists
    BY <1>1, ReadFromEither DEF LiveTypeOK
  <1>7. LiveTypeOK'
    BY <1>1, <1>5, <1>6 DEF LiveTypeOK
  <1>8. ScriptRuns'
    BY <1>2, <1>3 DEF ScriptRuns, BeginCommand
  <1>9. RecordsSpareOld'
    BY <1>1, ReadFromEither DEF RecordsSpareOld, Working
  <1>10. ReadConfFile' = mem'
    BY <1>1 DEF ReadConfFile
  <1>11. AdditionsAreKnown'
    BY <1>1, <1>10 DEF AdditionsAreKnown
  <1> QED
    BY <1>1, <1>7, <1>8, <1>9, <1>11 DEF OldPathsSurvive, OverlayProtectsReal

(* Whatever becomes of the write, nothing but what is in memory gets into the record. *)
LEMMA WriteIsSafe ==
    ASSUME LiveTypeOK, WriteConfFile
    PROVE  /\ disk' \in Lists /\ named' \in Lists
           /\ conf' \in {"none", "empty", "whole"} /\ (conf' # "whole" => disk' = Nothing)
           /\ conf # "none" => conf' # "none"
           /\ disk' \in {disk, mem, Nothing}
           /\ lost \subseteq lost' /\ lost' \subseteq lost \cup Mine
  BY NothingListed, BothListed DEF WriteConfFile, LiveTypeOK, recordVars, Forgotten

(* After the write, the next command knows of the additions, or they are forgotten. *)
LEMMA WriteKeepsKnown ==
    ASSUME LiveTypeOK, WriteConfFile, mem' = mem, Mine \subseteq mem.files \cup lost
    PROVE  Mine \subseteq ReadConfFile'.files \cup lost'
  <1>1. CASE conf' = "whole" /\ disk' = mem /\ UNCHANGED lost
    BY <1>1 DEF ReadConfFile
  <1>2. CASE UNCHANGED recordVars /\ lost' = IF conf = "whole" THEN Forgotten(disk) ELSE lost
    BY <1>2 DEF ReadConfFile, recordVars, Forgotten
  <1>3. CASE conf' = "empty" /\ UNCHANGED lost
    BY <1>3 DEF ReadConfFile
  <1> QED
    BY <1>1, <1>2, <1>3 DEF WriteConfFile

LEMMA CoverIsSafe ==
    ASSUME LiveTypeOK, ScriptRuns, pc = "entries", CoverFolder
    PROVE  /\ covered' \subseteq Files /\ scratch' \subseteq Entries /\ emptied' \subseteq Folders
  <1>1. Head(script).op = "empty" => Head(script).folder \in Folders
    BY CommandParts DEF ScriptRuns
  <1> QED
    BY <1>1 DEF CoverFolder, LiveTypeOK

LEMMA EndCommandKeepsInv ==
    ASSUME LiveInv, EndCommand
    PROVE  LiveInv'
  <1> USE DEF LiveInv
  <1>1. /\ UNCHANGED <<overlay, real, upper, mounted, left, mem, launches, old, prepared>>
        /\ Mine' = Mine /\ pc = "entries" /\ pc' = "command" /\ script' = Tail(script)
        /\ CoverFolder /\ WriteConfFile
    BY DEF EndCommand, Mine
  <1>2. script' \in Seq(Commands)
    BY <1>1 DEF ScriptRuns, LiveTypeOK
  <1>3. covered' \subseteq Files /\ scratch' \subseteq Entries /\ emptied' \subseteq Folders
    BY <1>1, CoverIsSafe
  <1>4. /\ disk' \in Lists /\ named' \in Lists
        /\ conf' \in {"none", "empty", "whole"} /\ (conf' # "whole" => disk' = Nothing)
        /\ conf # "none" => conf' # "none"
        /\ disk' \in {disk, mem, Nothing}
        /\ lost \subseteq lost' /\ lost' \subseteq lost \cup Mine
    BY <1>1, WriteIsSafe
  <1>5. lost' \subseteq Entries
    BY <1>4 DEF Mine, LiveTypeOK
  <1>6. LiveTypeOK'
    BY <1>1, <1>2, <1>3, <1>4, <1>5 DEF LiveTypeOK
  <1>7. RecordsSpareOld'
    BY <1>1, <1>4 DEF RecordsSpareOld, Working, Nothing
  <1>8. Mine \subseteq ReadConfFile'.files \cup lost'
    BY <1>1, WriteKeepsKnown DEF AdditionsAreKnown
  <1>9. AdditionsAreKnown'
    BY <1>1, <1>4, <1>8 DEF AdditionsAreKnown
  <1> QED
    BY <1>1, <1>6, <1>7, <1>9 DEF ScriptRuns, OldPathsSurvive, OverlayProtectsReal

LEMMA CutShortKeepsInv ==
    ASSUME LiveInv, WriteCutShort
    PROVE  LiveInv'
  <1> USE DEF LiveInv
  <1>1. /\ UNCHANGED <<overlay, real, upper, mounted, left, mem, launches, old, named, prepared>>
        /\ Mine' = Mine /\ pc = "entries" /\ pc' = "idle" /\ script' = <<>> /\ CoverFolder
        /\ conf' = "empty" /\ disk' = Nothing /\ lost' = lost \cup (Mine \ Nothing.files)
    BY DEF WriteCutShort, Mine, Forgotten
  <1>2. covered' \subseteq Files /\ scratch' \subseteq Entries /\ emptied' \subseteq Folders
    BY <1>1, CoverIsSafe
  <1>3. lost' \subseteq Entries /\ script' \in Seq(Commands)
    BY <1>1 DEF Mine, LiveTypeOK
  <1>4. LiveTypeOK'
    BY <1>1, <1>2, <1>3, NothingListed DEF LiveTypeOK
  <1>5. RecordsSpareOld'
    BY <1>1 DEF RecordsSpareOld, Working, Nothing
  <1>6. AdditionsAreKnown'
    BY <1>1 DEF AdditionsAreKnown
  <1> QED
    BY <1>1, <1>4, <1>5, <1>6 DEF ScriptRuns, OldPathsSurvive, OverlayProtectsReal
----------------------------------------------------------------------------
(* Template entries. *)

LEMMA TouchIsSafe ==
    ASSUME LiveInv, pc = "entries", NEW f \in Files, TouchFileForBind(f)
    PROVE  /\ real' \in [Paths -> {"absent", "user", "dangling", "mine"}]
           /\ upper' \subseteq Paths /\ scratch' \subseteq Entries
           /\ mem' \in Lists
           /\ mem'.files \cap old = {} /\ mem'.dirs \cap old = {}
           /\ mem.files \subseteq mem'.files
           /\ Mine' \subseteq mem'.files \cup lost
           /\ overlay => Mine' = Mine
           /\ \A p \in old : real'[p] = "user"
  <1> DEFINE made == { p \in {f, Folder[f]} : ~InView(p) }
             new  == { p \in made : ~Exists(p) }
             inside == { p \in made : p \in Entries /\ Folder[p] \in emptied }
  <1> USE DEF LiveInv
  <1>1. /\ f \in Entries /\ Folder[f] \in Folders /\ made \subseteq Paths
        /\ Folder[f] \notin Entries /\ Entries \cap Folders = {}
    BY DEF Paths, Entries, LiveAssumption
  <1>2. /\ mem' = Recorded(new \cap Entries, new \cap Folders)
        /\ scratch' = scratch \cup inside
        /\ upper' = IF overlay THEN upper \cup (made \ inside) ELSE upper
        /\ real' = IF overlay THEN real
                   ELSE [p \in Paths |-> IF p \in made \ inside THEN "mine" ELSE real[p]]
    BY DEF TouchFileForBind, Make
  <1>3. mem' = [mem EXCEPT !.files = @ \cup (new \cap Entries), !.dirs = @ \cup (new \cap Folders)]
    BY <1>2 DEF Recorded
  <1>4. mem \in Lists
    BY DEF LiveTypeOK
  <1>5. /\ mem'.files = mem.files \cup (new \cap Entries)
        /\ mem'.dirs = mem.dirs \cup (new \cap Folders)
        /\ mem' \in Lists
    BY <1>3, <1>4 DEF Lists
  <1>6. /\ real \in [Paths -> {"absent", "user", "dangling", "mine"}]
        /\ upper \subseteq Paths /\ scratch \subseteq Entries /\ old \subseteq Paths
    BY DEF LiveTypeOK
  <1>7. real' \in [Paths -> {"absent", "user", "dangling", "mine"}]
    BY <1>2, <1>6
  <1>8. upper' \subseteq Paths /\ scratch' \subseteq Entries
    BY <1>1, <1>2, <1>6
  <1>9. \A p \in new : p \notin old
    BY DEF OldPathsSurvive, Exists
  <1>10. mem'.files \cap old = {} /\ mem'.dirs \cap old = {}
    BY <1>5, <1>9 DEF RecordsSpareOld, Working
  <1>11. ~overlay => \A p \in made \ inside : p \in new
    BY <1>1 DEF InView, OverlayProtectsReal
  <1>12. Mine' \subseteq Mine \cup (new \cap Entries)
    BY <1>2, <1>6, <1>11 DEF Mine, Paths
  <1>13. Mine' \subseteq mem'.files \cup lost
    BY <1>5, <1>12 DEF AdditionsAreKnown
  <1>14. overlay => Mine' = Mine
    BY <1>2 DEF Mine
  <1>15. \A p \in old : real'[p] = "user"
    BY <1>2, <1>6, <1>9, <1>11 DEF OldPathsSurvive
  <1> QED
    BY <1>5, <1>7, <1>8, <1>10, <1>13, <1>14, <1>15

LEMMA LayFileKeepsInv ==
    ASSUME LiveInv, NEW f \in Files, LayFile(f)
    PROVE  LiveInv'
  <1> USE DEF LiveInv, recordVars, historyVars
  <1>1. /\ pc = "entries" /\ TouchFileForBind(f)
        /\ UNCHANGED <<overlay, mounted, emptied, pc, script, launches, conf, disk, old, lost, named,
                       prepared>>
        /\ covered' = covered \cup {f} /\ left' = left \ {f}
    BY DEF LayFile
  <1>2. /\ real' \in [Paths -> {"absent", "user", "dangling", "mine"}]
        /\ upper' \subseteq Paths /\ scratch' \subseteq Entries /\ mem' \in Lists
        /\ mem'.files \cap old = {} /\ mem'.dirs \cap old = {}
        /\ Mine' \subseteq mem'.files \cup lost
        /\ overlay => Mine' = Mine
        /\ \A p \in old : real'[p] = "user"
    BY <1>1, TouchIsSafe
  <1>3. LiveTypeOK'
    BY <1>1, <1>2 DEF LiveTypeOK
  <1> QED
    BY <1>1, <1>2, <1>3 DEF ScriptRuns, OldPathsSurvive, OverlayProtectsReal, RecordsSpareOld,
        AdditionsAreKnown, Working

LEMMA LayFileFailsKeepsInv ==
    ASSUME LiveInv, NEW f \in Files, LayFileFails(f)
    PROVE  LiveInv'
  <1> USE DEF LiveInv, recordVars
  <1>1. /\ pc = "entries" /\ script # <<>>
        /\ UNCHANGED <<overlay, mounted, covered, emptied, launches, conf, disk, old, named,
                       prepared>>
        /\ left' = {}
    BY DEF LayFileFails, ScriptRuns
  <1>2. /\ real' \in [Paths -> {"absent", "user", "dangling", "mine"}]
        /\ upper' \subseteq Paths /\ scratch' \subseteq Entries /\ mem' \in Lists
        /\ mem'.files \cap old = {} /\ mem'.dirs \cap old = {}
        /\ Mine' \subseteq mem'.files \cup lost
        /\ overlay => Mine' = Mine
        /\ \A p \in old : real'[p] = "user"
    <2>1. CASE TouchFileForBind(f)
      BY <1>1, <2>1, TouchIsSafe
    <2>2. CASE UNCHANGED <<mem, upper, real, scratch>>
      BY <1>1, <2>2 DEF LiveTypeOK, OldPathsSurvive, RecordsSpareOld, AdditionsAreKnown, Working, Mine
    <2> QED
      BY <2>1, <2>2 DEF LayFileFails
  <1>3. CASE Head(script).strict
    <2>1. /\ pc' = "idle" /\ script' = <<>>
          /\ lost' = lost \cup { e \in Entries : real'[e] = "mine" /\ e \notin disk.files }
      BY <1>3 DEF LayFileFails
    <2>2. Mine' \subseteq disk'.files \cup lost' /\ lost' \subseteq Entries
      BY <1>1, <2>1 DEF Mine, LiveTypeOK
    <2>3. <<>> \in Seq(Commands)
      OBVIOUS
    <2>4. LiveTypeOK'
      BY <1>1, <1>2, <2>1, <2>2, <2>3 DEF LiveTypeOK
    <2> QED
      BY <1>1, <1>2, <2>1, <2>2, <2>4 DEF ScriptRuns, OldPathsSurvive, OverlayProtectsReal,
          RecordsSpareOld, AdditionsAreKnown, Working
  <1>4. CASE ~Head(script).strict
    <2>1. UNCHANGED <<pc, script, lost>>
      BY <1>4 DEF LayFileFails
    <2>2. LiveTypeOK'
      BY <1>1, <1>2, <2>1 DEF LiveTypeOK
    <2> QED
      BY <1>1, <1>2, <2>1, <2>2 DEF ScriptRuns, OldPathsSurvive, OverlayProtectsReal,
          RecordsSpareOld, AdditionsAreKnown, Working
  <1> QED
    BY <1>3, <1>4

LEMMA LayLinkKeepsInv ==
    ASSUME LiveInv, NEW l \in Links, NEW targetExists \in BOOLEAN, LayLink(l, targetExists)
    PROVE  LiveInv'
  <1> DEFINE kept == real[l] = "absent" /\ targetExists
  <1> USE DEF LiveInv, recordVars, historyVars
  <1>1. /\ pc = "entries" /\ left' = left \ {l}
        /\ UNCHANGED <<overlay, upper, mounted, covered, emptied, scratch, pc, script, launches,
                       conf, disk, old, lost, named, prepared>>
    BY DEF LayLink
  <1>2. /\ l \in Entries /\ Folder[l] \in Folders /\ Folder[l] \notin Entries
        /\ l \in Paths /\ Folder[l] \in Paths /\ l # Folder[l]
    BY DEF Entries, Paths, LiveAssumption
  <1>3. /\ real \in [Paths -> {"absent", "user", "dangling", "mine"}] /\ mem \in Lists
        /\ old \subseteq Paths
    BY DEF LiveTypeOK
  <1>4. CASE Exists(l)
    <2>1. UNCHANGED <<mem, real>> /\ Mine' = Mine
      BY <1>4 DEF LayLink, Mine
    <2>2. LiveTypeOK'
      BY <1>1, <2>1 DEF LiveTypeOK
    <2> QED
      BY <1>1, <2>1, <2>2 DEF ScriptRuns, OldPathsSurvive, OverlayProtectsReal,
          RecordsSpareOld, AdditionsAreKnown, Working
  <1>5. CASE ~Exists(l)
    <2>1. /\ mem' = IF kept THEN Recorded({l}, {}) ELSE mem
          /\ real' = [real EXCEPT ![l] = IF kept THEN "mine" ELSE "absent",
                                  ![Folder[l]] = IF @ = "absent" THEN "mine" ELSE @]
      BY <1>5 DEF LayLink
    <2>2. /\ mem' \in Lists /\ mem'.dirs = mem.dirs
          /\ mem'.files = IF kept THEN mem.files \cup {l} ELSE mem.files
      <3>1. CASE kept
        <4>1. mem' = Recorded({l}, {}) /\ {l} \in SUBSET Entries /\ {} \in SUBSET Folders
          BY <1>2, <2>1, <3>1
        <4>2. /\ mem' \in Lists /\ mem'.files = mem.files \cup {l} /\ mem'.dirs = mem.dirs \cup {}
          BY <4>1, RecordedAdds DEF LiveTypeOK
        <4> QED
          BY <3>1, <4>2
      <3>2. CASE ~kept
        BY <1>3, <2>1, <3>2
      <3> QED
        BY <3>1, <3>2
    <2>3. real' \in [Paths -> {"absent", "user", "dangling", "mine"}]
      BY <1>3, <2>1
    <2>4. l \notin old
      BY <1>5 DEF OldPathsSurvive, Exists
    <2>5. \A p \in old : real'[p] = "user"
      BY <1>2, <1>3, <2>1, <2>4 DEF OldPathsSurvive
    <2>6. Mine' \subseteq Mine \cup {l} /\ (~kept => Mine' \subseteq Mine)
      BY <1>2, <1>3, <2>1 DEF Mine, Paths
    <2>7. Mine' \subseteq mem'.files \cup lost
      BY <1>1, <2>2, <2>6 DEF AdditionsAreKnown
    <2>8. RecordsSpareOld'
      BY <1>1, <2>2, <2>4 DEF RecordsSpareOld, Working
    <2>9. LiveTypeOK'
      BY <1>1, <2>2, <2>3 DEF LiveTypeOK
    <2> QED
      BY <1>1, <2>5, <2>6, <2>7, <2>8, <2>9 DEF ScriptRuns, OldPathsSurvive, OverlayProtectsReal,
          AdditionsAreKnown
  <1> QED
    BY <1>4, <1>5
----------------------------------------------------------------------------
(* cleanup. *)

LEMMA CleanupKeepsInv ==
    ASSUME LiveInv, LaunchCleanup \/ UmountBindRoot \/ RemoveFiles \/ RemoveDirs \/ RemoveRecord
    PROVE  LiveInv'
  <1> USE DEF LiveInv, rootVars, recordVars, historyVars
  <1>1. UNCHANGED <<overlay, upper, script, left, old, lost, named>>
    BY DEF LaunchCleanup, UmountBindRoot, RemoveFiles, RemoveDirs, RemoveRecord
  <1>2. /\ mem' \in Lists /\ disk' \in Lists
        /\ conf' \in {"none", "empty", "whole"} /\ (conf' # "whole" => disk' = Nothing)
    BY NothingListed
       DEF LaunchCleanup, UmountBindRoot, RemoveFiles, RemoveDirs, RemoveRecord, LiveTypeOK
  <1>3. launches' \in 0..MaxLaunches
    <2>1. launches \in 0..MaxLaunches /\ MaxLaunches \in Nat
      BY DEF LiveTypeOK, LiveAssumption
    <2>2. launches' = launches \/ (launches < MaxLaunches /\ launches' = launches + 1)
      BY DEF LaunchCleanup, UmountBindRoot, RemoveFiles, RemoveDirs, RemoveRecord
    <2> QED
      BY <2>1, <2>2
  <1>4. /\ real' \in [Paths -> {"absent", "user", "dangling", "mine"}]
        /\ Mine' \subseteq Mine
    BY DEF LaunchCleanup, UmountBindRoot, RemoveFiles, RemoveDirs, RemoveRecord, LiveTypeOK, Mine, Paths
  <1>5. /\ mounted' \in BOOLEAN /\ covered' \subseteq Files /\ emptied' \subseteq Folders
        /\ scratch' \subseteq Entries
        /\ pc' \in {"idle", "umount", "files", "dirs", "record"} /\ prepared' \in BOOLEAN
    BY DEF LaunchCleanup, UmountBindRoot, RemoveFiles, RemoveDirs, RemoveRecord, LiveTypeOK
  <1>6. LiveTypeOK'
    BY <1>1, <1>2, <1>3, <1>4, <1>5 DEF LiveTypeOK
  <1>7. OldPathsSurvive'
    BY DEF LaunchCleanup, UmountBindRoot, RemoveFiles, RemoveDirs, RemoveRecord, OldPathsSurvive,
           RecordsSpareOld, Working, LiveTypeOK
  <1>8. RecordsSpareOld'
    BY DEF LaunchCleanup, UmountBindRoot, RemoveFiles, RemoveDirs, RemoveRecord, RecordsSpareOld,
           Working, Nothing
  <1>9. AdditionsAreKnown'
    <2>1. CASE LaunchCleanup \/ UmountBindRoot \/ RemoveDirs \/ RemoveRecord
      BY <1>1, <1>4, <2>1 DEF LaunchCleanup, UmountBindRoot, RemoveDirs, RemoveRecord, AdditionsAreKnown
    <2>2. CASE RemoveFiles
      <3>1. Mine' \subseteq lost
        BY <2>2 DEF RemoveFiles, AdditionsAreKnown, Mine, Paths
      <3> QED
        BY <1>1, <2>2, <3>1 DEF RemoveFiles, AdditionsAreKnown
    <2> QED
      BY <2>1, <2>2
  <1> QED
    BY <1>1, <1>4, <1>5, <1>6, <1>7, <1>8, <1>9 DEF ScriptRuns, OverlayProtectsReal
----------------------------------------------------------------------------
LEMMA LiveStepKeepsInv == LiveInv /\ [LiveNext]_liveVars => LiveInv'
  <1> SUFFICES ASSUME LiveInv, [LiveNext]_liveVars PROVE LiveInv'
    OBVIOUS
  <1>1. CASE \E e \in Entries : UserCreates(e) \/ UserDeletes(e)
    BY <1>1, UserKeepsInv
  <1>2. CASE (\E s \in Scripts : Launch(s)) \/ Start \/ StartFails
    BY <1>2, StartKeepsInv
  <1>3. CASE BeginCommand \/ EndCommand \/ WriteCutShort
    BY <1>3, BeginKeepsInv, EndCommandKeepsInv, CutShortKeepsInv
  <1>4. CASE EndScript \/ CommandFails \/ UmountFails \/ Crash
    <2>1. pc # "idle" /\ End /\ UNCHANGED <<rootVars, recordVars, old, named>>
      BY <1>4 DEF EndScript, CommandFails, UmountFails, Crash
    <2>2. prepared' \in BOOLEAN
      BY <1>4 DEF EndScript, CommandFails, UmountFails, Crash, LiveInv, LiveTypeOK
    <2> QED
      BY <2>1, <2>2, EndKeepsInv
  <1>5. CASE \E f \in Files : LayFile(f) \/ LayFileFails(f)
    BY <1>5, LayFileKeepsInv, LayFileFailsKeepsInv
  <1>6. CASE \E l \in Links, targetExists \in BOOLEAN : LayLink(l, targetExists)
    BY <1>6, LayLinkKeepsInv
  <1>7. CASE LaunchCleanup \/ UmountBindRoot \/ RemoveFiles \/ RemoveDirs \/ RemoveRecord
    BY <1>7, CleanupKeepsInv
  <1>8. CASE Done \/ UNCHANGED liveVars
    BY <1>8 DEF Done, liveVars, rootVars, processVars, recordVars, historyVars, LiveInv, LiveTypeOK,
        ScriptRuns, OldPathsSurvive, OverlayProtectsReal, RecordsSpareOld, AdditionsAreKnown,
        ReadConfFile, Working, Mine
  <1> QED
    BY <1>1, <1>2, <1>3, <1>4, <1>5, <1>6, <1>7, <1>8 DEF LiveNext

LEMMA LiveInvariant == LiveSpec => []LiveInv
  BY LiveInitInv, LiveStepKeepsInv, PTL DEF LiveSpec

(* Types, for every template tree and every script. *)
THEOREM LiveTypes == LiveSpec => []LiveTypeOK
  BY LiveInvariant, PTL DEF LiveInv

(***************************************************************************)
(* Whatever the templates, the failures, the crashes and the writes that   *)
(* went wrong: between two commands and two processes an addition to the   *)
(* real root is in cleanup.conf, or the process still knows it and will    *)
(* write it down, or its record is among the lost ones.                    *)
(***************************************************************************)
THEOREM LiveAdditions == LiveSpec => []AdditionsAreRecorded
  <1>1. LiveInv => AdditionsAreRecorded
    BY DEF LiveInv, AdditionsAreKnown, AdditionsAreRecorded, Known
  <1> QED
    BY <1>1, LiveInvariant, PTL

(* What the user had before the start is there after any number of sessions. *)
THEOREM LiveOldPaths == LiveSpec => []OldPathsSurvive
  BY LiveInvariant, PTL DEF LiveInv

(* With an overlay, only links get onto the running system. *)
THEOREM LiveOverlay == LiveSpec => []OverlayProtectsReal
  BY LiveInvariant, PTL DEF LiveInv

Within(a, b) == a.files \subseteq b.files /\ a.dirs \subseteq b.dirs

(* What was ever recorded since the start, a command that is to come or under way goes by. *)
NamedIsKept ==
    /\ RecordOnlyGrows
    /\ pc = "command" => Within(named, ReadConfFile)
    /\ pc = "entries" => Within(named, mem)

LEMMA RecordedGrows ==
    ASSUME LiveTypeOK, NEW files \in SUBSET Entries, NEW dirs \in SUBSET Folders
    PROVE  Within(mem, Recorded(files, dirs))
  <1>1. mem \in Lists
    BY DEF LiveTypeOK
  <1>2. /\ Recorded(files, dirs).files = mem.files \cup files
        /\ Recorded(files, dirs).dirs = mem.dirs \cup dirs
    BY <1>1, RecordedAdds, Zenon
  <1> QED
    BY <1>2 DEF Within

LEMMA WriteKeepsNamed ==
    ASSUME LiveTypeOK, WriteConfFile, mem' = mem, RecordOnlyGrows, Within(named, mem)
    PROVE  RecordOnlyGrows' /\ Within(named', ReadConfFile')
  <1> USE DEF RecordOnlyGrows, ReadConfFile, Within, recordVars
  <1>1. CASE conf' = "whole" /\ disk' = mem /\ named' = Both(named, mem)
    BY <1>1 DEF Both
  <1>2. CASE UNCHANGED <<recordVars, named>>
    BY <1>2
  <1>3. CASE conf' = "empty" /\ disk' = Nothing /\ UNCHANGED named
    BY <1>3
  <1> QED
    BY <1>1, <1>2, <1>3 DEF WriteConfFile

(***************************************************************************)
(* A whole cleanup.conf lists all that any whole one has listed since the  *)
(* start: each command begins with the file or, where a write has emptied  *)
(* it, with what the process remembers, and only adds to that before it    *)
(* writes it back.                                                         *)
(***************************************************************************)
THEOREM LiveRecord == LiveSpec => []RecordOnlyGrows
  <1>1. LiveInit => NamedIsKept
    BY DEF LiveInit, NamedIsKept, RecordOnlyGrows
  <1>2. LiveInv /\ NamedIsKept /\ [LiveNext]_liveVars => NamedIsKept'
    <2> SUFFICES ASSUME LiveInv, NamedIsKept, [LiveNext]_liveVars PROVE NamedIsKept'
      OBVIOUS
    <2> USE DEF NamedIsKept, rootVars, processVars, recordVars, historyVars
    <2>1. LiveTypeOK /\ mem \in Lists /\ disk \in Lists
      BY DEF LiveInv, LiveTypeOK
    <2>2. ASSUME UNCHANGED <<conf, disk, named>>, pc' = "command" => pc = "command" /\ mem' = mem,
                 pc' = "entries" => pc = "entries" /\ Within(mem, mem')
          PROVE  NamedIsKept'
      BY <2>2 DEF RecordOnlyGrows, Within, ReadConfFile
    <2>3. CASE UNCHANGED liveVars \/ Done
      BY <2>2, <2>3 DEF liveVars, Done, Within
    <2>4. CASE \E e \in Entries : UserCreates(e) \/ UserDeletes(e)
      BY <2>2, <2>4 DEF UserCreates, UserDeletes, Within
    <2>5. CASE (\E s \in Scripts : Launch(s)) \/ StartFails
      BY <2>5 DEF Launch, StartFails, RecordOnlyGrows
    <2>6. CASE Start
      BY <2>6 DEF Start, RecordOnlyGrows, ReadConfFile, Within, Nothing
    <2>7. CASE BeginCommand
      BY <2>7 DEF BeginCommand, RecordOnlyGrows, ReadConfFile
    <2>8. CASE EndScript \/ CommandFails \/ UmountFails \/ Crash
      BY <2>2, <2>8 DEF EndScript, CommandFails, UmountFails, Crash, End
    <2>9. ASSUME NEW f \in Files, LayFile(f) \/ LayFileFails(f) PROVE NamedIsKept'
      <3>1. TouchFileForBind(f) => Within(mem, mem')
        BY <2>1, RecordedGrows DEF TouchFileForBind
      <3>2. UNCHANGED <<conf, disk, named>> /\ pc = "entries" /\ pc' \in {"entries", "idle"}
            /\ (mem' = mem \/ TouchFileForBind(f))
        BY <2>9 DEF LayFile, LayFileFails
      <3>3. Within(mem, mem')
        BY <3>1, <3>2 DEF Within
      <3> QED
        BY <2>2, <3>2, <3>3
    <2>10. ASSUME NEW l \in Links, NEW targetExists \in BOOLEAN, LayLink(l, targetExists)
           PROVE  NamedIsKept'
      <3>1. {l} \in SUBSET Entries /\ {} \in SUBSET Folders
        BY DEF Entries
      <3>2. UNCHANGED <<conf, disk, named, pc>> /\ pc = "entries"
            /\ (mem' = mem \/ mem' = Recorded({l}, {}))
        BY <2>10 DEF LayLink
      <3>3. Within(mem, mem')
        BY <2>1, <3>1, <3>2, RecordedGrows DEF Within
      <3> QED
        BY <2>2, <3>2, <3>3
    <2>11. CASE EndCommand
      <3>1. WriteConfFile /\ mem' = mem /\ pc = "entries" /\ pc' = "command"
        BY <2>11 DEF EndCommand
      <3> QED
        BY <2>1, <3>1, WriteKeepsNamed
    <2>12. CASE WriteCutShort
      BY <2>12 DEF WriteCutShort, RecordOnlyGrows
    <2>13. CASE LaunchCleanup \/ UmountBindRoot \/ RemoveFiles \/ RemoveDirs \/ RemoveRecord
      BY <2>13 DEF LaunchCleanup, UmountBindRoot, RemoveFiles, RemoveDirs, RemoveRecord, RecordOnlyGrows
    <2> QED
      BY <2>3, <2>4, <2>5, <2>6, <2>7, <2>8, <2>9, <2>10, <2>11, <2>12, <2>13 DEF LiveNext
  <1>3. NamedIsKept => RecordOnlyGrows
    BY DEF NamedIsKept
  <1> QED
    BY <1>1, <1>2, <1>3, LiveInvariant, PTL DEF LiveSpec

(***************************************************************************)
(* Where a bind root with an overlay may be prepared: not before the last  *)
(* command has ended, and not behind the umount.                           *)
(***************************************************************************)
RootOK ==
    /\ overlay /\ prepared => mounted
    /\ pc \in {"start", "command", "entries"} => ~prepared /\ (overlay => mounted)
    /\ pc \in {"command", "entries"} => conf # "none"
    /\ pc \in {"files", "dirs", "record"} /\ overlay /\ conf = "whole" => ~mounted

(* The bind root as BindRoot sees it. *)
LEMMA RootView ==
    /\ Root!RootInit <=> /\ ~(overlay /\ mounted) /\ ~(overlay /\ prepared)
                         /\ (IF overlay THEN conf ELSE "none") = "none"
    /\ UNCHANGED <<overlay, mounted, prepared, conf>> => UNCHANGED Root!rootVars
    /\ ~overlay /\ ~overlay' => UNCHANGED Root!rootVars
  BY DEF Root!RootInit, Root!rootVars

LEMMA RootStep ==
    ASSUME LiveTypeOK, LiveTypeOK', ScriptRuns, RootOK, LiveNext
    PROVE  RootOK' /\ [Root!RootNext]_Root!rootVars
  <1> USE DEF RootOK, rootVars, processVars, recordVars, historyVars
  <1> DEFINE Same == UNCHANGED <<overlay, mounted, prepared, conf>>
  <1>1. /\ overlay \in BOOLEAN /\ mounted \in BOOLEAN /\ prepared \in BOOLEAN
        /\ conf \in {"none", "empty", "whole"} /\ overlay' = overlay
        /\ mounted' \in BOOLEAN /\ prepared' \in BOOLEAN /\ conf' \in {"none", "empty", "whole"}
    <2>1. overlay' = overlay
      BY DEF LiveNext, UserCreates, UserDeletes, Launch, Start, StartFails, BeginCommand, EndScript,
         LayFile, LayFileFails, LayLink, EndCommand, WriteCutShort, CommandFails, LaunchCleanup, UmountBindRoot,
         UmountFails, RemoveFiles, RemoveDirs, RemoveRecord, Crash, Done, liveVars
    <2> QED
      BY <2>1 DEF LiveTypeOK
  <1>2. Same => UNCHANGED Root!rootVars
    BY DEF Root!rootVars
  <1>3. CASE Done \/ \E e \in Entries : UserCreates(e) \/ UserDeletes(e)
    <2>1. Same /\ pc' = pc
      BY <1>3 DEF Done, UserCreates, UserDeletes, liveVars
    <2> QED
      BY <1>2, <2>1
  <1>4. CASE BeginCommand
    <2>1. /\ Same /\ pc \in {"command", "entries"} /\ pc' \in {"command", "entries"}
      BY <1>4 DEF BeginCommand
    <2> QED
      BY <1>2, <2>1
  <1>14. CASE EndCommand \/ WriteCutShort
    <2>1. /\ UNCHANGED <<overlay, mounted, prepared>> /\ pc = "entries" /\ pc' \in {"command", "idle"}
          /\ conf' # "none"
      BY <1>14, WriteIsSafe DEF EndCommand, WriteCutShort
    <2>2. overlay => Root!Record
      BY <1>1, <2>1 DEF Root!Record
    <2> QED
      BY <1>1, <2>1, <2>2, RootView DEF Root!RootNext
  <1>5. CASE \/ \E f \in Files : LayFile(f) \/ LayFileFails(f)
             \/ \E l \in Links, targetExists \in BOOLEAN : LayLink(l, targetExists)
    <2>1. Same /\ pc = "entries" /\ pc' \in {"entries", "idle"}
      BY <1>5 DEF LayFile, LayFileFails, LayLink
    <2> QED
      BY <1>2, <2>1
  <1>6. CASE CommandFails \/ UmountFails \/ Crash
    <2>1. Same /\ pc' = "idle"
      BY <1>6 DEF CommandFails, UmountFails, Crash, End
    <2> QED
      BY <1>2, <2>1
  <1>7. CASE LaunchCleanup \/ RemoveFiles \/ RemoveDirs
    <2>1. /\ Same
          /\ \/ pc' = "umount"
             \/ pc \in {"files", "dirs"} /\ pc' \in {"dirs", "record"}
      BY <1>7 DEF LaunchCleanup, RemoveFiles, RemoveDirs
    <2> QED
      BY <1>2, <2>1
  <1>8. CASE \E s \in Scripts : Launch(s)
    <2>1. /\ mounted' = (mounted \/ overlay) /\ ~prepared' /\ conf' = conf /\ pc' = "start"
      BY <1>8 DEF Launch
    <2>2. RootOK'
      BY <1>1, <2>1
    <2>3. overlay => Root!Mount
      BY <1>1, <2>1 DEF Root!Mount
    <2> QED
      BY <1>1, <2>2, <2>3, RootView DEF Root!RootNext
  <1>9. CASE Start
    <2>1. /\ mounted' /\ prepared' = prepared /\ conf' # "none" /\ pc' = "command" /\ pc = "start"
      BY <1>9 DEF Start
    <2>2. RootOK'
      BY <1>1, <2>1
    <2>3. overlay => Root!Record
      BY <1>1, <2>1 DEF Root!Record
    <2> QED
      BY <1>1, <2>2, <2>3, RootView DEF Root!RootNext
  <1>10. CASE StartFails
    <2>1. /\ mounted' \in {mounted, TRUE} /\ prepared' = prepared /\ pc = "start" /\ pc' = "idle"
      BY <1>10 DEF StartFails
    <2>2. RootOK'
      BY <1>1, <2>1
    <2>3. overlay => Root!Record
      BY <1>1, <2>1 DEF Root!Record
    <2> QED
      BY <1>1, <2>2, <2>3, RootView DEF Root!RootNext
  <1>11. CASE EndScript
    <2>1. /\ pc = "command" /\ pc' = "idle" /\ mounted' = mounted /\ conf' = conf
      BY <1>11 DEF EndScript, End
    <2>2. RootOK'
      BY <1>1, <2>1
    <2>3. CASE overlay /\ prepared'
      <3>1. Root!Prepare
        BY <1>1, <2>1, <2>3 DEF Root!Prepare
      <3> QED
        BY <2>2, <3>1 DEF Root!RootNext
    <2>4. CASE ~(overlay /\ prepared')
      <3>1. UNCHANGED Root!rootVars
        BY <1>1, <2>1, <2>4 DEF Root!rootVars
      <3> QED
        BY <2>2, <3>1
    <2> QED
      BY <2>3, <2>4
  <1>12. CASE UmountBindRoot
    <2>1. conf' = conf /\ pc' = "files"
      BY <1>12 DEF UmountBindRoot
    <2>2. CASE overlay /\ conf = "whole"
      <3>1. ~mounted' /\ ~prepared'
        BY <1>12, <2>2 DEF UmountBindRoot, RootFound
      <3>2. RootOK'
        BY <1>1, <2>1, <3>1
      <3>3. CASE mounted
        <4>1. Root!Unmount
          BY <1>1, <2>1, <2>2, <3>1, <3>3 DEF Root!Unmount
        <4> QED
          BY <3>2, <4>1 DEF Root!RootNext
      <3>4. CASE ~mounted
        <4>1. UNCHANGED Root!rootVars
          BY <1>1, <2>1, <2>2, <3>1, <3>4 DEF Root!rootVars
        <4> QED
          BY <3>2, <4>1
      <3> QED
        BY <3>3, <3>4
    <2>3. CASE overlay /\ conf # "whole"
      <3>1. Same
        BY <1>12, <2>3 DEF UmountBindRoot, RootFound
      <3> QED
        BY <1>2, <2>1, <2>3, <3>1
    <2>4. CASE ~overlay
      BY <1>1, <2>1, <2>4, RootView
    <2> QED
      BY <1>1, <2>2, <2>3, <2>4
  <1>13. CASE RemoveRecord
    <2>1. /\ pc = "record" /\ pc' = "idle" /\ conf' = "none" /\ UNCHANGED <<mounted, prepared>>
      BY <1>13 DEF RemoveRecord
    <2>2. RootOK'
      BY <1>1, <2>1
    <2>3. CASE overlay /\ conf = "whole"
      <3>1. Root!CleanUp
        BY <1>1, <2>1, <2>3 DEF Root!CleanUp
      <3> QED
        BY <2>2, <3>1 DEF Root!RootNext
    <2>4. CASE overlay /\ conf = "empty"
      <3>1. Root!Discard
        BY <1>1, <2>1, <2>4 DEF Root!Discard
      <3> QED
        BY <2>2, <3>1 DEF Root!RootNext
    <2>5. CASE ~overlay \/ conf = "none"
      <3>1. UNCHANGED Root!rootVars
        BY <1>1, <2>1, <2>5 DEF Root!rootVars
      <3> QED
        BY <2>2, <3>1
    <2> QED
      BY <1>1, <2>3, <2>4, <2>5
  <1> QED
    BY <1>3, <1>4, <1>5, <1>6, <1>7, <1>8, <1>9, <1>10, <1>11, <1>12, <1>13, <1>14 DEF LiveNext

(***************************************************************************)
(* With an overlay, installed-to-live does to the bind root what a run     *)
(* relies on: it is prepared only with a record there, and a whole record  *)
(* goes only with the mount, through every failure, crash and restart.     *)
(***************************************************************************)
THEOREM LiveKeepsBindRoot == LiveSpec => KeepsBindRoot
  <1>1. LiveInit => RootOK /\ Root!RootInit
    BY RootView DEF LiveInit, RootOK
  <1>2. LiveInv /\ LiveInv' /\ RootOK /\ [LiveNext]_liveVars
          => RootOK' /\ [Root!RootNext]_Root!rootVars
    <2> SUFFICES ASSUME LiveInv, LiveInv', RootOK, [LiveNext]_liveVars
                 PROVE  RootOK' /\ [Root!RootNext]_Root!rootVars
      OBVIOUS
    <2>1. CASE LiveNext
      BY <2>1, RootStep DEF LiveInv
    <2>2. CASE UNCHANGED liveVars
      BY <2>2, RootView DEF liveVars, rootVars, processVars, recordVars, historyVars, RootOK
    <2> QED
      BY <2>1, <2>2
  <1> QED
    BY <1>1, <1>2, LiveInvariant, PTL DEF LiveSpec, KeepsBindRoot, Root!RootSpec
============================================================================
