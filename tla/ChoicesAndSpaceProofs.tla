----------------------- MODULE ChoicesAndSpaceProofs -----------------------
(***************************************************************************)
(* What a session settles about the size of its image: the settings page,  *)
(* for any set of boxes and any number of passes, and the space check, for *)
(* any sizes, free space and compression factors.                          *)
(***************************************************************************)
EXTENDS SessionChoices, WorkSpace, TLAPS
----------------------------------------------------------------------------
(* The settings page: the entries of the session against the boxes. *)

(* Entries that say what the boxes say, with these local names known. *)
Says(entries, checked, known, f) ==
    IF f \in checked
    THEN /\ entries["whole"] + entries["english"] > 0
         /\ f \in known => entries["whole"] + entries["local"] > 0
    ELSE f \notin wavered => entries = Nothing

(* A folder whose local name was found out every time or never has entries *)
(* of one form only, which the next pass finds and removes.                *)
OneForm ==
    \A f \in Folders : f \notin wavered =>
        \A form \in Forms : form # Form(f, found) => session[f][form] = 0

(* Between "Next" and the start the session is what the boxes say. *)
ConfirmedAsChecked ==
    page = "confirm" => \A f \in Folders : Says(session[f], boxes, found, f)

ChoicesInv == ChoicesTypeOK /\ OneForm /\ ConfirmedAsChecked /\ ExcludesMatchBoxes

(* Adding an entry leaves the folder excluded, in the form of this pass.   *)
LEMMA AddedSays ==
    ASSUME NEW f \in Folders, NEW known, NEW entries \in [Forms -> Nat]
    PROVE  /\ Added(f, known, entries) \in [Forms -> Nat]
           /\ Added(f, known, entries)["whole"] + Added(f, known, entries)["english"] > 0
           /\ f \in known =>
                 Added(f, known, entries)["whole"] + Added(f, known, entries)["local"] > 0
           /\ \A form \in Forms : form # Form(f, known) =>
                 Added(f, known, entries)[form] = entries[form]
  <1>1. CASE f \in known
    BY <1>1 DEF Added, Form, Forms
  <1>2. CASE f \notin known
    BY <1>2 DEF Added, Form, Forms
  <1> QED BY <1>1, <1>2

(* Removing an entry leaves none of a folder that has had entries of this  *)
(* pass's form only.                                                       *)
LEMMA RemovedSays ==
    ASSUME NEW f \in Folders, NEW known, NEW entries \in [Forms -> Nat]
    PROVE  /\ Removed(f, known, entries) \in [Forms -> Nat]
           /\ (\A form \in Forms : form # Form(f, known) => entries[form] = 0)
                 => Removed(f, known, entries) = Nothing
  <1>1. CASE f \in known
    <2>1. Removed(f, known, entries) = [entries EXCEPT !["whole"] = 0]
      BY <1>1 DEF Removed
    <2>2. Removed(f, known, entries) \in [Forms -> Nat]
      BY <2>1 DEF Forms
    <2>3. ASSUME \A form \in Forms : form # Form(f, known) => entries[form] = 0
          PROVE  \A form \in Forms : Removed(f, known, entries)[form] = 0
      BY <1>1, <2>1, <2>3 DEF Form, Forms
    <2>4. (\A form \in Forms : Removed(f, known, entries)[form] = 0)
             => Removed(f, known, entries) = Nothing
      BY <2>2 DEF Nothing
    <2> QED BY <2>2, <2>3, <2>4
  <1>2. CASE f \notin known
    <2>1. Removed(f, known, entries) =
             [whole |-> 0, english |-> 0, local |-> entries["local"] + entries["whole"]]
      BY <1>2 DEF Removed
    <2>2. entries["local"] + entries["whole"] \in Nat
      BY DEF Forms
    <2>3. Removed(f, known, entries) \in [Forms -> Nat]
      BY <2>1, <2>2 DEF Forms
    <2>4. ASSUME \A form \in Forms : form # Form(f, known) => entries[form] = 0
          PROVE  Removed(f, known, entries) = Nothing
      <3>1. entries["local"] = 0 /\ entries["whole"] = 0
        BY <1>2, <2>4 DEF Form, Forms
      <3> QED BY <2>1, <3>1 DEF Nothing, Forms
    <2> QED BY <2>3, <2>4
  <1> QED BY <1>1, <1>2

LEMMA ChoicesInitInv == ChoicesInit => ChoicesInv
  <1> SUFFICES ASSUME ChoicesInit PROVE ChoicesInv
    OBVIOUS
  <1> PICK given \in SUBSET Folders :
         /\ session = [f \in Folders |-> IF f \in given THEN Added(f, found, Nothing) ELSE Nothing]
         /\ respin \in BOOLEAN /\ reset = respin /\ all = respin
         /\ boxes = IF respin THEN Folders ELSE given
    BY DEF ChoicesInit
  <1>1. Nothing \in [Forms -> Nat] /\ \A form \in Forms : Nothing[form] = 0
    BY DEF Nothing, Forms
  <1>2. session \in Sessions
    BY <1>1, AddedSays DEF Sessions
  <1>3. handed.session \in Sessions /\ handed.boxes = {}
        /\ \A f \in Folders : handed.session[f] = Nothing
    BY <1>1 DEF ChoicesInit, NotHanded, Sessions
  <1>4. ChoicesTypeOK
    BY <1>2, <1>3, ChoicesAssumption DEF ChoicesInit, ChoicesTypeOK
  <1>5. OneForm
    BY <1>1, AddedSays DEF OneForm
  <1>6. ConfirmedAsChecked
    BY DEF ChoicesInit, ConfirmedAsChecked
  <1>7. ExcludesMatchBoxes
    BY <1>3 DEF ExcludesMatchBoxes
  <1> QED BY <1>4, <1>5, <1>6, <1>7 DEF ChoicesInv

(* What the steps in the window do to the boxes only. *)
LEMMA ClicksKeepInv ==
    ASSUME ChoicesInv, page = "settings", page' = page,
           UNCHANGED <<sessionVars, handed>>,
           boxes' \subseteq Folders, all' => boxes' = Folders,
           respin' \in BOOLEAN, reset' = respin'
    PROVE  ChoicesInv'
  <1>1. ChoicesTypeOK'
    BY DEF ChoicesInv, ChoicesTypeOK, sessionVars
  <1>2. OneForm'
    BY DEF ChoicesInv, OneForm, sessionVars
  <1>3. ConfirmedAsChecked'
    BY DEF ConfirmedAsChecked
  <1>4. ExcludesMatchBoxes'
    BY DEF ChoicesInv, ExcludesMatchBoxes, sessionVars
  <1> QED BY <1>1, <1>2, <1>3, <1>4 DEF ChoicesInv

LEMMA ApplyKeepsInv == ChoicesInv /\ ApplyExclusions => ChoicesInv'
  <1> SUFFICES ASSUME ChoicesInv, ApplyExclusions PROVE ChoicesInv'
    OBVIOUS
  <1>1. \A f \in Folders : session[f] \in [Forms -> Nat]
    BY DEF ChoicesInv, ChoicesTypeOK, Sessions
  <1>2. \A f \in Folders :
           session'[f] = IF f \in boxes THEN Added(f, found', session[f])
                                        ELSE Removed(f, found', session[f])
    BY DEF ApplyExclusions
  <1>3. session' \in Sessions
    BY <1>1, AddedSays, RemovedSays DEF ApplyExclusions, Sessions
  <1>4. \A f \in Folders : f \notin wavered' =>
           f \notin wavered /\ Form(f, found') = Form(f, found)
    BY DEF ApplyExclusions, Form
  <1>5. \A f \in Folders : f \notin wavered' =>
           \A form \in Forms : form # Form(f, found') => session[f][form] = 0
    BY <1>4 DEF ChoicesInv, OneForm
  <1>6. \A f \in Folders : Says(session[f], boxes, found, f)'
    <2> SUFFICES ASSUME NEW f \in Folders PROVE Says(session[f], boxes, found, f)'
      OBVIOUS
    <2>1. CASE f \in boxes
      <3>1. session'[f] = Added(f, found', session[f]) /\ f \in boxes'
        BY <1>2, <2>1 DEF ApplyExclusions
      <3> QED BY <1>1, <3>1, AddedSays DEF Says
    <2>2. CASE f \notin boxes
      <3>1. session'[f] = Removed(f, found', session[f]) /\ f \notin boxes'
        BY <1>2, <2>2 DEF ApplyExclusions
      <3>2. Nothing' = Nothing
        BY DEF Nothing
      <3> QED BY <1>1, <1>5, <3>1, <3>2, RemovedSays DEF Says
    <2> QED BY <2>1, <2>2
  <1>7. OneForm'
    <2> SUFFICES ASSUME NEW f \in Folders, f \notin wavered', NEW form \in Forms,
                        form # Form(f, found')
                 PROVE  session'[f][form] = 0
      BY DEF OneForm, Form, Forms
    <2>1. CASE f \in boxes
      <3>1. session'[f][form] = session[f][form]
        BY <1>1, <1>2, <2>1, AddedSays
      <3> QED BY <1>5, <3>1
    <2>2. CASE f \notin boxes
      <3>1. session'[f] = Nothing
        BY <1>1, <1>2, <1>5, <2>2, RemovedSays
      <3> QED BY <3>1 DEF Nothing
    <2> QED BY <2>1, <2>2
  <1>8. ConfirmedAsChecked'
    BY <1>6 DEF ConfirmedAsChecked, Says, Nothing, Forms
  <1>9. ChoicesTypeOK'
    <2>1. wavered' \subseteq Localized
      BY ChoicesAssumption DEF ApplyExclusions, ChoicesInv, ChoicesTypeOK, Lookups
    <2>2. passes' \in 0..MaxPasses
      BY ChoicesAssumption DEF ApplyExclusions, ChoicesInv, ChoicesTypeOK
    <2> QED BY <1>3, <2>1, <2>2 DEF ApplyExclusions, ChoicesInv, ChoicesTypeOK, Sessions, Lookups
  <1>10. ExcludesMatchBoxes'
    BY DEF ApplyExclusions, ChoicesInv, ExcludesMatchBoxes, Nothing, Forms
  <1> QED BY <1>7, <1>8, <1>9, <1>10 DEF ChoicesInv

LEMMA StartKeepsInv == ChoicesInv /\ Start => ChoicesInv'
  <1> SUFFICES ASSUME ChoicesInv, Start PROVE ChoicesInv'
    OBVIOUS
  <1>1. handed'.session = session /\ handed'.boxes = boxes /\ handed'.found = found
    BY DEF Start
  <1>2. ChoicesTypeOK'
    BY <1>1 DEF Start, ChoicesInv, ChoicesTypeOK, sessionVars
  <1>3. OneForm'
    BY DEF Start, ChoicesInv, OneForm, sessionVars
  <1>4. ConfirmedAsChecked'
    BY DEF Start, ConfirmedAsChecked
  <1>5. \A f \in Folders : Says(session[f], boxes, found, f)
    BY DEF Start, ChoicesInv, ConfirmedAsChecked
  <1>6. ExcludesMatchBoxes'
    BY <1>1, <1>5 DEF Start, Says, ExcludesMatchBoxes, sessionVars
  <1> QED BY <1>2, <1>3, <1>4, <1>6 DEF ChoicesInv

LEMMA ChoicesNextInv == ChoicesInv /\ [ChoicesNext]_choiceVars => ChoicesInv'
  <1> SUFFICES ASSUME ChoicesInv, [ChoicesNext]_choiceVars PROVE ChoicesInv'
    OBVIOUS
  <1>0. ChoicesTypeOK
    BY DEF ChoicesInv
  <1>1. CASE ClickAll
    BY <1>0, <1>1, ClicksKeepInv DEF ClickAll, AllClicked, ChoicesTypeOK
  <1>2. CASE ChooseRespin
    BY <1>0, <1>2, ClicksKeepInv DEF ChooseRespin, AllClicked, ChoicesTypeOK
  <1>3. CASE ChoosePersonal
    BY <1>0, <1>3, ClicksKeepInv DEF ChoosePersonal, AllClicked, ChoicesTypeOK
  <1>4. ASSUME NEW f \in Folders, Check(f) PROVE ChoicesInv'
    BY <1>0, <1>4, ClicksKeepInv DEF Check, ChoicesTypeOK
  <1>5. ASSUME NEW f \in Folders, Uncheck(f) PROVE ChoicesInv'
    BY <1>0, <1>5, ClicksKeepInv DEF Uncheck, ChoicesTypeOK
  <1>6. CASE ApplyExclusions
    BY <1>6, ApplyKeepsInv
  <1>7. CASE DoNotStart \/ Return
    BY <1>7 DEF DoNotStart, Return, ChoicesInv, ChoicesTypeOK, OneForm, ConfirmedAsChecked,
                ExcludesMatchBoxes, sessionVars
  <1>8. CASE Start
    BY <1>8, StartKeepsInv
  <1>9. CASE UNCHANGED choiceVars
    BY <1>9 DEF choiceVars, windowVars, sessionVars, ChoicesInv, ChoicesTypeOK, OneForm,
                ConfirmedAsChecked, ExcludesMatchBoxes, Says
  <1> QED BY <1>1, <1>2, <1>3, <1>4, <1>5, <1>6, <1>7, <1>8, <1>9 DEF ChoicesNext

LEMMA ChoicesInvariant == ChoicesSpec => []ChoicesInv
  BY ChoicesInitInv, ChoicesNextInv, PTL DEF ChoicesSpec

(***************************************************************************)
(* The window and the session keep their types, for every set of boxes.    *)
(***************************************************************************)
THEOREM ChoicesTypes == ChoicesSpec => []ChoicesTypeOK
  <1>1. ChoicesInv => ChoicesTypeOK
    BY DEF ChoicesInv
  <1> QED BY <1>1, ChoicesInvariant, PTL

(***************************************************************************)
(* For every set of boxes and any number of passes, a run excludes what    *)
(* the boxes said when it was started.                                     *)
(***************************************************************************)
THEOREM ChoicesMatch == ChoicesSpec => []ExcludesMatchBoxes
  <1>1. ChoicesInv => ExcludesMatchBoxes
    BY DEF ChoicesInv
  <1> QED BY <1>1, ChoicesInvariant, PTL
----------------------------------------------------------------------------
(* The space check. *)

USE SpaceAssumption DEF SpaceAssumption

DiskOK ==
    /\ size \in [Paths -> Nat] /\ home \in {"same", "bound", "apart"} /\ factor \in 0..100
    /\ excludes \subseteq Paths \ {"/"}
    /\ device \in [Dirs -> Devices] /\ free \in [Devices -> Nat]

(* What the measures were to find. *)
ExcludedSize == SumOf([p \in Paths |-> Du(p)], NotNested(excludes))
RootSize == Du("/")
HomeSize == IF home = "apart" THEN Du("/home") ELSE 0

(* What each measure has found, unless one of them failed. *)
Measured ==
    /\ ~blind => ok
    /\ pc \notin {"place", "read", "refused"} /\ home = "bound" => "/home" \in excludes
    /\ ~blind /\ pc \in {"root", "homes", "estimate"} => sums.excluded = ExcludedSize
    /\ ~blind /\ pc = "homes" => sums.root = RootSize
    /\ ~blind /\ pc = "estimate" => sums.root = RootSize + HomeSize
    /\ ~blind /\ pc \in {"check", "move", "accepted"} => Need <= required

(* Why the check let the run go on here, or at another place. *)
Judged ==
    /\ pc \notin {"move", "accepted", "refused"} => target = Undecided
    /\ pc = "accepted" /\ target = Undecided => Enough
    /\ pc = "move" => target # Undecided
    /\ pc \in {"move", "accepted"} /\ target # Undecided =>
          required <= Free("snapshot") /\ Better(target)

SpaceInv == SpaceTypeOK /\ DiskOK /\ Measured /\ Judged

(* What lies beneath each path, itself included. *)
LEMMA Tree ==
    /\ Beneath("/") = Paths /\ Beneath("/var") = {"/var"}
    /\ Beneath("/home") = {"/home", "/home/u"} /\ Beneath("/home/u") = {"/home/u"}
  BY DEF Beneath, Inside, Paths

(* What du finds. *)
LEMMA DuFinds ==
    ASSUME DiskOK
    PROVE  /\ \A p \in Paths : size[p] \in Nat /\ Du(p) \in Nat
           /\ Du("/var") = size["/var"] /\ Du("/home/u") = size["/home/u"]
           /\ Du("/home") = size["/home"] + size["/home/u"]
           /\ Du("/") = IF home = "apart" THEN size["/"] + size["/var"]
                        ELSE size["/"] + size["/var"] + size["/home"] + size["/home/u"]
  <1> DEFINE Seen(p) == {q \in Beneath(p) : SameFileSystem(p, q)}
  <1>1. \A p \in Paths : size[p] \in Nat
    BY DEF DiskOK
  <1>2. /\ Seen("/var") = {"/var"} /\ Seen("/home/u") = {"/home/u"}
        /\ Seen("/home") = {"/home", "/home/u"}
        /\ Seen("/") = IF home = "apart" THEN {"/", "/var"} ELSE Paths
    BY Tree DEF SameFileSystem, Paths
  <1>3. \A p : Du(p) = Sum(Seen(p))
    BY DEF Du
  <1> HIDE DEF Seen
  <1>4. /\ Du("/var") = size["/var"] /\ Du("/home/u") = size["/home/u"]
        /\ Du("/home") = size["/home"] + size["/home/u"]
    BY <1>1, <1>2, <1>3 DEF Sum, SumOf, Paths
  <1>5. Du("/") = IF home = "apart" THEN size["/"] + size["/var"]
                  ELSE size["/"] + size["/var"] + size["/home"] + size["/home/u"]
    BY <1>1, <1>2, <1>3 DEF Sum, SumOf, Paths
  <1>6. \A p \in Paths : Du(p) \in Nat
    BY <1>1, <1>4, <1>5 DEF Paths
  <1> QED
    BY <1>1, <1>4, <1>5, <1>6

(* What is excluded, and what is left to be squashed. *)
LEMMA SumsAreNat ==
    ASSUME NEW amount \in [Paths -> Nat], NEW paths PROVE SumOf(amount, paths) \in Nat
  BY DEF SumOf, Paths

(* What is measured is at least what will be squashed: nothing is subtracted twice. *)
LEMMA NothingTwice ==
    ASSUME DiskOK, home = "bound" => "/home" \in excludes
    PROVE  ExcludedSize + Sum(Squashed) <= RootSize + HomeSize
  <1>1. /\ "/" \notin NotNested(excludes)
        /\ "/var" \in NotNested(excludes) <=> "/var" \in excludes
        /\ "/home" \in NotNested(excludes) <=> "/home" \in excludes
        /\ "/home/u" \in NotNested(excludes) <=> "/home/u" \in excludes /\ "/home" \notin excludes
    BY DEF NotNested, Inside, DiskOK, Paths
  <1>2. /\ "/" \in Squashed
        /\ "/var" \in Squashed <=> "/var" \notin excludes
        /\ "/home" \in Squashed <=> "/home" \notin excludes
        /\ "/home/u" \in Squashed <=> "/home" \notin excludes /\ "/home/u" \notin excludes
    <2>1. \A p \in excludes : p \in {"/var", "/home", "/home/u"}
      BY DEF DiskOK, Paths
    <2>2. \A q \in Paths : q \in Squashed <=> \A p \in excludes : q \notin Beneath(p)
      BY DEF Squashed
    <2> QED
      BY <2>1, <2>2, Tree DEF Paths
  <1>3. PICK r \in Nat, v \in Nat, h \in Nat, u \in Nat :
          r = size["/"] /\ v = size["/var"] /\ h = size["/home"] /\ u = size["/home/u"]
    BY DuFinds DEF Paths
  <1>4. ExcludedSize = (IF "/var" \in excludes THEN v ELSE 0)
                       + (IF "/home" \in excludes THEN h + u ELSE 0)
                       + (IF "/home/u" \in excludes /\ "/home" \notin excludes THEN u ELSE 0)
    BY <1>1, <1>3, DuFinds DEF ExcludedSize, SumOf, Paths
  <1>5. Sum(Squashed) = r + (IF "/var" \notin excludes THEN v ELSE 0)
                        + (IF "/home" \notin excludes THEN h ELSE 0)
                        + (IF "/home" \notin excludes /\ "/home/u" \notin excludes THEN u ELSE 0)
    BY <1>2, <1>3 DEF Sum, SumOf, Paths
  <1>6. RootSize + HomeSize = r + v + h + u
    <2>1. home = "apart" \/ home # "apart"
      OBVIOUS
    <2> QED
      BY <1>3, <2>1, DuFinds DEF RootSize, HomeSize
  <1> QED
    BY <1>4, <1>5, <1>6

(* The share of more is more. *)
LEMMA ShareGrows ==
    ASSUME NEW a \in Nat, NEW b \in Nat, NEW f \in 0..100, a <= b
    PROVE  (a * f) \div 100 <= (b * f) \div 100 /\ (b * f) \div 100 \in Nat
  <1>1. a * f <= b * f /\ a * f \in Nat /\ b * f \in Nat
    OBVIOUS
  <1>2. \A x, y \in Nat : x <= y => x \div 100 <= y \div 100 /\ y \div 100 \in Nat
    OBVIOUS
  <1> QED
    BY <1>1, <1>2

(* checkTempDir never puts the work directory into /home itself. *)
LEMMA PlacedInDirs ==
    ASSUME NEW wish \in Dirs \cup {Undecided} PROVE Placed(wish) \in Dirs \ {"home"}
  BY DEF Placed, Chosen, Larger, Dirs, Undecided

(* Nothing is measured or judged before the work directory has its place. *)
LEMMA SpaceInitInv == SpaceInit => SpaceInv
  <1> SUFFICES ASSUME SpaceInit PROVE SpaceInv
    OBVIOUS
  <1> USE DEF SpaceInit
  <1>1. SpaceTypeOK
    <2>1. sums \in [{"excluded", "root"} -> Nat]
      OBVIOUS
    <2>2. parent \in Dirs \cup {Undecided} /\ excludes \subseteq Paths
      BY DEF Dirs
    <2> QED
      BY <2>1, <2>2 DEF SpaceTypeOK
  <1>2. DiskOK
    BY DEF DiskOK
  <1>3. Measured /\ Judged
    BY DEF Measured, Judged
  <1> QED
    BY <1>1, <1>2, <1>3 DEF SpaceInv

(* The estimate is at least what the images need. *)
LEMMA EstimateCovers ==
    ASSUME SpaceInv, Estimate
    PROVE  required' \in Nat /\ (~blind => (Need <= required)')
  <1>1. /\ sums.root \in Nat /\ sums.excluded \in Nat /\ factor \in 0..100
        /\ required' = IF ok THEN (Kept * factor) \div 100 ELSE 0
        /\ pc = "estimate"
    <2>1. sums.root \in Nat /\ sums.excluded \in Nat
      BY DEF SpaceInv, SpaceTypeOK
    <2>2. factor \in 0..100
      BY DEF SpaceInv, DiskOK
    <2> QED
      BY <2>1, <2>2 DEF Estimate, Goes
  <1>2. Kept \in Nat
    BY <1>1 DEF Kept
  <1>3. required' \in Nat
    BY <1>1, <1>2, ShareGrows
  <1>4. ASSUME ~blind PROVE Need <= required'
    <2>1. ok /\ sums.excluded = ExcludedSize /\ sums.root = RootSize + HomeSize
          /\ (home = "bound" => "/home" \in excludes)
      BY <1>1, <1>4 DEF SpaceInv, Measured
    <2>2. ExcludedSize + Sum(Squashed) <= sums.root
      BY <2>1, NothingTwice DEF SpaceInv
    <2>3. Sum(Squashed) \in Nat
      BY SumsAreNat DEF Sum, SpaceInv, DiskOK
    <2>4. Sum(Squashed) <= Kept
      BY <1>1, <2>1, <2>2, <2>3 DEF Kept
    <2> QED
      BY <1>1, <1>2, <2>1, <2>3, <2>4, ShareGrows DEF Need
  <1>5. Need' = Need
    BY DEF Estimate, diskVars, Need, Sum, SumOf, Squashed
  <1> QED
    BY <1>3, <1>4, <1>5 DEF Estimate

(***************************************************************************)
(* Every step keeps what the sums and the estimate say of the disk, and    *)
(* why the check let the run go on, or go on elsewhere.                    *)
(***************************************************************************)
LEMMA SpaceNextInv == SpaceInv /\ [SpaceNext]_spaceVars => SpaceInv'
  <1> SUFFICES ASSUME SpaceInv, [SpaceNext]_spaceVars PROVE SpaceInv'
    OBVIOUS
  <1> USE DEF diskVars, measureVars, Goes
  <1>1. SpaceTypeOK /\ DiskOK /\ Measured /\ Judged
    BY DEF SpaceInv
  <1> DEFINE SameDisk == UNCHANGED diskVars
  <1>2. ASSUME SameDisk, excludes' = excludes
        PROVE  /\ DiskOK' /\ Need' = Need /\ ExcludedSize' = ExcludedSize
               /\ RootSize' = RootSize /\ HomeSize' = HomeSize
    BY <1>1, <1>2 DEF DiskOK, Need, Squashed, Sum, SumOf, ExcludedSize, RootSize, HomeSize, Du,
       SameFileSystem, NotNested
  <1>3. ASSUME SameDisk
        PROVE  \A d : Free(d)' = Free(d) /\ (required' = required => Better(d)' = Better(d))
    BY <1>3 DEF Free, Better
  <1>4. ASSUME SameDisk, required' = required, parent' = parent
        PROVE  Enough' = Enough
    BY <1>4 DEF Enough, OneDevice, Free
  <1>5. CASE UNCHANGED spaceVars
    BY <1>1, <1>2, <1>3, <1>4, <1>5 DEF spaceVars, SpaceInv, SpaceTypeOK, Measured, Judged
  <1>6. CASE PlaceWorkDir
    <2>1. parent' \in Dirs \ {"home"}
      BY <1>1, <1>6, PlacedInDirs DEF PlaceWorkDir, SpaceTypeOK
    <2> QED
      BY <1>1, <1>2, <1>6, <2>1 DEF PlaceWorkDir, SpaceInv, SpaceTypeOK, Measured, Judged
  <1>7. CASE CannotPlace
    BY <1>1, <1>2, <1>7 DEF CannotPlace, SpaceInv, SpaceTypeOK, Measured, Judged
  <1>8. CASE ReadExcludes
    <2>1. excludes' \subseteq Paths \ {"/"} /\ (home' = "bound" => "/home" \in excludes')
      BY <1>1, <1>8 DEF ReadExcludes, DiskOK, Paths
    <2>2. DiskOK'
      BY <1>1, <1>8, <2>1 DEF ReadExcludes, DiskOK
    <2> QED
      BY <1>1, <1>8, <2>1, <2>2 DEF ReadExcludes, SpaceInv, SpaceTypeOK, Measured, Judged
  <1>9. CASE DuExcludes
    <2>1. sums' = [sums EXCEPT !.excluded = ExcludedSize] /\ ExcludedSize \in Nat
      BY <1>1, <1>9, DuFinds, SumsAreNat DEF DuExcludes, ExcludedSize
    <2>2. sums' \in [{"excluded", "root"} -> Nat] /\ sums'.excluded = ExcludedSize
      BY <1>1, <2>1 DEF SpaceTypeOK
    <2> QED
      BY <1>1, <1>2, <1>9, <2>2 DEF DuExcludes, SpaceInv, SpaceTypeOK, Measured, Judged
  <1>10. CASE DuExcludesFails
    BY <1>1, <1>2, <1>10 DEF DuExcludesFails, SpaceInv, SpaceTypeOK, Measured, Judged
  <1>11. CASE DuRoot
    <2>1. RootSize \in Nat
      BY <1>1, DuFinds DEF RootSize, Paths
    <2>2. /\ sums' \in [{"excluded", "root"} -> Nat] /\ sums'.excluded = sums.excluded
          /\ ~blind' => sums'.root = RootSize
      BY <1>1, <1>11, <2>1 DEF DuRoot, RootSize, SpaceTypeOK
    <2>3. ok' \in BOOLEAN /\ blind' \in BOOLEAN /\ (~blind' => ok') /\ (~blind' => ~blind)
      BY <1>1, <1>11 DEF DuRoot, SpaceTypeOK
    <2> QED
      BY <1>1, <1>2, <1>11, <2>2, <2>3 DEF DuRoot, SpaceInv, SpaceTypeOK, Measured, Judged
  <1>12. CASE DuHome
    <2>1. RootSize \in Nat /\ HomeSize \in Nat /\ (home = "apart" => HomeSize = Du("/home"))
          /\ (home # "apart" => HomeSize = 0)
      BY <1>1, DuFinds DEF RootSize, HomeSize, Paths
    <2>2. ~blind' => ~blind /\ sums.root = RootSize /\ ok'
      BY <1>1, <1>12 DEF DuHome, Measured, SpaceTypeOK
    <2>3. sums'.root \in Nat /\ sums'.excluded = sums.excluded
          /\ sums' \in [{"excluded", "root"} -> Nat]
          /\ (~blind' => sums'.root = sums.root + HomeSize)
      BY <1>1, <1>12, <2>1 DEF DuHome, SpaceTypeOK
    <2>4. ok' \in BOOLEAN /\ blind' \in BOOLEAN
      BY <1>1, <1>12 DEF DuHome, SpaceTypeOK
    <2> QED
      BY <1>1, <1>2, <1>12, <2>2, <2>3, <2>4 DEF DuHome, SpaceInv, SpaceTypeOK, Measured, Judged
  <1>13. CASE Estimate
    BY <1>1, <1>2, <1>13, EstimateCovers DEF Estimate, SpaceInv, SpaceTypeOK, Measured, Judged
  <1>14. CASE Accept
    BY <1>1, <1>2, <1>4, <1>14 DEF Accept, SpaceInv, SpaceTypeOK, Measured, Judged
  <1>15. CASE Refuse
    BY <1>1, <1>2, <1>15 DEF Refuse, SpaceInv, SpaceTypeOK, Measured, Judged
  <1>16. CASE MoveTo
    <2>1. target' \in {"tmp", "home"} /\ Better(target') /\ target' # Undecided
      BY <1>16 DEF MoveTo, Undecided
    <2>2. required <= Free("snapshot")
      BY <1>16 DEF MoveTo, Crowded
    <2>3. (required <= Free("snapshot") /\ Better(target))'
      BY <1>3, <1>16, <2>1, <2>2 DEF MoveTo, Better, Free
    <2> QED
      BY <1>1, <1>2, <1>16, <2>1, <2>3 DEF MoveTo, SpaceInv, SpaceTypeOK, Measured, Judged
  <1>17. CASE Move
    <2>1. target \in {"tmp", "home"} /\ parent' \in Dirs \ {"home"} /\ target' = target
      <3>1. target \in {"tmp", "home"}
        BY <1>1, <1>17 DEF Move, SpaceTypeOK, Judged
      <3>2. target \in Dirs
        BY <3>1 DEF Dirs
      <3> QED
        BY <1>17, <3>1, <3>2, PlacedInDirs DEF Move
    <2>2. target # Undecided
      BY <2>1 DEF Undecided
    <2>3. (required <= Free("snapshot") /\ Better(target))'
      BY <1>1, <1>17, <2>1, <2>2 DEF Move, Better, Free, Judged
    <2> QED
      BY <1>1, <1>2, <1>17, <2>1, <2>2, <2>3 DEF Move, SpaceInv, SpaceTypeOK, Measured, Judged
  <1> QED
    BY <1>5, <1>6, <1>7, <1>8, <1>9, <1>10, <1>11, <1>12, <1>13, <1>14, <1>15, <1>16, <1>17 DEF SpaceNext

(* In every state the sums, the estimate and the judgement are what they should be. *)
LEMMA SpaceKept == SpaceSpec => []SpaceInv
  BY SpaceInitInv, SpaceNextInv, PTL DEF SpaceSpec

(***************************************************************************)
(* The subtraction of what is excluded, unsigned in the code, never wraps: *)
(* the sums and the estimate are naturals whatever the sizes, and the work *)
(* directory of a run that was not refused has a place that is not /home.  *)
(***************************************************************************)
THEOREM SpaceTypes == SpaceSpec => []SpaceTypeOK
  BY SpaceKept, PTL DEF SpaceInv

(***************************************************************************)
(* A run that checkEnoughSpace lets begin fits, for any sizes, free space, *)
(* factor and spread of the directories over devices: exclusions that lie  *)
(* in one another or on another file system never make the estimate less   *)
(* than what mksquashfs will read of the disk.                             *)
(***************************************************************************)
THEOREM SpaceFits == SpaceSpec => []AcceptedRunsFit
  <1>1. SpaceInv => AcceptedRunsFit
    <2> SUFFICES ASSUME SpaceInv, pc = "accepted", ~blind, ~Astray
                 PROVE  IF OneDevice THEN 2 * Need <= Free("snapshot")
                        ELSE Need <= Free("snapshot") /\ Need <= Free(parent)
      BY DEF AcceptedRunsFit
    <2>1. /\ Need <= required /\ required \in Nat
          /\ target = Undecided => Enough
          /\ target # Undecided => required <= Free("snapshot") /\ Better(target)
          /\ parent \in Dirs
      BY DEF SpaceInv, SpaceTypeOK, Measured, Judged
    <2>2. Need \in Nat
      <3>1. Sum(Squashed) \in Nat /\ factor \in 0..100
        BY SumsAreNat DEF Sum, SpaceInv, DiskOK
      <3> QED
        BY <3>1, ShareGrows DEF Need
    <2>3. Free("snapshot") \in Nat /\ Free(parent) \in Nat
      BY <2>1 DEF SpaceInv, DiskOK, Free, Dirs
    <2>4. CASE target = Undecided
      BY <2>1, <2>2, <2>3, <2>4 DEF Enough
    <2>5. CASE target # Undecided
      <3>1. device[parent] = device[target]
        BY <2>5 DEF Astray
      <3>2. ~OneDevice /\ Free(parent) > required
        BY <2>1, <2>5, <3>1 DEF OneDevice, Better, Free
      <3> QED
        BY <2>1, <2>2, <2>3, <2>5, <3>2
    <2> QED
      BY <2>4, <2>5
  <1> QED
    BY <1>1, SpaceKept, PTL
============================================================================
