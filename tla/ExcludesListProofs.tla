------------------------- MODULE ExcludesListProofs -------------------------
(***************************************************************************)
(* What becomes of the user's exclusion list, for any number of boxes,     *)
(* saves and updates.                                                      *)
(***************************************************************************)
EXTENDS ExcludesList, TLAPS

Frame == [at : Boxes \cup Busy, by : {"watcher", "user"}]

FramesOK ==
    /\ frames \in Seq(Frame) /\ Len(frames) <= MaxDepth
    /\ \A i \in 2..Len(frames) : frames[i].at \in Boxes

RestOK ==
    /\ program \in {"window", "cli"} /\ source \in 1..MaxUpdates + 1
    /\ list \in Contents /\ newer \in BOOLEAN /\ ahead \in BOOLEAN
    /\ backups \subseteq Contents /\ taken \in BOOLEAN
    /\ watch \in {"on", "stale", "off"} /\ event \in BOOLEAN
    /\ watch = "on" => list # None
    /\ saves \in 1..MaxSaves + 1 /\ removed \subseteq Contents /\ excused \subseteq Contents
    /\ cause \in BOOLEAN

(* What a reset is about to remove has a copy. *)
DoomedIsSafe == Doomed /\ list[1] = "user" => list \in backups \cup excused

(* Once the question is settled there is none to ask. *)
SettledIsQuiet == Outdated => cause

ExcludesInv == FramesOK /\ RestOK /\ DoomedIsSafe /\ SettledIsQuiet /\ UserListSurvives

USE ExcludesAssumption DEF ExcludesAssumption
----------------------------------------------------------------------------
(* The calls of the thread. *)

LEMMA EnterFrames ==
    ASSUME FramesOK, NEW place \in Boxes \ {"warned"}, NEW caller \in {"watcher", "user"},
           Enter(place, caller), Place \in Boxes \cup {"loop"}, Len(frames) < MaxDepth
    PROVE  /\ FramesOK' /\ (Doomed' => Doomed)
           /\ Len(frames') = Len(frames) + 1
           /\ Head(frames') = [at |-> place, by |-> caller]
  <1> DEFINE frame == [at |-> place, by |-> caller]
  <1>1. frame \in Frame
    BY DEF Frame
  <1>2. frames' = <<frame>> \o frames /\ frames \in Seq(Frame)
    BY DEF Enter, FramesOK
  <1>3. frames' \in Seq(Frame) /\ Len(frames') = Len(frames) + 1 /\ frames'[1] = frame
    BY <1>1, <1>2
  <1>4. \A i \in 2..Len(frames') : i - 1 \in 1..Len(frames) /\ frames'[i] = frames[i - 1]
    BY <1>1, <1>2, <1>3
  <1>5. Len(frames) > 0 => frames[1].at \in Boxes
    <2> SUFFICES ASSUME Len(frames) > 0 PROVE frames[1].at \in Boxes
      OBVIOUS
    <2>1. frames # <<>> /\ Head(frames) = frames[1] /\ frames[1] \in Frame
      BY <1>2
    <2>2. frames[1].at \in Boxes \cup {"loop"}
      BY <2>1 DEF Place
    <2> QED BY <2>1, <2>2 DEF Frame, Boxes, Busy
  <1>6. \A i \in 1..Len(frames) : frames[i].at \in Boxes
    BY <1>5, <1>2 DEF FramesOK
  <1>7. FramesOK'
    <2>1. \A i \in 2..Len(frames') : frames'[i].at \in Boxes
      BY <1>4, <1>6
    <2>2. Len(frames') <= MaxDepth
      BY <1>2, <1>3
    <2>3. Frame' = Frame /\ Boxes' = Boxes
      BY DEF Frame, Boxes, Busy
    <2> QED BY <1>3, <2>1, <2>2, <2>3 DEF FramesOK
  <1>8. Doomed' => Doomed
    <2> SUFFICES ASSUME NEW i \in 1..Len(frames'), frames'[i].at \in {"warned", "remove"}
                 PROVE  Doomed
      BY DEF Doomed
    <2>1. i # 1
      BY <1>3 DEF Boxes
    <2> QED BY <1>2, <1>3, <1>4, <2>1 DEF Doomed
  <1> QED BY <1>3, <1>7, <1>8

LEMMA GoToFrames ==
    ASSUME FramesOK, NEW place \in Boxes \cup Busy, frames # <<>>, GoTo(place)
    PROVE  /\ FramesOK' /\ Len(frames') = Len(frames)
           /\ (place \notin {"warned", "remove"} /\ Doomed' => Doomed)
  <1> DEFINE frame == [Head(frames) EXCEPT !.at = place]
  <1>1. frames \in Seq(Frame) /\ Len(frames) > 0 /\ Head(frames) \in Frame
    BY DEF FramesOK
  <1>2. frame \in Frame /\ frame.at = place
    BY <1>1 DEF Frame
  <1>3. frames' = <<frame>> \o Tail(frames) /\ Tail(frames) \in Seq(Frame)
        /\ Len(Tail(frames)) = Len(frames) - 1
    BY <1>1 DEF GoTo
  <1>4. frames' \in Seq(Frame) /\ Len(frames') = Len(frames) /\ frames'[1] = frame
    BY <1>1, <1>2, <1>3
  <1>5. \A i \in 2..Len(frames) : frames'[i] = frames[i]
    BY <1>1, <1>2, <1>3, <1>4
  <1>6. FramesOK'
    BY <1>4, <1>5 DEF FramesOK, Frame, Boxes, Busy
  <1>7. ASSUME place \notin {"warned", "remove"}, Doomed' PROVE Doomed
    <2> PICK i \in 1..Len(frames') : frames'[i].at \in {"warned", "remove"}
      BY <1>7 DEF Doomed
    <2>1. i # 1
      BY <1>2, <1>4, <1>7
    <2> QED BY <1>4, <1>5, <2>1 DEF Doomed
  <1> QED BY <1>4, <1>6, <1>7

LEMMA DoneFrames ==
    ASSUME FramesOK, frames # <<>>, frames' = Tail(frames)
    PROVE  FramesOK' /\ Len(frames') < Len(frames) /\ (Doomed' => Doomed)
  <1>1. frames \in Seq(Frame) /\ Len(frames) > 0
    BY DEF FramesOK
  <1>2. frames' \in Seq(Frame) /\ Len(frames') = Len(frames) - 1
    BY <1>1
  <1>3. \A i \in 1..Len(frames') : frames'[i] = frames[i + 1]
    BY <1>1, <1>2
  <1>4. FramesOK'
    BY <1>2, <1>3 DEF FramesOK, Frame, Boxes, Busy
  <1>5. Doomed' => Doomed
    BY <1>2, <1>3 DEF Doomed
  <1> QED BY <1>2, <1>4, <1>5
----------------------------------------------------------------------------
(* The invariant. *)

LEMMA TypesSplit == ExcludesTypeOK <=> FramesOK /\ RestOK
  BY DEF ExcludesTypeOK, FramesOK, RestOK, Frame

LEMMA SomewhereMeans ==
    ASSUME NEW place, place # "loop", At(place)
    PROVE  frames # <<>> /\ Head(frames).at = place
  BY DEF At, Place

LEMMA HeadIsDoomed ==
    ASSUME FramesOK, At("warned") \/ At("remove")
    PROVE  Doomed
  <1>1. frames # <<>> /\ Head(frames).at \in {"warned", "remove"}
    BY SomewhereMeans
  <1>2. Len(frames) > 0 /\ Head(frames) = frames[1]
    BY <1>1 DEF FramesOK
  <1> QED BY <1>1, <1>2 DEF Doomed, FramesOK

LEMMA ContentsMembers ==
    /\ None \in Contents /\ None[1] # "user"
    /\ \A n : Default(n) # None /\ User(n) # None /\ Default(n)[1] # "user"
    /\ \A n \in 0..MaxUpdates + 1 : Default(n) \in Contents
    /\ \A n \in 1..MaxSaves + 1 : User(n) \in Contents
  BY DEF Contents, None, Default, User

LEMMA ExcludesInitInv == ExcludesInit => ExcludesInv
  <1> SUFFICES ASSUME ExcludesInit PROVE ExcludesInv
    OBVIOUS
  <1>1. list \in Contents /\ list # None
    <2>1. 0 \in 0..MaxUpdates + 1 /\ 1 \in 0..MaxUpdates + 1 /\ 1 \in 1..MaxSaves + 1
      OBVIOUS
    <2> QED BY <2>1, ContentsMembers DEF ExcludesInit
  <1>2. RestOK
    <2>1. newer \in BOOLEAN /\ ahead \in BOOLEAN
      BY DEF ExcludesInit
    <2>2. watch \in {"on", "stale", "off"} /\ program \in {"window", "cli"}
      BY DEF ExcludesInit
    <2>3. event = FALSE /\ taken = FALSE /\ cause = TRUE
      BY DEF ExcludesInit
    <2>4. backups = {} /\ removed = {} /\ excused = {}
      BY DEF ExcludesInit
    <2>5. source \in 1..MaxUpdates + 1 /\ saves \in 1..MaxSaves + 1
      BY DEF ExcludesInit
    <2> QED BY <1>1, <2>1, <2>2, <2>3, <2>4, <2>5 DEF RestOK
  <1>3. FramesOK
    <2>1. <<>> \in Seq(Frame) /\ Len(<<>>) = 0
      OBVIOUS
    <2> QED BY <2>1 DEF FramesOK, ExcludesInit
  <1>4. ~Doomed
    BY DEF Doomed, ExcludesInit
  <1>5. DoomedIsSafe /\ SettledIsQuiet /\ UserListSurvives
    BY <1>4 DEF DoomedIsSafe, SettledIsQuiet, UserListSurvives, ExcludesInit
  <1> QED BY <1>2, <1>3, <1>5 DEF ExcludesInv

(* Steps that touch neither the files nor what was said about them. *)
LEMMA ThreadKeepsInv ==
    ASSUME ExcludesInv, FramesOK', Doomed' => Doomed,
           UNCHANGED <<program, fileVars, historyVars>>,
           watch' \in {"on", "stale", "off"}, watch' = "on" => list # None, event' \in BOOLEAN
    PROVE  ExcludesInv'
  <1>1. RestOK'
    BY DEF ExcludesInv, RestOK, fileVars, historyVars, Contents, None, User, Default
  <1>2. DoomedIsSafe'
    BY DEF ExcludesInv, DoomedIsSafe, fileVars, historyVars
  <1>3. SettledIsQuiet'
    BY DEF ExcludesInv, SettledIsQuiet, Outdated, fileVars, historyVars, None, Default
  <1>4. UserListSurvives'
    BY DEF ExcludesInv, UserListSurvives, fileVars, historyVars
  <1> QED BY <1>1, <1>2, <1>3, <1>4 DEF ExcludesInv

LEMMA RewatchedTypes ==
    ASSUME NEW w \in {"on", "stale", "off"}, NEW content, w = "on" => content # None
    PROVE  /\ Rewatched(w, content) \in {"on", "stale", "off"}
           /\ Rewatched(w, content) = "on" => content # None
  BY DEF Rewatched

LEMMA DeliverKeepsInv == ExcludesInv /\ Deliver => ExcludesInv'
  <1> SUFFICES ASSUME ExcludesInv, Deliver PROVE ExcludesInv'
    OBVIOUS
  <1> DEFINE known == IF watch = "stale" THEN "off" ELSE watch
  <1>1. FramesOK /\ RestOK
    BY DEF ExcludesInv
  <1>2. known \in {"on", "stale", "off"} /\ (known = "on" => list # None)
    BY <1>1 DEF RestOK
  <1>3. Place \in Boxes \cup {"loop"} /\ Len(frames) < MaxDepth /\ event' = FALSE
        /\ UNCHANGED <<program, fileVars, historyVars>>
    BY DEF Deliver, Listening
  <1>4. CASE Outdated
    <2>1. Enter("prompt", "watcher") /\ watch' = known
      BY <1>4 DEF Deliver
    <2>2. FramesOK' /\ (Doomed' => Doomed)
      BY <1>1, <1>3, <2>1, EnterFrames DEF Boxes
    <2> QED BY <1>2, <1>3, <2>1, <2>2, ThreadKeepsInv
  <1>5. CASE ~Outdated
    <2>1. frames' = frames /\ watch' = Rewatched(known, list)
      BY <1>5 DEF Deliver
    <2>2. FramesOK' /\ (Doomed' => Doomed)
      BY <1>1, <2>1 DEF FramesOK, Doomed, Frame, Boxes, Busy
    <2> QED BY <1>2, <1>3, <2>1, <2>2, ThreadKeepsInv, RewatchedTypes
  <1> QED BY <1>4, <1>5

LEMMA OpenKeepsInv == ExcludesInv /\ (Check \/ AskRevert) => ExcludesInv'
  <1> SUFFICES ASSUME ExcludesInv, Check \/ AskRevert PROVE ExcludesInv'
    OBVIOUS
  <1>1. FramesOK /\ RestOK
    BY DEF ExcludesInv
  <1>2. frames = <<>> /\ (Enter("prompt", "user") \/ Enter("question", "user"))
        /\ UNCHANGED <<program, fileVars, watch, event, historyVars>>
    BY DEF Check, AskRevert
  <1>3. Place = "loop" /\ Len(frames) = 0 /\ 0 < MaxDepth
    BY <1>2 DEF Place
  <1>4. FramesOK' /\ (Doomed' => Doomed)
    BY <1>1, <1>2, <1>3, EnterFrames DEF Boxes
  <1> QED BY <1>1, <1>2, <1>4, ThreadKeepsInv DEF RestOK

LEMMA BoxesKeepInv ==
    ExcludesInv /\ (ShowDiff \/ CloseDiff \/ Use \/ Revert \/ NothingToBackUp) => ExcludesInv'
  <1> SUFFICES ASSUME ExcludesInv, ShowDiff \/ CloseDiff \/ Use \/ Revert \/ NothingToBackUp
               PROVE  ExcludesInv'
    OBVIOUS
  <1>1. FramesOK /\ RestOK
    BY DEF ExcludesInv
  <1>2. PICK place \in {"diff", "prompt", "backup", "copy"} : GoTo(place)
    BY DEF ShowDiff, CloseDiff, Use, Revert, NothingToBackUp
  <1>3. frames # <<>> /\ UNCHANGED <<program, fileVars, watch, event, historyVars>>
    BY SomewhereMeans DEF ShowDiff, CloseDiff, Use, Revert, NothingToBackUp
  <1>4. FramesOK' /\ (Doomed' => Doomed)
    BY <1>1, <1>2, <1>3, GoToFrames DEF Boxes, Busy
  <1> QED BY <1>1, <1>3, <1>4, ThreadKeepsInv DEF RestOK

LEMMA AcknowledgeKeepsInv == ExcludesInv /\ Acknowledge => ExcludesInv'
  <1> SUFFICES ASSUME ExcludesInv, Acknowledge PROVE ExcludesInv'
    OBVIOUS
  <1>1. FramesOK /\ RestOK
    BY DEF ExcludesInv
  <1>2. At("warned") /\ GoTo("remove")
        /\ UNCHANGED <<program, fileVars, watch, event, historyVars>>
    BY DEF Acknowledge
  <1>3. FramesOK' /\ Doomed
    BY <1>1, <1>2, GoToFrames, SomewhereMeans, HeadIsDoomed DEF Busy
  <1> QED BY <1>1, <1>2, <1>3, ThreadKeepsInv DEF RestOK

(* A call that is over, and one that ends in an error. *)
LEMMA DoneTypes ==
    ASSUME FramesOK, RestOK, frames # <<>>, Done
    PROVE  /\ FramesOK' /\ (Doomed' => Doomed) /\ Len(frames') < Len(frames)
           /\ watch' \in {"on", "stale", "off"} /\ (watch' = "on" => list # None)
  BY DoneFrames, RewatchedTypes DEF Done, RestOK

LEMMA FailsTypes ==
    ASSUME FramesOK, RestOK, frames # <<>>, Fails
    PROVE  /\ FramesOK' /\ (Doomed' => Doomed) /\ Len(frames') <= Len(frames)
           /\ watch' \in {"on", "stale", "off"} /\ (watch' = "on" => list # None)
  <1>1. CASE program = "window"
    <2>1. GoTo("error") /\ watch' = watch
      BY <1>1 DEF Fails
    <2>2. FramesOK' /\ (Doomed' => Doomed) /\ Len(frames') = Len(frames)
      BY <2>1, GoToFrames DEF Boxes
    <2> QED BY <2>1, <2>2 DEF RestOK, FramesOK
  <1>2. CASE program # "window"
    BY <1>2, DoneTypes DEF Fails, FramesOK
  <1> QED BY <1>1, <1>2

LEMMA EndsKeepInv == ExcludesInv /\ (Dismiss \/ RemoveFails \/ CopyFails) => ExcludesInv'
  <1> SUFFICES ASSUME ExcludesInv, Dismiss \/ RemoveFails \/ CopyFails PROVE ExcludesInv'
    OBVIOUS
  <1>1. FramesOK /\ RestOK
    BY DEF ExcludesInv
  <1>2. frames # <<>> /\ (Done \/ Fails) /\ UNCHANGED <<program, fileVars, event, historyVars>>
    BY SomewhereMeans DEF Dismiss, RemoveFails, CopyFails
  <1>3. /\ FramesOK' /\ (Doomed' => Doomed)
        /\ watch' \in {"on", "stale", "off"} /\ (watch' = "on" => list # None)
    BY <1>1, <1>2, DoneTypes, FailsTypes
  <1> QED BY <1>1, <1>2, <1>3, ThreadKeepsInv DEF RestOK

LEMMA KeepKeepsInv == ExcludesInv /\ Keep => ExcludesInv'
  <1> SUFFICES ASSUME ExcludesInv, Keep PROVE ExcludesInv'
    OBVIOUS
  <1>1. FramesOK /\ RestOK
    BY DEF ExcludesInv
  <1>2. frames # <<>> /\ Done
        /\ UNCHANGED <<program, source, list, ahead, backups, taken, saves, removed, excused>>
    BY SomewhereMeans DEF Keep
  <1>3. /\ FramesOK' /\ (Doomed' => Doomed)
        /\ watch' \in {"on", "stale", "off"} /\ (watch' = "on" => list # None)
    BY <1>1, <1>2, DoneTypes
  <1>4. newer' \in BOOLEAN /\ cause' \in BOOLEAN /\ event' \in BOOLEAN
    BY <1>1 DEF Keep, RestOK
  <1>5. RestOK'
    BY <1>1, <1>2, <1>3, <1>4 DEF RestOK, Contents, None, User, Default
  <1>6. DoomedIsSafe' /\ UserListSurvives'
    BY <1>2, <1>3 DEF ExcludesInv, DoomedIsSafe, UserListSurvives
  <1>7. list # None /\ newer' => cause'
    BY DEF Keep
  <1>8. SettledIsQuiet'
    BY <1>2, <1>7 DEF SettledIsQuiet, Outdated, None, Default
  <1> QED BY <1>3, <1>5, <1>6, <1>8 DEF ExcludesInv

LEMMA BackUpKeepsInv == ExcludesInv /\ (BackUp \/ BackUpFails) => ExcludesInv'
  <1> SUFFICES ASSUME ExcludesInv, BackUp \/ BackUpFails PROVE ExcludesInv'
    OBVIOUS
  <1>1. FramesOK /\ RestOK
    BY DEF ExcludesInv
  <1>2. frames # <<>>
    BY SomewhereMeans DEF BackUp, BackUpFails
  <1>3. PICK place \in {"remove", "warned"} : GoTo(place)
    BY DEF BackUp, BackUpFails
  <1>4. FramesOK'
    BY <1>1, <1>2, <1>3, GoToFrames DEF Boxes, Busy
  <1>5. /\ UNCHANGED <<program, source, list, newer, ahead, watch, event, saves, removed, cause>>
        /\ backups \subseteq backups' /\ excused \subseteq excused'
        /\ backups' \cup excused' = backups \cup excused \cup {list} /\ taken' \in BOOLEAN
    BY <1>1 DEF BackUp, BackUpFails, fileVars, historyVars, RestOK
  <1>6. RestOK'
    BY <1>1, <1>5 DEF RestOK, Contents, None, User, Default
  <1>7. DoomedIsSafe'
    BY <1>5 DEF DoomedIsSafe
  <1>8. UserListSurvives'
    BY <1>5 DEF ExcludesInv, UserListSurvives
  <1>9. SettledIsQuiet'
    BY <1>5 DEF ExcludesInv, SettledIsQuiet, Outdated, None, Default
  <1> QED BY <1>4, <1>6, <1>7, <1>8, <1>9 DEF ExcludesInv

LEMMA RemoveKeepsInv == ExcludesInv /\ Remove => ExcludesInv'
  <1> SUFFICES ASSUME ExcludesInv, Remove PROVE ExcludesInv'
    OBVIOUS
  <1>1. FramesOK /\ RestOK
    BY DEF ExcludesInv
  <1>2. At("remove") /\ GoTo("copy") /\ list' = None /\ Replaced /\ Noticed
        /\ removed' = (IF list[1] = "user" THEN removed \cup {list} ELSE removed)
        /\ UNCHANGED <<program, source, newer, ahead, backups, taken, saves, excused, cause>>
    BY DEF Remove
  <1>3. FramesOK' /\ Doomed
    BY <1>1, <1>2, GoToFrames, SomewhereMeans, HeadIsDoomed DEF Busy
  <1>4. watch' \in {"stale", "off"} /\ event' \in BOOLEAN
    BY <1>1, <1>2 DEF Replaced, Noticed, RestOK
  <1>5. None \in Contents /\ None[1] # "user" /\ None' = None
    BY ContentsMembers DEF None
  <1>6. RestOK'
    BY <1>1, <1>2, <1>4, <1>5 DEF RestOK, Contents, User, Default
  <1>7. DoomedIsSafe' /\ SettledIsQuiet'
    BY <1>2, <1>5 DEF DoomedIsSafe, SettledIsQuiet, Outdated
  <1>8. UserListSurvives'
    BY <1>2, <1>3 DEF ExcludesInv, DoomedIsSafe, UserListSurvives
  <1> QED BY <1>3, <1>6, <1>7, <1>8 DEF ExcludesInv

LEMMA CopyKeepsInv == ExcludesInv /\ Copy => ExcludesInv'
  <1> SUFFICES ASSUME ExcludesInv, Copy PROVE ExcludesInv'
    OBVIOUS
  <1>1. FramesOK /\ RestOK
    BY DEF ExcludesInv
  <1>2. At("copy") /\ list' = Default(source) /\ newer' = ahead /\ frames' = Tail(frames)
        /\ watch' = Rewatched(watch, list') /\ cause' = FALSE
        /\ UNCHANGED <<program, source, ahead, backups, taken, event, saves, removed, excused>>
    BY DEF Copy
  <1>3. FramesOK' /\ (Doomed' => Doomed)
    BY <1>1, <1>2, SomewhereMeans, DoneFrames
  <1>4. list' \in Contents /\ list' # None /\ list'[1] # "user" /\ list' = Default(source)'
    <2>1. source \in 0..MaxUpdates + 1
      BY <1>1 DEF RestOK
    <2> QED BY <1>2, <2>1, ContentsMembers DEF Default
  <1>5. watch' \in {"on", "stale", "off"}
    BY <1>1, <1>2, <1>4, RewatchedTypes DEF RestOK, Rewatched
  <1>6. None' = None /\ Contents' = Contents
    BY DEF None, Contents, User, Default
  <1>7. RestOK'
    BY <1>1, <1>2, <1>4, <1>5, <1>6 DEF RestOK
  <1>8. DoomedIsSafe' /\ SettledIsQuiet' /\ UserListSurvives'
    BY <1>2, <1>4 DEF ExcludesInv, DoomedIsSafe, SettledIsQuiet, Outdated, UserListSurvives
  <1> QED BY <1>3, <1>7, <1>8 DEF ExcludesInv

LEMMA OthersKeepInv ==
    ExcludesInv /\ (UserSaves \/ UserRemoves \/ SourceUpdates \/ Tick) => ExcludesInv'
  <1> SUFFICES ASSUME ExcludesInv, UserSaves \/ UserRemoves \/ SourceUpdates \/ Tick
               PROVE  ExcludesInv'
    OBVIOUS
  <1>1. FramesOK /\ RestOK
    BY DEF ExcludesInv
  <1>2. UNCHANGED <<program, frames>>
    BY DEF UserSaves, UserRemoves, SourceUpdates, Tick, threadVars
  <1>3. FramesOK' /\ (Doomed' <=> Doomed)
    BY <1>1, <1>2 DEF FramesOK, Doomed, Frame, Boxes, Busy
  <1>4. None' = None /\ Contents' = Contents
    BY DEF None, Contents, User, Default
  <1>5. CASE UserSaves
    <2>1. saves' = saves + 1 /\ list' = User(saves') /\ newer' = ahead /\ cause' = TRUE
          /\ excused' = (IF Doomed THEN excused \cup {list'} ELSE excused)
          /\ UNCHANGED <<source, ahead, backups, taken, removed>>
      BY <1>5 DEF UserSaves
    <2>2. saves' \in 1..MaxSaves + 1
      BY <1>1, <1>5 DEF RestOK, UserSaves
    <2>3. list' \in Contents /\ list' # None
      BY <2>1, <2>2, ContentsMembers
    <2>4. watch' \in {"on", "stale", "off"} /\ event' \in BOOLEAN
      BY <1>1, <1>5 DEF RestOK, UserSaves, Replaced, Noticed
    <2>5. RestOK'
      BY <1>1, <1>2, <1>4, <2>1, <2>2, <2>3, <2>4 DEF RestOK
    <2>6. DoomedIsSafe' /\ SettledIsQuiet' /\ UserListSurvives'
      BY <1>3, <2>1 DEF ExcludesInv, DoomedIsSafe, SettledIsQuiet, UserListSurvives
    <2> QED BY <1>3, <2>5, <2>6 DEF ExcludesInv
  <1>6. CASE UserRemoves
    <2>1. list' = None /\ cause' = TRUE
          /\ UNCHANGED <<source, newer, ahead, backups, taken, saves, removed, excused>>
      BY <1>6 DEF UserRemoves
    <2>2. watch' \in {"stale", "off"} /\ event' \in BOOLEAN
      BY <1>1, <1>6 DEF RestOK, UserRemoves, Replaced, Noticed
    <2>3. RestOK'
      BY <1>1, <1>2, <1>4, <2>1, <2>2, ContentsMembers DEF RestOK
    <2>4. DoomedIsSafe' /\ SettledIsQuiet' /\ UserListSurvives'
      BY <2>1, ContentsMembers DEF ExcludesInv, DoomedIsSafe, SettledIsQuiet, UserListSurvives
    <2> QED BY <1>3, <2>3, <2>4 DEF ExcludesInv
  <1>7. CASE SourceUpdates
    <2>1. source' = source + 1 /\ cause' = TRUE /\ newer' \in BOOLEAN /\ ahead' \in BOOLEAN
          /\ UNCHANGED <<list, backups, taken, watch, event, saves, removed, excused>>
      BY <1>7 DEF SourceUpdates
    <2>2. source' \in 1..MaxUpdates + 1
      BY <1>1, <1>7 DEF RestOK, SourceUpdates
    <2>3. RestOK'
      BY <1>1, <1>2, <1>4, <2>1, <2>2 DEF RestOK
    <2>4. DoomedIsSafe' /\ SettledIsQuiet' /\ UserListSurvives'
      BY <1>3, <2>1 DEF ExcludesInv, DoomedIsSafe, SettledIsQuiet, UserListSurvives
    <2> QED BY <1>3, <2>3, <2>4 DEF ExcludesInv
  <1>8. CASE Tick
    <2>1. taken' = FALSE /\ ahead' \in BOOLEAN
          /\ UNCHANGED <<source, list, newer, backups, threadVars, historyVars>>
      BY <1>1, <1>8 DEF Tick, RestOK
    <2>2. RestOK'
      BY <1>1, <1>4, <2>1 DEF RestOK, threadVars, historyVars
    <2>3. DoomedIsSafe' /\ UserListSurvives'
      BY <1>3, <2>1 DEF ExcludesInv, DoomedIsSafe, UserListSurvives, historyVars
    <2>4. SettledIsQuiet'
      BY <1>4, <2>1 DEF ExcludesInv, SettledIsQuiet, Outdated, historyVars, Default
    <2> QED BY <1>3, <2>2, <2>3, <2>4 DEF ExcludesInv
  <1> QED BY <1>5, <1>6, <1>7, <1>8

LEMMA ExcludesNextInv == ExcludesInv /\ [ExcludesNext]_excludesVars => ExcludesInv'
  <1> SUFFICES ASSUME ExcludesInv, [ExcludesNext]_excludesVars PROVE ExcludesInv'
    OBVIOUS
  <1>1. CASE UNCHANGED excludesVars
    <2>1. FramesOK' /\ (Doomed' => Doomed)
      BY <1>1 DEF ExcludesInv, excludesVars, threadVars, FramesOK, Doomed, Frame, Boxes, Busy
    <2> QED BY <1>1, <2>1, ThreadKeepsInv DEF ExcludesInv, RestOK, excludesVars, threadVars
  <1>2. CASE ExcludesNext
    BY <1>2, DeliverKeepsInv, OpenKeepsInv, BoxesKeepInv, AcknowledgeKeepsInv, EndsKeepInv,
       KeepKeepsInv, BackUpKeepsInv, RemoveKeepsInv, CopyKeepsInv, OthersKeepInv
       DEF ExcludesNext
  <1> QED BY <1>1, <1>2

LEMMA ExcludesInvariant == ExcludesSpec => []ExcludesInv
  BY ExcludesInitInv, ExcludesNextInv, PTL DEF ExcludesSpec

(***************************************************************************)
(* The files, the watcher and the calls of the thread keep their types:    *)
(* only boxes lie under other boxes, and what is watched exists.           *)
(***************************************************************************)
THEOREM ExcludesTypes == ExcludesSpec => []ExcludesTypeOK
  <1>1. ExcludesInv => ExcludesTypeOK
    BY TypesSplit DEF ExcludesInv
  <1> QED BY <1>1, ExcludesInvariant, PTL

(***************************************************************************)
(* For any number of boxes, saves and updates, what the user saved is      *)
(* removed only behind a copy of it, unless that copy failed or the user   *)
(* saved it between the copy and the removal.                              *)
(***************************************************************************)
THEOREM ExcludesSurvive == ExcludesSpec => []UserListSurvives
  <1>1. ExcludesInv => UserListSurvives
    BY DEF ExcludesInv
  <1> QED BY <1>1, ExcludesInvariant, PTL

(***************************************************************************)
(* No answer brings the question back: the watcher opens a prompt only     *)
(* over a list that is outdated, and a settled question stays settled      *)
(* until a file changes.                                                   *)
(***************************************************************************)
THEOREM ExcludesPrompt == ExcludesSpec => PromptHasCause
  <1>1. ExcludesInv /\ [ExcludesNext]_excludesVars => [WatcherAsks => cause]_excludesVars
    <2> SUFFICES ASSUME ExcludesInv, ExcludesNext, WatcherAsks PROVE cause
      OBVIOUS
    <2> USE DEF WatcherAsks
    <2>1. Len(frames) \in Nat
      BY DEF ExcludesInv, FramesOK
    <2>2. CASE Deliver
      BY <2>1, <2>2 DEF Deliver, Enter, ExcludesInv, SettledIsQuiet
    <2>3. CASE Check \/ AskRevert
      BY <2>3 DEF Check, AskRevert, Enter
    <2>4. ASSUME frames # <<>> PROVE Len(Tail(frames)) < Len(frames)
      BY <2>1, <2>4 DEF ExcludesInv, FramesOK
    <2>5. ASSUME NEW place, GoTo(place), frames # <<>> PROVE FALSE
      BY <2>1, <2>5 DEF GoTo, ExcludesInv, FramesOK
    <2>6. \A place : place # "loop" /\ At(place) => frames # <<>>
      BY DEF At, Place
    <2>7. CASE ShowDiff \/ CloseDiff \/ Use \/ Revert \/ NothingToBackUp \/ BackUp \/ BackUpFails
               \/ Acknowledge \/ Remove
      BY <2>5, <2>6, <2>7 DEF ShowDiff, CloseDiff, Use, Revert, NothingToBackUp, BackUp, BackUpFails,
         Acknowledge, Remove
    <2>8. CASE Dismiss \/ Keep \/ RemoveFails \/ Copy \/ CopyFails
      BY <2>1, <2>4, <2>5, <2>6, <2>8 DEF Dismiss, Keep, RemoveFails, Copy, CopyFails, Done, Fails
    <2>9. CASE UserSaves \/ UserRemoves \/ SourceUpdates \/ Tick
      <3>1. frames' = frames
        BY <2>9 DEF UserSaves, UserRemoves, SourceUpdates, Tick, threadVars
      <3>2. ~(Len(frames) > Len(frames))
        BY <2>1
      <3> QED
        BY <3>1, <3>2
    <2> QED
      BY <2>2, <2>3, <2>7, <2>8, <2>9 DEF ExcludesNext
  <1> QED
    BY <1>1, ExcludesInvariant, PTL DEF ExcludesSpec, PromptHasCause
============================================================================
