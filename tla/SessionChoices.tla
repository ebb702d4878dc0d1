--------------------------- MODULE SessionChoices ---------------------------
(***************************************************************************)
(* What the settings page chooses and what the run gets of it: the boxes   *)
(* that exclude folders, the two radio buttons, the session's exclusions   *)
(* that "Next" builds from them by adding and removing texts, and the      *)
(* settings handed to the backend.                                         *)
(***************************************************************************)
EXTENDS Naturals

CONSTANTS
    Folders,    \* folders with a box
    Localized,  \* those of them that a user's language may have given another name
    MaxPasses   \* bound: times "Next" is pressed

ASSUME ChoicesAssumption == Localized \subseteq Folders /\ MaxPasses \in Nat

VARIABLES
    page,      \* "settings", "confirm" (the box "OK to start?") or "output"
    boxes,     \* folders whose box is checked
    all,       \* excludeAll is checked
    respin,    \* radioRespin is checked, radioPersonal is not
    reset,     \* settings->resetAccounts
    session,   \* sessionExcludes: per folder, how many entries of which form
    handed,    \* the settings the last run was started with
    passes,    \* times "Next" was pressed
    found,     \* history: folders whose local name the last pass found out
    wavered    \* history: folders for which passes have differed in that

windowVars == <<page, boxes, all, respin, reset>>
sessionVars == <<session, passes, found, wavered>>
choiceVars == <<windowVars, sessionVars, handed>>

(***************************************************************************)
(* An entry is one text for the English and the local folder, or for the   *)
(* English one alone when root could not be asked for the other.  The      *)
(* second is the beginning of the first: removing it leaves the rest.      *)
(***************************************************************************)
Forms == {"whole", "english", "local"}
Nothing == [form \in Forms |-> 0]
NotHanded == [session |-> [f \in Folders |-> Nothing], boxes |-> {}, found |-> {},
              respin |-> FALSE, reset |-> FALSE]

Form(f, known) == IF f \in known THEN "whole" ELSE "english"

Added(f, known, entries) == [entries EXCEPT ![Form(f, known)] = @ + 1]

(* Mutant: only the first of equal entries is removed. *)
RemovedOnce(f, known, entries) ==
    LET form == Form(f, known)
    IN  IF entries[form] > 0 THEN [entries EXCEPT ![form] = @ - 1] ELSE entries

Removed(f, known, entries) ==
    IF f \in known THEN [entries EXCEPT !["whole"] = 0]
    ELSE [whole |-> 0, english |-> 0, local |-> entries["local"] + entries["whole"]]

Lookups == {known \in SUBSET Folders : Folders \ Localized \subseteq known}

(***************************************************************************)
(* The window after its constructor: boxes as -x and --reset have set them *)
(* (both have entered the folders already), --month only the radio button. *)
(***************************************************************************)
ChoicesInit ==
    /\ page = "settings" /\ handed = NotHanded /\ passes = 0 /\ wavered = {}
    /\ found \in Lookups
    /\ \E given \in SUBSET Folders :
         /\ session = [f \in Folders |->
                IF f \in given THEN Added(f, found, Nothing) ELSE Nothing]
         /\ respin \in BOOLEAN /\ reset = respin /\ all = respin
         /\ boxes = IF respin THEN Folders ELSE given
----------------------------------------------------------------------------
(* A click on excludeAll sets every box. *)
AllClicked == all' = ~all /\ boxes' = IF all THEN {} ELSE Folders

ClickAll ==
    /\ page = "settings" /\ AllClicked
    /\ UNCHANGED <<page, respin, reset, sessionVars, handed>>

Check(f) ==
    /\ page = "settings" /\ f \notin boxes /\ boxes' = boxes \cup {f}
    /\ UNCHANGED <<page, all, respin, reset, sessionVars, handed>>

(* exclude..._toggled. *)
Uncheck(f) ==
    /\ page = "settings" /\ f \in boxes /\ boxes' = boxes \ {f} /\ all' = FALSE
    /\ UNCHANGED <<page, respin, reset, sessionVars, handed>>

(* radioRespin_toggled: toggled, so only when it was not chosen before. *)
ChooseRespin ==
    /\ page = "settings" /\ ~respin /\ respin' = TRUE /\ reset' = TRUE
    /\ IF all THEN UNCHANGED <<all, boxes>> ELSE AllClicked
    /\ UNCHANGED <<page, sessionVars, handed>>

(* radioPersonal_clicked: clicked, so also when it was chosen before. *)
ChoosePersonal ==
    /\ page = "settings" /\ respin' = FALSE /\ reset' = FALSE
    /\ IF all THEN AllClicked ELSE UNCHANGED <<all, boxes>>
    /\ UNCHANGED <<page, sessionVars, handed>>
----------------------------------------------------------------------------
(***************************************************************************)
(* "Next": applyExclusions adds or removes each folder's entry, on top of  *)
(* what earlier passes have left.  Whether root tells it the local names   *)
(* depends on the password box.                                            *)
(***************************************************************************)
ApplyExclusions ==
    /\ page = "settings" /\ passes < MaxPasses /\ page' = "confirm" /\ passes' = passes + 1
    /\ found' \in Lookups
    /\ session' = [f \in Folders |->
           IF f \in boxes THEN Added(f, found', session[f]) ELSE Removed(f, found', session[f])]
    /\ wavered' = wavered \cup {f \in Folders : (f \in found) # (f \in found')}
    /\ UNCHANGED <<boxes, all, respin, reset, handed>>

(* Cancel, or a directory that cannot be made; the list stays as it is. *)
DoNotStart ==
    /\ page = "confirm" /\ page' = "settings"
    /\ UNCHANGED <<boxes, all, respin, reset, sessionVars, handed>>

(***************************************************************************)
(* prepareForOutput: buildFromArgs makes a SettingsCpp of its own, into    *)
(* which overlayRuntimeFromQt copies the fields it names: resetAccounts is *)
(* not one of them.                                                        *)
(***************************************************************************)
Start ==
    /\ page = "confirm" /\ page' = "output"
    /\ handed' = [session |-> session, boxes |-> boxes, found |-> found,
                  respin |-> respin, reset |-> FALSE]
    /\ UNCHANGED <<boxes, all, respin, reset, sessionVars>>

(* The run is over, and Back has led to the first page, Next to this one. *)
Return ==
    /\ page = "output" /\ page' = "settings"
    /\ UNCHANGED <<boxes, all, respin, reset, sessionVars, handed>>

ChoicesNext ==
    \/ ClickAll \/ ChooseRespin \/ ChoosePersonal
    \/ \E f \in Folders : Check(f) \/ Uncheck(f)
    \/ ApplyExclusions \/ DoNotStart \/ Start \/ Return

ChoicesSpec == ChoicesInit /\ [][ChoicesNext]_choiceVars
----------------------------------------------------------------------------
Sessions == [Folders -> [Forms -> Nat]]

ChoicesTypeOK ==
    /\ page \in {"settings", "confirm", "output"}
    /\ boxes \subseteq Folders /\ (all => boxes = Folders)
    /\ respin \in BOOLEAN /\ reset = respin
    /\ session \in Sessions /\ passes \in 0..MaxPasses
    /\ handed.session \in Sessions /\ handed.boxes \subseteq Folders
    /\ found \in Lookups /\ wavered \subseteq Localized

(***************************************************************************)
(* A run excludes what the boxes said when it was started, however often   *)
(* boxes were changed, "Next" pressed and the start called off before: a   *)
(* checked folder is excluded, under its local name too if that was found  *)
(* out; of one that is not checked no entry is left, provided that its     *)
(* local name was found out every time or never.                           *)
(***************************************************************************)
ExcludesMatchBoxes ==
    \A f \in Folders :
        LET entries == handed.session[f]
        IN  IF f \in handed.boxes
            THEN /\ entries["whole"] + entries["english"] > 0
                 /\ f \in handed.found => entries["whole"] + entries["local"] > 0
            ELSE f \notin wavered => entries = Nothing

(***************************************************************************)
(* A run started with Respin chosen resets the accounts.                   *)
(***************************************************************************)
RespinResets == handed.respin => handed.reset
============================================================================
