SPECIFICATION LiveSpec
CONSTANTS
    Files = {"f1", "f2"}
    Links = {"l"}
    Folders = {"d1", "d2"}
    Folder <- MCFolder
    Scripts <- MCScripts
    Modes = {TRUE, FALSE}
    MaxLaunches = 3
INVARIANTS
    LiveTypeOK
    AdditionsAreRecorded
    OverlayProtectsReal
    OldPathsSurvive
    RecordOnlyGrows
PROPERTIES
    KeepsBindRoot
