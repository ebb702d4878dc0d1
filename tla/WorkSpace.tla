----------------------------- MODULE WorkSpace -----------------------------
(***************************************************************************)
(* The space check of a run: checkTempDir finds a place for the work       *)
(* directory, du measures what the image will hold, checkEnoughSpace       *)
(* compares that with what is free and may have the work directory moved.  *)
(* The snapshot directory and the work directory each receive an image.    *)
(***************************************************************************)
EXTENDS Integers

CONSTANTS
    Sizes,      \* what a path may hold itself, in KiB
    Frees,      \* what may be free on a device
    Factors     \* compression factors in percent; 0 for a name that is not known

ASSUME SpaceAssumption == Sizes \cup Frees \subseteq Nat /\ Factors \subseteq 0..100

Paths == {"/", "/var", "/home", "/home/u"}
Inside == {<<"/var", "/">>, <<"/home", "/">>, <<"/home/u", "/">>, <<"/home/u", "/home">>}
Beneath(p) == {q \in Paths : q = p \/ <<q, p>> \in Inside}

Dirs == {"tmp", "home", "user", "own", "snapshot"}
Devices == {1, 2}
Undecided == "none"

VARIABLES
    pc,         \* "place", "read", "excluded", "root", "homes", "estimate", "check",
                \* "move", and then the verdict: "accepted", "refused"
    size,       \* KiB in each path itself
    home,       \* /home is "same" (part of the root file system), "bound" or "apart"
    excludes,   \* paths whose measure is to be subtracted
    factor,
    ok,         \* the flag each du sets
    sums,       \* KiB measured: excluded, root
    required,   \* requiredSpaceKiB
    device,     \* of each directory
    free,       \* KiB, per device
    unfit,      \* devices with an unsupported file system
    parent,     \* tempDirParent: a directory or Undecided
    target,     \* moveWorkDirTo, or Undecided
    blind       \* history: a measurement failed

diskVars == <<size, home, factor, device, free, unfit>>
measureVars == <<excludes, ok, sums, required, blind>>
spaceVars == <<pc, diskVars, measureVars, parent, target>>

SpaceInit ==
    /\ pc = "place" /\ size \in [Paths -> Sizes] /\ home \in {"same", "bound", "apart"}
    /\ excludes \in SUBSET (Paths \ {"/"}) /\ factor \in Factors
    /\ ok = TRUE /\ sums = [excluded |-> 0, root |-> 0] /\ required = 0 /\ blind = FALSE
    /\ device \in {d \in [Dirs -> Devices] : d["snapshot"] = 1}
    /\ free \in [Devices -> Frees] /\ unfit \in SUBSET Devices
    /\ parent \in {Undecided, "own"} /\ target = Undecided

Goes(from, to) == pc = from /\ pc' = to
----------------------------------------------------------------------------
(* checkTempDir. *)

Free(d) == free[device[d]]
Supported(d) == device[d] \notin unfit

Larger(a, b) == IF device[a] = device[b] \/ Free(a) >= Free(b) THEN a ELSE b

Chosen(wish) ==
    IF wish # Undecided /\ Supported(wish) THEN wish
    ELSE IF Supported("snapshot") THEN Larger(Larger("tmp", "home"), "snapshot")
    ELSE Larger("tmp", "home")

(* Nobody's home is /home itself. *)
Placed(wish) == IF Chosen(wish) = "home" THEN "user" ELSE Chosen(wish)

PlaceWorkDir ==
    /\ Goes("place", "read") /\ parent' = Placed(parent)
    /\ UNCHANGED <<diskVars, measureVars, target>>

CannotPlace ==
    /\ pc \in {"place", "move"} /\ pc' = "refused"
    /\ UNCHANGED <<diskVars, measureVars, parent, target>>
----------------------------------------------------------------------------
(* getRequiredSpaceEstimate. *)

(* What an amount of each of the four paths adds up to over some of them. *)
SumOf(amount, paths) ==
    LET part(p) == IF p \in paths THEN amount[p] ELSE 0
    IN  part("/") + part("/var") + part("/home") + part("/home/u")

Sum(paths) == SumOf(size, paths)

(* du -x stays on the file system of its argument. *)
SameFileSystem(p, q) == home # "apart" \/ (p \in {"/", "/var"} <=> q \in {"/", "/var"})
Du(p) == Sum({q \in Beneath(p) : SameFileSystem(p, q)})

(* A bind-mounted home, or an empty one in the overlay, is not squashed. *)
ReadExcludes ==
    /\ Goes("read", "excluded")
    /\ excludes' = IF home = "bound" THEN excludes \cup {"/home"} ELSE excludes
    /\ UNCHANGED <<diskVars, ok, sums, required, blind, parent, target>>

(* Mutant: what lies in another exclusion is not dropped. *)
NotNestedKept(paths) == paths

(* What lies in another exclusion is dropped. *)
NotNested(paths) == {p \in paths : ~\E q \in paths : <<p, q>> \in Inside}

DuExcludes ==
    /\ Goes("excluded", "root")
    /\ sums' = [sums EXCEPT !.excluded = SumOf([p \in Paths |-> Du(p)], NotNested(excludes))]
    /\ UNCHANGED <<diskVars, excludes, ok, required, blind, parent, target>>

(* getRequiredSpace makes an estimate that failed a requirement of nothing. *)
DuExcludesFails ==
    /\ Goes("excluded", "check") /\ excludes # {} /\ ok' = FALSE /\ blind' = TRUE
    /\ UNCHANGED <<diskVars, excludes, sums, required, parent, target>>

DuRoot ==
    /\ Goes("root", "homes")
    /\ \/ ok' = TRUE /\ sums' = [sums EXCEPT !.root = Du("/")] /\ UNCHANGED blind
       \/ ok' = FALSE /\ blind' = TRUE /\ UNCHANGED sums
    /\ UNCHANGED <<diskVars, excludes, required, parent, target>>

(* Its success makes up for a failure of the measure of the root. *)
DuHome ==
    /\ Goes("homes", "estimate")
    /\ IF home # "apart" THEN UNCHANGED <<ok, sums, blind>>
       ELSE \/ ok' = TRUE /\ sums' = [sums EXCEPT !.root = @ + Du("/home")] /\ UNCHANGED blind
            \/ ok' = FALSE /\ blind' = TRUE /\ UNCHANGED sums
    /\ UNCHANGED <<diskVars, excludes, required, parent, target>>

(* Mutant: the subtraction is not guarded. *)
KeptUnclamped == sums.root - sums.excluded

(* The subtraction is unsigned: what is excluded is no more than the root. *)
Kept == IF sums.excluded > sums.root THEN 0 ELSE sums.root - sums.excluded

Estimate ==
    /\ Goes("estimate", "check")
    /\ required' = IF ok THEN (Kept * factor) \div 100 ELSE 0
    /\ UNCHANGED <<diskVars, excludes, ok, sums, blind, parent, target>>
----------------------------------------------------------------------------
(* checkEnoughSpace. *)

OneDevice == device[parent] = device["snapshot"]
Better(d) == device[d] # device["snapshot"] /\ Free(d) > required

(* Mutant: the image in the work directory is forgotten. *)
EnoughForOne == required <= Free("snapshot")

Enough ==
    /\ required <= Free("snapshot")
    /\ IF OneDevice THEN 2 * required <= Free("snapshot") ELSE required <= Free(parent)

Crowded == required <= Free("snapshot") /\ OneDevice /\ ~Enough

Accept ==
    /\ Goes("check", "accepted") /\ Enough
    /\ UNCHANGED <<diskVars, measureVars, parent, target>>

Refuse ==
    /\ Goes("check", "refused") /\ ~Enough
    /\ Crowded => ~Better("tmp") /\ ~Better("home")
    /\ UNCHANGED <<diskVars, measureVars, parent, target>>

MoveTo ==
    /\ Goes("check", "move") /\ Crowded
    /\ \/ Better("tmp") /\ target' = "tmp"
       \/ ~Better("tmp") /\ Better("home") /\ target' = "home"
    /\ UNCHANGED <<diskVars, measureVars, parent>>

(* checkTempDir decides for itself, and nothing is compared again. *)
Move ==
    /\ Goes("move", "accepted") /\ parent' = Placed(target)
    /\ UNCHANGED <<diskVars, measureVars, target>>

SpaceNext ==
    \/ PlaceWorkDir \/ CannotPlace
    \/ ReadExcludes \/ DuExcludes \/ DuExcludesFails \/ DuRoot \/ DuHome \/ Estimate
    \/ Accept \/ Refuse \/ MoveTo \/ Move

SpaceSpec == SpaceInit /\ [][SpaceNext]_spaceVars
----------------------------------------------------------------------------
SpaceTypeOK ==
    /\ pc \in {"place", "read", "excluded", "root", "homes", "estimate", "check", "move",
               "accepted", "refused"}
    /\ excludes \subseteq Paths /\ ok \in BOOLEAN /\ blind \in BOOLEAN
    /\ sums \in [{"excluded", "root"} -> Nat] /\ required \in Nat
    /\ parent \in Dirs \cup {Undecided} /\ target \in {"tmp", "home", Undecided}
    /\ pc \notin {"place", "refused"} => parent \in Dirs \ {"home"}

(***************************************************************************)
(* The images of a run that the check lets begin fit, the one that is      *)
(* built and the one in the snapshot directory: they need what the paths   *)
(* that are not excluded hold, each counted once.  Excepted are a          *)
(* measurement that failed and a work directory that checkTempDir did not  *)
(* put on the device that the check had found for it.                      *)
(***************************************************************************)
Squashed == Paths \ UNION {Beneath(p) : p \in excludes}
Need == (Sum(Squashed) * factor) \div 100

Astray == target # Undecided /\ device[parent] # device[target]

AcceptedRunsFit ==
    pc = "accepted" /\ ~blind /\ ~Astray =>
        IF OneDevice THEN 2 * Need <= Free("snapshot")
        ELSE Need <= Free("snapshot") /\ Need <= Free(parent)
============================================================================
