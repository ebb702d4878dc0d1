# Formal model of the s4-snapshot backend

s4-snapshot makes a bootable live ISO out of the running Debian system. Its C++ backend was
ported from a Qt program and now works without Qt; a command line and a Qt6 window sit on top
of it. This directory holds TLA+ modules of that backend, TLC configurations that check them on
small instances, and proofs, checked by TLAPS, of what holds for every instance. Paths such as
`src/work_cpp_executor.cpp` are relative to the repository.

What is at stake: the backend mounts the running system under itself, writes into it as root,
squashes it and cleans up. A wrong order, a stop at a bad moment or a umount that fails can leave
accounts and keys in the image, files of the live session on the system, or remove the system.

Contents: [inventory](#inventory) · [plan](#plan) · [modules](#modules) · [runs](#runs) ·
[bounds](#bounds) · [fairness](#fairness) · [proofs](#proofs) · [divergences](#divergences) ·
[not modelled](#not-modelled)

## Inventory

### How the parts work together

```
 CLI main ──┐                                  ┌── planners: settings + probes -> plans
 Qt6 window ┴─ runFromSettings (runner) ───────┤
     │            │  checks, work dir, probes  └── executor: one plan step after another
     │ cancel     │                                   │ command lines (sh)   │ root commands
     ▼            ▼                                   ▼                      ▼
  stop flag   embedded runtime                 process runner         command runner
  (one per    (_embedded, signal handler)                             (pkexec/sudo/password)
   process)                                                                  ▼
                                                                      privileged helper
                                                       cleanup, cleanup_overlay, installed-to-live,
                                                       mount, umount, mksquashfs ...
```

The runner checks the settings, makes a work directory, extracts assets into it, asks whether
anything is mounted from an earlier run, and has *all* plans of the run made at once. It then
hands one plan after another (a *stage*) to the executor. The stop flag is a process-wide
`sig_atomic_t`: SIGINT/SIGTERM (once the handler is installed) or the window's cancel raise it,
the executor looks at it before each step, the runner before each stage.

### Components

| component | source | state | operations | what makes it correct |
|---|---|---|---|---|
| plan executor | `src/work_cpp_executor.cpp` | loop index, last verdict of a command line, last verdict of a root command, result | one handling per kind of step | no required step is missed by a success; a stop lets no further step begin |
| planners | `src/work_cpp_planner.cpp`, `src/batchprocessing_cpp_planner.cpp` | none | one plan per stage | every command that matters is followed by its check; the order prepare, squash, clean up, burn, rename |
| runner | `src/batchprocessing_cpp_runner.cpp` | settings, TempDir, result | `runFromSettings`, `run`, `run_interrupt_cleanup`, runtime space check | every run ends; success only behind a published image; nothing reaches the live system |
| embedded runtime | `src/embedded/embedded_assets_runtime.cpp` | stop flag, handler, path of `_embedded` | `prepareWorkspace`, `installSignalCleanup`, `requestStop`, `handleSignalStopIfRequested`, `clearSignalCleanup` | a stop is neither lost nor passed to another run |
| privileged helper | `src/helper.cpp` | none of its own; mounts and files of the machine | an allowlist of commands | removes only what belongs to a snapshot |
| installed-to-live | `src/installed_to_live_cpp.cpp` | `cleanup.conf`, bind root, mounts in it | `start`, `bind=`, `empty=`, `live-files`, `general`, ..., `cleanup` | whatever it adds to the real root is recorded and removed, and nothing else |
| command runner | `src/command_runner.cpp` | cached choice of tool, GUI password hooks | `proc`, `procAsRoot`, `helperProc` | a command is done once, or refused |
| process runner | `src/process_runner.cpp` | child, three pipes, deadline | `run`, `terminate_child` | every child is reaped, every byte read, every call returns |
| Qt6 window | `src_gui_qt6_cpp_backend/mainwindow.cpp` | page, `m_operationInProgress`, controls, button, worker | start, cancel, close, back, posted result | one worker at a time; a cancel is obeyed; the result is reported |
| GUI elevation | `src_gui_qt6_cpp_backend/gui_elevation.cpp` | cached password | ask on the GUI thread, clear | a worker never waits for a box nobody can answer |
| work directory | `src/tempdir.cpp`, `src/settings_tempdir_cpp.cpp` | path, autoRemove | create, move, release, remove | removed exactly when its owner goes |
| space check | `src/work_space_cpp.cpp`, `src/settings_space_cpp.cpp` | none | required and free space, better place for the work directory | never too small an estimate |
| excludes prompt | `src/batchprocessing_cpp.cpp`, `src_gui_qt6_cpp_backend/mainwindow.cpp` | the user's list and the default, their times, copies; the watcher of the file | diff, use updated, keep, revert | what the user wrote is never lost; an answer settles the question |
| session exclusions | `src/settings.cpp`, `src/settings_exclusions_cpp.cpp`, `src/settings_qt_adapter.cpp` | one text of entries, `sessionExcludes` | add or remove an entry per box, hand over to a run | the run excludes what the boxes said |
| CLI | `src/main_cli_cpp.cpp` | settings | parse, check, run | |
| readers, utilities, logging, translation | `src/settings_*_cpp.cpp`, `src/*_cpp.cpp` | none that outlives a call | | |

`PROJECT.json` lists every component with its files and how far it is modelled, and under
"hazards" each place where the code is hard to test. What is hard here, in short:

* **Interleaving.** Signals and cancels at any instruction; a posted result that arrives in the
  event loop of an open box; a kill job nobody waits for; a user who works on the very file system
  that is being added to and cleaned up.
* **Verdicts that are looked at later.** A command's outcome is kept in one of two variables and
  read by a later `CHECK_RESULT` step; five root commands are tolerated altogether.
* **Plans made from probes.** All plans are made before the first step; the machine and the work
  directory change under them.
* **Leftovers.** Mounts and `cleanup.conf` outlive the process; the next run starts on them.
* **Crash and partial failure.** `std::exit` from the depth of a root command, a plan that ends in
  the middle, an `installed-to-live` that dies before it has written its
  record or within that, or cannot write it.

## Plan

1. **Executor**: `PlanSteps`, `WorkExecutor`, proofs. *(done)*
2. **A whole run on a machine**: `WorkPlans`, `Machine`, `SnapshotRun`, with `RunContract` as the
   abstract specification it implements. *(done)*
3. **Around the run**: `GuiSession` (window and worker), `InstalledToLive` (the record of what is
   added to the system), both with proofs. *(done)*
4. **What a command line is**: `ChildProcess` (exec handshake, poll loop, time limit, stop, reaping)
   and `Elevation` (attempts, cached password, boxes over boxes, two threads), both with proofs.
   *(done)*
5. **What a run is given**: `ExcludesList` (the exclusion list, its prompt and watcher),
   `SessionChoices` (the settings page up to the hand-over) and `WorkSpace` (place of the work
   directory, estimate, verdict), each with proofs. *(done)*
6. **Proofs about whole runs**: `SnapshotRunProofs` has the type invariant, the refinement of the
   executor, the end of the work directory, the prepared bind root, the untouched live system, the
   refinement of `RunContract` and the success of undisturbed runs. *(done)*
7. **Views**: `BindRoot`, what a run relies on about the bind root, shown to be implemented both by a
   whole run (from the fields `Machine` has of it) and by `InstalledToLive` itself *(done)*;
   `GuiSession`'s worker shown to be a view of `SnapshotRun` *(left)*.

## Modules

```
 PlanSteps  <- WorkExecutor <- WorkExecutorProofs <---.
     ^             ^  ^------- MCWorkExecutor         |
 WorkPlans      SnapshotRun <--------------- SnapshotRunProofs
     ^-------------^ ^   ^---- MCSnapshotRun
                 Machine, RunContract and BindRoot (INSTANCE)

 ChildProcess    <- ChildProcessProofs      GuiSession      <- GuiSessionProofs, MCGuiSession
 Elevation       <- ElevationProofs         InstalledToLive <- InstalledToLiveProofs, MC...
                                              ^-- BindRoot (INSTANCE)
 ExcludesList    <- ExcludesListProofs      SessionChoices  <- ChoicesAndSpaceProofs
                                            WorkSpace       <-'
```

The modules meet where the code's parts call each other. A command of `SnapshotRun` that ends, fails
or is denied is one call of `Elevation` or of `ChildProcess`, an execution in `Elevation` is one
`ChildProcess`; what `SessionChoices` hands over and `ExcludesList` leaves on disk is what a run
squashes; `WorkSpace` is the run's stage `checkEnoughSpace` with its three answers (`enough`,
`short`, `move`) worked out.

**PlanSteps.** The vocabulary of plans. A `WorkCppPlanStep` is a variant of twelve payloads and
`RunCommandLine` hides pseudo commands behind text prefixes; what the executor does with a step
depends only on one of eight kinds (`quiet`, `line`, `sure`, `embed`, `strict`, `tolerant`,
`checkRoot`/`checkLine`, `abort`), and `op` names what the step does to the machine. `Required`
says which steps a plan cannot do without: those whose failure ends it at once or through the
check right behind them, as the code's plans have it. A verdict that a step in between overwrites
occurs in the three-step plans of `executor`, but no step counts as missed for it.

**WorkExecutor.** `WorkCppExecutor::run`. `Call` enters it, `HeadStop`/`HeadEnd`/`HeadStart` are
the loop head, `Finish` the effect of the outcome of the step on the two verdicts, the index and
the result; `FailedCheckChown` and `FailedCheckOverlay` are the two root commands a failed check of
a root command runs. `Die` is the `std::exit` of `CommandRunner::handleElevationError`.
`missed` and `late` are history variables.

**WorkPlans.** Each `plan...` function as a sequence of steps under the settings (`choices`) and the
planning-time probes (`probes`). Steps without verdict and effect (messages, `WRITE_*`, chdir) are
left out, and so are a few command lines whose verdict nobody looks at and whose effect no property
knows of (`sync`, a copy of a file, the sha512 sums); every other step is there, in the code's order.

**Machine.** What the commands do: for each `op` the set of outcomes with the machine they leave
(mount stacks on the overlay's `lower` and `root`, the overlay's directories, the prepared root,
`cleanup.conf`, the running system, the image; and the parts of the image this run makes). Commands
of the helper are translated from `helper.cpp` and `installed_to_live_cpp.cpp`; mount(8),
umount(8), mksquashfs and xorriso are external and modelled as the plans use them. A command may
also be cut short, as a stop that terminates the child does: installed-to-live before or behind its
record or within its writing, cleanup between its umount and the removal of the record,
cleanup_overlay anywhere before it removes the directories. The next run then finds what was left.
`host.conf` is "none", "empty" or "whole": in a world that refuses "record" the last write may have
emptied the record although the command came through, and a cleanup that meets an empty one unmounts
the default bind root, of which there is none, leaves the overlay's where it is and comes through.

**SnapshotRun.** The runner around executor and machine: one action per piece of
`runFromSettings`, `run`, `run_plan_with_runtime_space_check`, `run_interrupt_cleanup` and the
embedded runtime, for several runs in one process (window) or several processes (CLI).
`CommandEnds` joins the executor's `Finish` with the machine's `Results`. A *world* is a record of
the circumstances, chosen at the start: whether it is a CLI, whether a denied root command ends the
process (where commands fail at all: a denial is one of the faults), which commands may fail or be
refused, whether there are stops and crashes, what the space check may answer, which settings, how
many runs. `Denied` is the end of an unprivileged CLI at a denied root
command outside of the plans, the `du` of the space check among them.

**RunContract.** The promise of a run with everything inside left out: an image appears under its
final name in one step and whole, a success is reported only behind it. `DamageImage` is the one
exception the code makes: with `makeIsohybrid` the published image is rewritten in place and may
break there, and the run is then not a success.

**BindRoot.** The part of the bind root where a run and installed-to-live meet: it is mounted anew
before it is prepared, prepared only while a record is there in `cleanup.conf`, and the whole record
of a prepared root goes only together with the mount (`CleanUp`); so whatever a process dies of, the
next cleanup finds what there is to unmount. The record is "none", "empty" or "whole". One that a
failed write has emptied names no root, and may go while the root stays (`Discard`): that is all the
code keeps to, see divergences. `SnapshotRun` implements it with what `Machine` keeps of
installed-to-live's work (`host.root > 0`, `host.prepared`, `host.conf`), and `InstalledToLive`
implements the same with its own state (`mounted`, a history variable `prepared`, `conf`), under an
overlay, which every plan uses. In both, a mount that comes to light when one on top of it is taken
away counts as not prepared.

**GuiSession.** The window. The thread is in its event loop, in a box (whose own event loop also
delivers the worker's result), in the boot menu editor (which blocks it) or gone. The worker is
reduced to its checks before `installSignalCleanup`, then steps with a look at the flag before each;
one step is mksquashfs, which a cancel's `kill_mksquashfs` job may hit. The button counts as what it
reads: right after the start `prepareForOutput` renames it to "Close", so that its "Confirm
Cancellation" box is never reached and the cancel question is the one of `closeApp`.

**InstalledToLive.** The helper's `installed-to-live`: `start -F` and a script of commands in one
process, `cleanup` in another, the user's own programs in between, and deaths at every step.
`real` tells of every path of the real root whether it is absent, the user's, a dangling link, or
*mine* (added by us). `mem` is the process's `rmFiles`/`rmDirs`, `conf` says whether `cleanup.conf`
is missing, empty or whole, and `disk` what a whole one lists. `writeText` truncates the file and
then fills it, and every command but `start` ignores how that went, so each write may go through, be
refused (the old file stays), leave the file empty, or be what the process dies in (`WriteCutShort`).
The next command's `readConfFile` takes from the file what it lists and keeps what the process knows
where the file lists nothing: behind an emptied file nothing is forgotten until the process ends,
behind a refused write the additions of the command before are. Commands are
classed by what they do with the record and on failure: `Empty`, `Template` (fatal: `live-files`;
not fatal: the template of `passwd`, `repo`, `timezone`), `Adjust` (skips a missing file: `adjtime`,
`grubdefault`, display managers, `resumedisable`), `Mounts` (`bind=`). History: `old`, what was the
user's at the last start and has been since; `lost`, additions whose record was lost with a
process or a refused write or thrown away by `start -F`; `named`, what whole records have listed
since the start. Without an overlay the bind root is the real root; the
plans of this version always use one, the plain mode is the command's own interface.

**ChildProcess.** `run_impl` of the process runner and the child it makes, two machines joined by
three pipes. The parent makes one round of its loop at a time (`poll`, then one action per pipe
that was reported, then `waitpid`); the child is *any* program: it reads, writes as long as a pipe
has room, closes its ends, sleeps, ends by itself or by a signal, or was never executed. Beside
them: the time limit, the stop request, a child of another thread that inherited the pipes' ends
(only the handshake pipe is closed on exec), and `sudo`, which a user's signals do not reach
(`immune`). The end of the whole program by SIGPIPE is `pc = "dead"`.

**Elevation.** `CommandRunner::helperProc` and the password boxes of the window. Two callers, the
run's worker and the `kill_mksquashfs` job of a cancel, share the cached password; the GUI thread
shows a box per question, a question that arrives in the event loop of an open box opens a second
box over the first, and only the uppermost can be answered. `Ways` are the means of becoming root:
being it, sudo behind the box, a tool of its own with a prompt of its own (CLI), none. `stamp` is
sudo's own memory, in which it does not read the password at all. Two outputs are told apart by
what the code looks for in them, so a command that quotes sudo's refusal is executed again
(`quoted`).

**ExcludesList.** `checkUpdatedDefaultExcludesList`, `resetCustomExcludes` and the window's watcher
over two files of which only content, order of their times and copies matter. The thread is a stack
of frames: a box runs an event loop in which the watcher's signal may open the next prompt. Between
any two steps the user's editor saves or deletes the list, a package updates the default, and the
second of the copies' names changes. The command line runs the same prompt without watcher and
boxes.

**SessionChoices.** The settings page. Each press of "Next" adds the entries of checked boxes to one
text and removes those of the others from it; an entry is the English folder, or the English and
the localized one if root could be asked for the latter, and the former is the beginning of the
latter. `handed` is what `buildFromArgs` and `overlayRuntimeFromQt` give the run.

**WorkSpace.** `checkTempDir`, the measurements and `checkEnoughSpace`: the tree of four nested paths
with what each holds itself, a home that is part of the root file system, bound, or apart, two
devices, a measurement that fails. What `du` counts is taken from how it is called (`-x`, paths
one by one); the verdict is compared with what the image will hold. Sums are written out over the
four paths.

## Runs

Passing:

| run | what it shows |
|---|---|
| `executor` | Every plan of up to two steps, and the three-step plans where a verdict could be overwritten before its check. `SuccessMeansRequiredDone`: a call that is not aborted missed no required step. `StopBoundsWork`: one step at most is carried out under a raised flag. `AbortedPlanNeverSucceeds`: an Abort step is never lost. `CallEnds`. |
| `snapshot` | Whole runs in five worlds: two of an unprivileged CLI, one process each, and one of root's, with every command failing or denied, signals at every moment, every answer of the space check and five paths through the settings; two of such a CLI on a full disk, where `cleanup.conf` may be left empty as well; two of the window's worker with crashes; three in a row where nothing fails. `SquashesPreparedRoot`: mksquashfs only reads a mounted and prepared root, whatever earlier runs left. `LiveSystemIntact`: nothing removes the running system, *as long as umount of a mounted directory works* (see divergences). `SuccessLeavesNoBindRoot`: a run that reports success has left no bind root mounted, *where records can be written* (see divergences). `ReturnRemovesWorkDir`, `FaultFreeRunsSucceed`, `StopEndsRun`. `KeepsContract`: the run implements `RunContract`. `KeepsBindRoot`: it implements `BindRoot`. `CallsAreExecutorBehaviours`: seen from the executor's variables each step is a step of `WorkExecutor`, so what is proved of it holds in a run. |
| `gui_session` | Two runs from one window: `OneWorkerAtATime`, `OnlyCancelledRunsStop`, `HeardCancelIsObeyed`, `RunIsReported`. |
| `installed_to_live` | Three processes, with and without overlay, every starting state of five paths. Every write of `cleanup.conf` may fail or be died in. `AdditionsAreRecorded`: between commands and between processes, what we added is in `cleanup.conf`; while that is empty, in the memory of the process that writes it next; or it was lost with a process, a refused write or a start. `OldPathsSurvive`: what the user has had since before the start is never removed. `OverlayProtectsReal`: under an overlay only links get onto the real root. `RecordOnlyGrows`: a record that is whole lists all that any whole one since the start has listed, however many were emptied in between. `KeepsBindRoot`: under an overlay it implements `BindRoot`. |
| `child_process` | One call against every child. `OutputIsComplete`: a call that tells how the child ended has read all it wrote. `VerdictIsTheChilds`: "normal", "crash" and "not started" say what happened. `NoChildIsLeft`: the child is reaped on every way out but a failed poll. `CallComesBack`: parent and child never wait for each other's pipe for ever; excepted are a sleeper without limit and stop, and a child that signals do not reach while the parent only waits for it. |
| `elevation` | Two calls of each thread. `ReportedAsItWent`: a command is executed at most once and reported as executed exactly if it was, unless its own output quotes sudo. `OneTypoIsForgiven`: no call gives up before two wrong passwords were typed, although callers fill and clear one cache between each other's attempts. `CallReturns`: nested boxes are closed one after another and no caller waits for ever. |
| `excludes_list` | Prompts nested three deep. `UserListSurvives`: what the user wrote is removed only behind a copy of it, unless that copy failed or the user saved in between. `PromptHasCause`: the watcher does not ask again because of what an answer itself did to the file, unless the default's time lies in the future. |
| `session_choices` | Four passes over the page. `ExcludesMatchBoxes`: the entries of a run are those of its boxes, whatever was added and removed before, provided a folder's local name was found out every time or never. |
| `work_space` | Every small disk. `AcceptedRunsFit`: a run that is let begin fits, unless a measurement failed or the work directory was put elsewhere than the check had found room. |

Violations, each of one statement of a document: `live_system_reached`, `reset_aborts`,
`respin_lost`; see [divergences](#divergences).

The type invariants of `ExcludesList` and `SessionChoices` are in no run; they are proved
(`ExcludesTypes`, `ChoicesTypes`).

Every property of a passing run has a mutant: a definition next to the one it replaces, marked
"Mutant", that changes it the way a slip in that code would, and that violates the property.

Deadlock is checked where the system is never meant to stop by itself (`executor`, `snapshot`,
`installed_to_live`). It is not where an end is legitimate: a closed window (`gui_session`,
`excludes_list`, `session_choices`, `respin_lost`), a call or check that has returned
(`child_process`, `work_space`), a program that is over (`elevation`).

## Bounds

| bound | value | why it is enough |
|---|---|---|
| plans of `executor` | up to 2 steps, chosen ones of 3 | the executor's memory is one verdict of each family and one index; a verdict can be overwritten once before its check. The theorems have no bound. |
| `runs` of a world | 1 to 3 | a run meets only what one earlier run has left; a third, in the undisturbed world, meets what a *successful* one on leftovers has left |
| `MaxStack` | 2 | one mount of this run on one of the last; a third level behaves like the second |
| `Dirs` | W1, W2 | the work directory is moved at most once in a run |
| `faults`, `refusals` of a world | all failing or none; nothing refused, `record`, or `umount` | a umount that fails on a mounted directory is kept apart, because it alone reaches the live system; so is a record that cannot be written, because a success then says less |
| a write of `cleanup.conf` | all, nothing, or an empty file | the record is shorter than a page and handed over in one write; the one of `start`, shorter than the stream's buffer, goes out when the stream closes, behind the look at its state, so `start` notices only a file that cannot be opened |
| `Crash` | the death of a process | a power cut, with what the page cache loses, also takes every mount, and is left out |
| `Steps`, `SquashStep`, `MaxRuns` of `GuiSession` | 3, 2, 2 | a step before, at and after the one the kill job hits; the theorems have no bound |
| `MaxLaunches` | 3 | start, crash or cleanup, start again |
| template | 2 files, 1 link, 2 folders | a link and a file in the same folder, a folder that is recorded and one that is used |
| `Capacity`, `MaxInput`, `MaxOutput` | 1, 2, 2 | a pipe is empty or full, and on each there is more to move than it holds; the theorems have no bound |
| `MaxCalls` of `Elevation` | 2 | a second call meets the cache the first has left; wrong passwords are counted up to two, the number the property asks about |
| `MaxUpdates`, `MaxSaves`, `MaxDepth` | 1, 2, 3 | an update before and one during a prompt, a save before and one behind the copy, a prompt over a prompt over the confirmation of Revert; the theorems have no bound |
| `Folders`, `MaxPasses` | one localized folder and one that is not, 4 | entries of one folder do not touch another's; add, remove, add again and a run in between |
| `Sizes`, `Frees`, `Factors` | {0, 2}, {1, 3, 8}, {50} | room for none, one or both images of any subset of the paths, and a rounding that is visible |

## Fairness

Every fairness is weak and about threads that are scheduled. Stops, cancels, crashes, denials, new
calls and new runs are never fair.

* `WorkExecutor`: the loop.
* `SnapshotRun`: `Progress`, the run's own thread. Commands end because every process runner call
  without a deadline waits for a child that ends by itself (mksquashfs, xorriso, mount, the user's
  password prompt); a command that hangs is outside of the model.
* `GuiSession`: each worker, the delivery of the posted result, and leaving the boot menu question or
  the editor, which block the start; the user is not expected to answer any other box.
* `Elevation`: each caller, and the GUI thread for each of them: an executed command ends
  (`child_process` is about when), posted questions are delivered and the uppermost box is answered
  in the end, by a password or by Cancel. Without the latter the program waits, as it should.
* `ChildProcess`: the parent's thread, the child, time, and the end of another thread's child that
  holds pipe ends. A child may choose to sleep for ever, which `CallComesBack` excepts only where
  nothing was to end it.

`InstalledToLive`, `ExcludesList`, `SessionChoices` and `WorkSpace` have no liveness property: a
sequential command, a user who may walk away, a page, a straight line.

## Proofs

Eight proof modules, each of its component for *every* value of the constants, under the module's
named assumptions. Each property needs more than itself; what was added is the argument.

**WorkExecutorProofs.** `ExecutorTypes`, `ExecutorSuccess`, `ExecutorStop`, `ExecutorAborts`, for
every set of plans over the kinds of `PlanSteps` and both values of `ExitsOnDenied`.
`SuccessMeansRequiredDone` speaks of returned calls, while the danger is in between, when a required
command has failed and its check has not been reached. The inductive invariant adds: a failure is
pending only directly before its check, with the verdict of that family still false; `late` counts
at most the step under way when the flag went up; `aborted` is set once an Abort step lies behind
the index.

**SnapshotRunProofs.** `RunTypes`: the type invariant of a whole run, of machine, plans and runner.
`RunImplementsExecutor`: every run, in every world and for every choice of settings, is a behaviour
of `ExecutorSpec`; every step of the runner is a call, a step of the executor, a raised or lowered
flag or a stutter, and the plans it hands over are among those of the constant `Plans`.
`RunKeepsExecutor` draws from it that the executor's theorems hold inside of runs.
`RunRemovesWorkDir`: `ReturnRemovesWorkDir`, by `DirOK`: while a run has no work directory no
command is under way that could make one, and with one it is the only one there is, apart from a run
that was moved. The interrupt plan is the delicate case: it is handed over after the directory may
have gone, and does nothing only because the flag that called for it is still up.
`RunSquashesPreparedRoot` and `RunSuccessLeavesNoBindRoot`: `SquashesPreparedRoot` and
`SuccessLeavesNoBindRoot`, for every choice of settings and whatever the runs before have left. The
invariant, `BindRootOK`, follows the bind root through the stages: `setupEnv` is only ever the stage
to come first and `createIso` the last (`Staged`), the plan under way has one of three shapes, and
in each the place in it says what holds of the bind root: mounted behind the test of its passwd,
prepared behind `installed-to-live` (`SetupGoes`), kept by the plans in between (`KeepGoes`), clean
behind the strict `cleanup`, the seventh step of the last plan (`BurnGoes`). Where records can be
written, that one finds a whole record of a prepared root and unmounts it (`RecordsHold`). That a
plan has its shape is proved by joining its optional pieces one at a time, since there is one plan
for every choice of settings. `RunSparesLiveSystem`: `LiveSystemIntact` in every world whose umount
and mountpoint do their work (`refusals` at most "record"). `MountsOK`: no mount is ever stacked on
another, because what is probed stays true until the plan made from it starts, and a plan that finds
a point taken unmounts it before it mounts (`Freed`); so the one umount that `cleanup_overlay` tries
always frees the point. Without the assumption the finding `live_system_reached` applies.

`RunKeepsBindRoot`: `KeepsBindRoot` in the same worlds. `installed-to-live start -F` throws the record
away that it finds, so it must never meet a root that is prepared already. `PreparedOK` says why it
does not: the plan of `setupEnv` holds one start only, and behind a `mount-overlay`
(`SetupPreparesOnce`); where that mounts, the umount before it has freed the point (`MountsOK`), and
a root that is not mounted is not prepared. The argument is the one of `Freed` once more, with the
mount as what clears and the start as what has to find it cleared. The hypothesis is there because
`Machine` knows of the topmost mount only whether it is prepared: where umounts are denied, mounts
pile up, and a prepared one can come to light again that the model takes for an unprepared one.

`RunKeepsContract`: `KeepsContract`, the refinement of `RunContract`, for every world. The mapping
names the image under its final name (`Image`) and what is known of the run (`Report`), and each
step of a run is a step of the contract or a stutter. What has to be known for that is that no file
gets the final name unless it is whole, and no success is reported without it (`ImageIsKept`,
`ImageOK`). It is an argument over the commands: the plan fetched in `copyNewIso` leaves a kernel and
an initrd where a later test or a strict step saw them (`FetchGoes`), the squash file, the ISO and its
published name are each whole behind the check that follows them (`IsoGoes`), a verdict kept for a
later check says what the last command of its family did (`VerdictOK`), and each command changes only
the part it makes (`CommandShows`). A partial file always belongs to a command whose failure has not
been looked at yet. The hybrid rewrite of a published image is the one step that maps to
`DamageImage`, and only where the settings ask for it.

`RunSucceedsUntroubled`: `FaultFreeRunsSucceed` for every set of settings that are `Sound`: a kernel
was found, accounts are not reset and no installer is embedded. The hypothesis is needed, each of the
three names a command or test that always fails, and `reset_aborts` is the run that shows it for
the second. A plan is `Grounded` when each of its commands asks only for what commands before it
provide (`Served`: a mounted root for the tests of it, an initrd, a squash file) and is not looked at
by a check where it may well fail: the two `mountpoint` and three unmounting commands (`Asking`). That
the plans of every sound choice are grounded is proved piece by piece, as a grounded piece stays
grounded behind any other (`GroundedShifts`, `GroundedJoined`). `UntroubledOK` carries this through
the steps of the loop: behind the index lies what is needed ahead (`GroundedGoes`), so that no command
fails where it matters, whatever mounts the runs before have left.

**GuiSessionProofs.** `GuiTypes`, `GuiOneWorker`, `GuiStops`, `GuiObeys`, for every number of runs and
steps. Inductive with: only the last run has a worker, and while it has one the controls are off
(`WorkerIsLast`); a raised flag a listening worker can see is its own user's, and a heard cancel
keeps the flag up until its worker has left (`FlagIsOwn`); a box about a run is open only after one.

**InstalledToLiveProofs.** `LiveTypes`, `LiveAdditions`, `LiveOldPaths`, `LiveOverlay`,
`LiveRecord`, `LiveKeepsBindRoot`, for every tree of templates, every set of scripts, any number of
processes and every outcome of every write. `OldPathsSurvive` needs that no record on disk or in
memory names an old path (`RecordsSpareOld`), which in turn needs that a `start` throws the earlier
record away *before* it counts what is old: the order of `remove_all` and `writeConfFile` in
`doStart`. `AdditionsAreRecorded` is extended to the time inside a command, where the record in
memory has to know what the one on disk does not, and to the steps of cleanup (`AdditionsAreKnown`);
that each of the three outcomes of a write keeps it is a lemma (`WriteKeepsKnown`). For `LiveRecord`
the invariant is `NamedIsKept`: what any whole record since the start has listed is in a whole one
now and in the memory of every command under way, and while the file is empty also in that of the
process between two commands. `LiveKeepsBindRoot` is the refinement of `BindRoot`: from a start to
the end of the last command the root is not prepared but mounted (`RootOK`), and behind cleanup's
umount a root with a whole record is neither, so that the record can go.

**ChildProcessProofs.** `ChildTypes`, `ChildOutput`, `ChildVerdict`, `ChildReaped`, for pipes of any
capacity and any amount of input and output. `StageOK` says at each place of the parent what the
child may be; `RoundOK`, that what `poll` told of a pipe stays true until the round serves it,
although the child goes on meanwhile; `BytesOK`, that what was read and what is in the pipe is what
was written, and that a pipe whose end of file was seen is empty and has no writer left.

**ElevationProofs.** `ElevationTypes`, `ElevationReports`, `ElevationForgives`, for any number of
calls and any set of ways. `CallsOK`: a call has executed its command at most as often as it has
begun attempts, and without a quotation not before its last; `TyposOK`: every wrong password that is
cached or on its way was typed, and the one a caller holds after a refusal is another one.

**ExcludesListProofs.** `ExcludesTypes`, `ExcludesSurvive`, `ExcludesPrompt`, for any number of
updates and saves and any depth of boxes. `FramesOK`: what each frame of the stack waits for;
`DoomedIsSafe`: while a reset has made its copy and not yet removed, what it is going to remove is
among the copies or was saved behind them; `SettledIsQuiet` and `RestOK` close the cases of a list
that is gone; from the former also follows `PromptHasCause`, that the watcher asks only over an
outdated list.

**ChoicesAndSpaceProofs.** `ChoicesTypes`, `ChoicesMatch`, for any set of folders and number of
passes. `OneForm`: a folder whose local name was found out every time or never has entries of one
form only, so that the removal takes all of them; `ConfirmedAsChecked`: while the question "OK to
start?" is open, entries and boxes agree.
`SpaceTypes`, `SpaceFits`: the space check for any sizes, free space and compression factor.
`SpaceInv`: each measurement is what lies there, unless it failed (`Measured`); what is excluded and
what is squashed are together no more than what was measured, because of nested exclusions only the
outermost is counted and none on another file system (`NothingTwice`), so the unsigned subtraction
never wraps; and each verdict records the comparison it was drawn from (`Judged`).

Assumptions are the named ones of the modules: `PlansAssumption`, `ExitsOnDeniedAssumption`,
`DirsAssumption`, `MaxStackAssumption`, `WorldsAssumption`, `ChoiceAssumption`, `RunnerAssumption`,
`GuiAssumption`, `LiveAssumption`, `BoundsAssumption`, `ElevationAssumption`, `ExcludesAssumption`,
`ChoicesAssumption`, `SpaceAssumption`; TLC evaluates each in a passing run.

Only model-checked: liveness (`CallEnds`, `StopEndsRun`, `RunIsReported`, `CallComesBack`,
`CallReturns`), which is out of the prover's reach. Every invariant, action property and refinement
of the passing runs is proved.

## Divergences

With a run:

* `live_system_reached`: `cleanup_overlay` ignores both umounts and removes the directory
  recursively, through a bind mount of `/` when it is still there (`helper.cpp:221`). A umount that
  fails is enough: busy, or refused to the window's user twice.
* `reset_aborts`: `touch -p` always fails, so a run with reset accounts never succeeds
  (`work_cpp_planner.cpp:708`).
* `respin_lost`: the window's radio button "Personal" or "Respin" reaches its own settings and not
  the run's, which are built afresh (`settings_qt_adapter.cpp:53`, against
  `docs/s4-snapshot.html:31`).

Met while modelling, without a run of their own. In a run of the backend:

* The overlay of an interrupted run stays mounted: `run_interrupt_cleanup` runs its plan while the
  flag that called for it is raised, and the executor stops at its first step
  (`batchprocessing_cpp_runner.cpp:104`).
* A cpio that fails half way goes unnoticed, and the run succeeds with a truncated initrd
  (`work_cpp_planner.cpp:537`). "Whole" in `RunContract` does not include the initrd.
* The space check may move the work directory after all plans were made with the first path
  (`batchprocessing_cpp_runner.cpp:193`); the later stages then work in a removed one. Extracting the
  ISO template makes that directory again, and nobody removes it, which is why `ReturnRemovesWorkDir`
  leaves moved runs out. The place it moves to is not measured again.
* A cancel confirmed during the first checks of a run is wiped by `installSignalCleanup`
  (`embedded_assets_runtime.cpp:145`).
* README.md:455 says that `_embedded` is cleaned up on exit. It is not when a signal comes between
  `create_directories` (`embedded_assets_runtime.cpp:92`) and the installation of the handler, nor
  when a denied root command ends the process by `std::exit`.
* `embed_installer` is not in the helper's allowlist; in a CLI that is not root its exit 127 ends
  the process, and the check behind it is not reached.
* BACKEND_API_REFERENCE.md:23 promises the same result for the same plan; the overlay's upper
  directory survives a successful run, and the next one squashes what the last one wrote there.
* A `du` of the root that fails is forgotten when the `du` of a separate home succeeds
  (`work_space_cpp.cpp:694`), and a compression without a factor needs no space at all (719).

In installed-to-live:

* `cleanup` removes recorded paths as it finds them: a file the *user* created there during the
  session is removed, under an overlay even where nothing had been added to the real root. A
  dangling link at the path of a template link is removed as well (`installed_to_live_cpp.cpp:452`).
* A template link is copied to the real root also under an overlay, and a folder made for it is not
  recorded; with nested folders only the deepest is recorded.
* `writeText` truncates `cleanup.conf` before it fills it (`installed_to_live_cpp.cpp:140`), and the
  result is ignored at 489, 515, 548, 609, 645 and 944. On a full disk, or when the process dies in
  between, the entries of *earlier* commands go with those of the last one, and cleanup leaves the
  files on the real root. A later command of the same process brings an emptied record back, as
  `readConfFile` keeps what the process knows; a later process does not. A record that was not opened
  at all keeps the earlier entries, and the next command reads those back, without the last ones.
* With a missing or emptied record `cleanup` unmounts the default bind root, not the overlay's
  (`installed_to_live_cpp.cpp:1010`; the plans call it without `-b`). The run goes on as if it had:
  it succeeds with the overlay's bind root still mounted and the record gone, and the next run has
  to unmount it.

In the processes:

* The kill job of a cancel (`mainwindow.cpp:1403`) is started behind the raised flag, which may end
  it before it has killed anything (`process_runner.cpp:230`); delayed by a password box it kills
  the next run's mksquashfs, by name.
* A child under sudo cannot be signalled by its parent, who then waits for it without reading its
  pipes any more.
* Only the exec pipe is close-on-exec (`process_runner.cpp:137`): a child that another thread forks
  meanwhile inherits the other ends and may keep them open. SIGPIPE is not ignored: a child that
  goes away before its input is written may take the program with it.
* A `poll` that fails leaves the child running and unreaped (`process_runner.cpp:293`).

In the window and the excludes prompt:

* A box opened during a run and answered with Yes after its end disables the window's button, and
  nothing enables it again (`mainwindow.cpp:1275`).
* The copy that is to save the user's list may fail without a word before the list is removed
  in the CLI (`batchprocessing_cpp.cpp:160`).
* "Keep Custom" takes the default's time for the list; while that time lies in the future it does
  not settle the question.
* The list is read at several moments of a run (space check, plan, mksquashfs), and the editor may
  save in between.
* The entries for `minstall.conf` and `localtime` stay excluded after a change back to "Personal". A
  folder whose localized name was not found is excluded by its English name only, and boxes of which
  two name one XDG folder take each other's entry away.

## Not modelled

Most of the tree is not the program: `_ref_src_qt6` holds Qt's own sources, `legacy_qt_reference`
and `_backup_gui_original` the program the backend was ported from, with the oracles of differential
tests; LZ4 is vendored, and the ISO, initrd and live templates are data. What is left of C++ is some
25 thousand lines, of which the modules take the parts that keep state between steps.

Excepted in a property: `UserListSurvives` excuses a copy that failed and a save between the copy and
the removal, which the divergences name; `SuccessLeavesNoBindRoot` a record that could not be written.
`WorkSpace` subtracts what is excluded below a separate `/home`, which the code, as it measures the
overlay's `lower`, does not find there: its estimate is then larger, on the safe side. A bind
mounted `/home` counts as excluded, as where `is_bind_mount` recognises it, which on Linux it hardly
ever does. A separate `/boot` is not among its paths.

Left out of the modelled parts: the expansion of the exclusion list's patterns and the measure of a
live system by apparent sizes (`WorkSpace` takes paths and sizes); `TempDir`'s `release` and
`setAutoRemove`, which a run does not call; `read-only`, `read-write` and `exclude` of
installed-to-live, which no plan calls; texts and file names: which mask goes to xorriso, what a
message says, what is written into passwd or grub's files. In `InstalledToLive`, folders are one
level deep and a regular template file meets no link at its path (the code skips it with a message);
a command that fails may have recorded its folder and file, or neither, but not the folder alone.

Left out altogether: the readers of settings and the CLI parsers (pure functions at start-up),
logging and translation (wording), the small Qt-like classes for paths, dates and strings
(sequential, their effect is the outcome of the step that calls them), the archive codec and the
window's widgets without concurrency.
