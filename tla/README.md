# A verification of missing-utils

`missing-utils` is a suite of some fifty small Go commands for operations work
(`cmd/`), with their logic in `internal/`. This directory holds TLA+ models of
the parts that keep state, run concurrently, or decide something a user relies
on; TLC configurations that check them on small instances; and proofs, checked
by TLAPS, that the eight models that run step by step, and eighteen commands that
read, compute and write once, keep their promises for every value of their
constants. Paths below are relative to the repository's root (`src/` in
`PROJECT.json`). `PROJECT.json` maps every definition to the lines it models and
lists runs, mutants, hazards, findings and theorems.

## 1. Inventory

No command talks to another one except through a file or a pipe. Within a
command the interactions are goroutines and channels (`hashsum`), a process and
its children (`runreceipt`), and a program and a file system that others change
(`homestate`, `jwalk`, `clt`, `hashsum`).

| Part | State | Operations | Hard behaviour | What makes it correct |
|---|---|---|---|---|
| `runreceipt` (`internal/runreceipt`, `cmd/runreceipt`) | the receipt in memory and on disk, the stages' processes | preview, intent record, pipes, launch consumers first, wait, verdict, final record, exit status | the deadline, SIGINT or a child's death at any moment; the goroutines of `os/exec`; a reader of its output that stops; a failing save; a crash between the two records | no launch without an intent; a recorded code is the child's; a final record is final; status and record agree; it ends unless that reader stops for ever |
| six atomic savers (`homestate`, `metascore`, `macossec`, `runreceipt`, `hashsum`, `envsub`) | a temporary file and the destination | create, chmod, write, sync, close, rename, remove | short writes, kills and power loss in between, several savers | the destination is whole; the result is true |
| `hashsum create` | queue of paths, workers, two result channels | feed, hash, collect, close | files that change while they are read; closing of channels | every path accounted for once; "stable" means one version; it returns |
| `hashsum verify` | none beyond its input | refuse a manifest, compare each file | manifests by another hand, files that moved, links out of the root | exit 0 only if every file is as it was hashed |
| `homestate` | the state file (index and rename records), the tree | index, check, fix names, restore names | failing loads, renames and saves, kills, successive and overlapping runs, other users of the tree | nothing overwritten, every rename recorded and reversible until an index cannot read the records, changes explained once |
| `jwalk` | a queue of roots, visited directories, records | walk, filter, follow links | entries that vanish, cycles of links, unreadable directories | complete, nothing twice, errors recorded |
| `jsonprobe` | attempts, successes in a row, records | attempt, retry, conclude | deadlines, retries, interleaved successes and failures | a verdict is earned by a row of answers |
| `envsub`, `varmerge` | none beyond their input | layer sources, validate, render or merge | precedence, defaults, empty and secret values | the highest source wins, in both the same; no secret shown |
| `jsongate` | none beyond its input | decode, weigh findings, decide | order of findings, lines that are none | the worst finding decides |
| `clt` (`internal/macossec`) | the tree and a quarantine directory | scan, pair copies, quarantine | overlapping runs, collisions, partial failure | nothing overwritten; success means all were moved |
| `tjt` (`internal/macossec`) | the tracked processes | sample, report ended ones | PIDs used again, a failing sample | a job is an unbroken stretch of samples |
| `dtp` (`internal/macossec`) | a signed baseline | index, check | scans that miss files, a baseline by another hand, a root that moves | a check that passes read everything, and tells every difference |
| `metascore` | a baseline file | index, check, score | its own save changes the tree; changes that leave no trace in the metadata, a program that fails for some paths | one anomaly per changed path, none of an untouched one |
| `tfchanges`, and its pipeline into `jsongate` | none beyond their input | decode, filter, classify, derive facts, decide | replacements in two orders, unknown values, a refused plan and an empty pipe | no change passes unseen |
| `jsondiff`, `sandboxdiff` | none beyond their input | compare with ignored paths, sets and a tolerance | missing keys, types, indices of one side, numbers out of range | every difference told once, at its place, and no other |
| `pcapwhy`, `eventwhy`, `selinuxwhy`, `collectout` | counters with limits | read until the limit, group, compare | what is dropped at the limit, a line that it cuts | a pass means everything was read |
| `meow` (with `internal/cli`) | none beyond its input | reorder and parse arguments, choose the source, transform, print | flags that look like text, random passes over the same text | every line is answered, and keeps what its modes leave alone |
| `ports`, `portwhy`, `expose`, `restartwhy`, `pwatch`, `servicewhy` | none | read `/proc` entry by entry | processes that end meanwhile, hidden ones, shared sockets, signed octets in addresses | evidence belongs to a process that was there; what was not read is told |
| `unitwhy`, `contextsnap`, `cded`, `osx`, `aaas` | none (the host's) | run programs of the system and weigh their answers, clear the clipboard, revoke, change settings | a program that fails after another succeeded, a clipboard that changes meanwhile | nothing changes unasked; a pass is earned |
| `pll` | none beyond its input | parse property lists, lint | duplicate keys at any depth, files that are cut | a list with an error does not pass |
| the other commands | none | one observation or conversion, printed once | none beyond parsing | the wording of their output |

`PROJECT.json` lists them all under `components`, with the reason where one is
not modelled, and the places where the code is exposed under `hazards`.

## 2. Modules

| Module | Models | Notes |
|---|---|---|
| `RunReceipt` | `Execute`, `ExitCode`, `Preview`, and `run` and its `save` | one action per call of the main goroutine; children and `os/exec` goroutines are actions of their own |
| `ReceiptEvidence` | - | the abstract ledger a reader relies on: intent, launches, endings, one conclusion |
| `RunReceiptProofs` | - | theorems on `RunReceipt` |
| `AtomicFile` | the six save functions | one protocol, a profile per writer saying which errors it sees and whether it syncs |
| `AtomicReplace` | - | the register promised by `specs/V1.md` NFR-R1 |
| `AtomicFileProofs` | - | theorems on `AtomicFile` |
| `HashCreate`, `MCHashCreate` | `Create` and `hashFile` | feeder, workers, collector, files that change |
| `HashCreateProofs` | - | theorems on `HashCreate` |
| `HomeState`, `MCHomeState` | `FixNames`, `RestoreNames`, `Index` | a tree of objects looked up by path, as system calls do |
| `HomeStateProofs` | - | theorems on `HomeState` |
| `JsonProbe` | `Run`, `runCheck`, `probe` | the attempts of a list of checks |
| `JsonProbeProofs` | - | theorems on `JsonProbe` |
| `Jwalk` | `Walk` | a queue of roots, `WalkDir` as the set of entries still to visit in walk order, entries that vanish |
| `JwalkProofs` | - | theorems on `Jwalk` |
| `JobTracker` | `Tracker.Observe`, `cmd/tjt` | samples of processes that start and end |
| `Quarantine` | `ScanCloneExecutables`, `QuarantineCandidates` | overlapping runs over one tree |
| `MacossecProofs` | - | the theorems on `JobTracker` and `Quarantine` |
| `EnvSub`, `VarMerge` | `Run` of envsub, `Merge` of varmerge | functions of an input; `VarMerge` extends `EnvSub` with what the two share |
| `HomeCompare` | `scan`, `compare`, `Check` | function of two trees |
| `HashVerify` | `Verify`, after `Create` for a list of paths | function of two trees and a manifest |
| `JsonGate` | `LoadPolicy`, `Decode`, `Evaluate`, `cmd/jsongate` | function of lines and a policy |
| `JsonValue` | documents as `encoding/json` hands them over | shared by the next two |
| `TfChanges` | `internal/tfchanges`, its command, the pipeline of the repository's README | composes with `JsonGate` |
| `JsonDiff` | `internal/jsondiff`, `cmd/jsondiff`, `cmd/sandboxdiff` | function of two documents and options |
| `DaemonBaseline` | `CreateDaemonBaseline`, `LoadBaseline`, `CheckDaemonBaseline`, `cmd/dtp` | function of two worlds, two keys and an edit |
| `Metascore` | `internal/metascore`, `cmd/metascore` | function of two worlds; its own save is in the second |
| `PcapWhy` | `internal/pcapwhy` | function of captures and bounds; part of `Reports` |
| `BoundedReaders` | `internal/eventwhy`, `internal/selinuxwhy`, `internal/collectout` | functions of lines and bounds, in bytes (`Limit`, `RecordLimit`) and in number; part of `Reports` |
| `Arguments`, `Meow` | `ReorderInterspersed`; `internal/meow`, `cmd/meow` | a set of outcomes: a random draw is any of them |
| `HostEvidence` | `ports`, `portwhy`, `expose`, `restartwhy`, `pwatch`, `servicewhy`, `unitwhy`, `contextsnap`, `cded` | functions of a host at several moments |
| `MacCommands` | `osx`, `aaas` | functions of a request and of the programs that fail |
| `PropertyLists` | `internal/pll`, `cmd/pll` | function of the elements of files |
| `Reports` | the commands of one step that there are proofs about | the inputs each can be given, the one step, what the reports promise |
| `ReportProofs` | - | theorems on `Reports` |
| `MCReports` | - | bounded inputs for `Reports`, and for the other commands of one step; each input is an initial state |
| `MCTools` | - | composes the four tools that take steps with those of `MCReports`; the initial state chooses the tool |

How state and actions correspond to the code, for the larger ones:

**RunReceipt.** `pc` is the place of the main goroutine: `main` (flags read),
`create` and `write` (the exclusive creation and the write of the intent),
`pipes`, `start` (consumers first, so `k` counts down), `wait` and `reaped`
(`k` counts up), `verdict`, `persist`, `report`. `state`, `reason`,
`stage` and `code` are the receipt in memory; `onDisk` and `disk` the path it is
saved to. A child is `none`, `alive`, `zombie` or `reaped`; `exit` is its true
status. `KillChild` and `CopyOutput` are the goroutines of `os/exec`. A copy
comes to end of file (`Drain`), is cut 500 ms after the child ended, when
`WaitDelay` closes its pipe (`CutOutput`), or ends with a failing write to
runreceipt's own output (`ForwardFails`). That write, and the mutex of
`lockedWriter` that all copies share, may also hold it for as long as nobody
reads there (`BlockOutput`, `UnblockOutput`), and `WaitDelay` cannot interrupt
it. What `Wait` returns is a choice between the code and an error exactly where
those goroutines race (`WaitGivesCode`, `WaitGivesError`). `Crash` ends
runreceipt; children live on.

**AtomicFile.** `temp`, `data` and `synced` describe the temporary file of every
saver, `dest` whose file the destination leads to. The writers of `hashsum` and
`envsub` have the profile `lost` for both calls: the errors of `Chmod` (after
which the write is skipped) and of `Write` go to a shadowed variable. `PowerLoss` may take back unsynced data and, as no writer syncs the
directory, any rename.

**HashCreate.** The channel of jobs is unbuffered (`HandOver` is a rendezvous);
those of results and errors are sets of at most `Buffer` values, which loses
only an order the collector does not see in its sorted output. A send is
possible only while there is room; `SendsSucceed` says that there always is. A worker looks at the file four times:
Lstat, Open, two parts of the read, Lstat; `got` is the set of versions whose
bytes went into the digest.

**HomeState.** `place` gives each object its directory and name; the tool holds
paths and `Lstat` looks one up component by component (`Resolve` walks the
directories of a path, `Enter` finds one name in one of them), so that renaming
a directory moves what is below it under the tool's feet. `stack` holds the calls
of the recursive `visit`, `mem` the records in memory, `renames` those in the
state file, `report` what the run has done so far. `found` is what `Load` makes
of the state file (absent, usable, malformed, of another root), and `Earlier`
the records of runs before the first one, which a file of any of these kinds may
hold; a load may also fail to read it (`Loads`), and `loaded` keeps what each
run was told. `Concurrent` says whether runs may overlap, `Failing` which calls
may fail.

**HomeCompare, DaemonBaseline and Metascore.** Each compares a recorded scan
with a later one, and what goes wrong in a scan is part of its input: the
entries that cannot be read or listed (`blocked`) and, for `homestate`, those
whose Lstat fails after their directory was listed (`lost`) and the files that
change while they are hashed (`changing`); for `metascore`, the paths for which
the program that lists attributes answers (`answers`).

**MCTools and MCReports.** `jsonprobe`, `jwalk`, `tjt` and `clt` take steps and
keep their own variables; a tool that was not chosen stays as it is before its
start. `MCTools` extends the modules of three of them, whose definitions are
therefore named apart (`ProbeInit`, `TrackInit`, `QuarantineInit`). A
tool that reads, computes and writes once is one step from `input` to `output`:
an action of `Reports` where there is a proof about it, and of `MCReports` where
there is none, because its module has RECURSIVE operators or works with operators
the provers cannot expand (`tfchanges`, `jsondiff`, `meow`, `pll`). `InputsAssumption` of `MCReports` has TLC evaluate that
the bounded inputs of the run are among those that the theorems speak of
(`IsInput`).
What happens around such a tool while it reads is part of its input: a host at
several moments (`HostEvidence`: the k-th entry of `/proc` is read at the k-th
moment), the tree at the first scan and at the second, the clipboard when it is
read and when it is cleared, which of the programs it calls fail. The state
spaces of the tools are disjoint and add up, so that one run does for all.

**Jwalk.** Entries are numbered in the order in which a walk meets them, so a
directory comes before what is below it and `WalkDir` takes the smallest entry of
`todo`. `pending` is the queue of roots, `visited` the directories met, `listed`
counts the records of each entry by their status, and `phase` says whether a root
is looked at, an entry is visited or a directory is listed, which is where entries
vanish in between.

**Quarantine and JobTracker.** A run of `clt` holds what its scan came to
(`items`, up to the place `looked` in `WalkOrder`) and what it still has to
move (`left`, taken in the order of the walk); the tree and the quarantine are
`place`. The reports of `tjt` are kept per sample (`jobs[i]` is what sample `i`
made it print), so that the order of reports within a sample, which is that of
a Go map, is not in the model.

**TfChanges.** The pipeline is `terraform show | tfchanges | jsongate`: the
records `Normalize` makes are the lines `JsonGate` decodes. What Terraform may
write as a list of actions is a constant, and so is what `facts` looks for in
the name of a type.

**Meow.** A text is a sequence of items (letters, digits, marks, spaces, runes
of two bytes, line ends), and a sound is an item of its own. Each pass maps a
line to the set of lines that the draws of `rand` allow; `Transform` is their
composition, `Meow` the command from its arguments to its status.

**EnvSub and VarMerge.** A source is a layer, a function from keys to values that
know where they come from; `Stack` lays later ones over earlier ones, as the
assignments of `loadValues` and the loop of `Merge` do. `None`, the absence of a
default, is a marker that no value equals (`Text`).

**MacCommands and PropertyLists.** `NativeCommands` is the table of `osx`, one
entry for every kind of program and count of arguments. An element of a property
list is a tag, a text and its elements; `cut` stands for the place where the XML
goes wrong.

## 3. What the runs check

| Run | Instance | States | Shows |
|---|---|---|---|
| `receipt` | 3 stages, exit codes 0 and 7 | 320 278 | `IntentBeforeLaunch`, `RecordedCodesAreReal`, `FinalReceiptIsSettled`, `UnknownIsEarned`, `StatusMatchesRecord`, `NoChildOutlivesExit`, `EvidenceOnlyGrows`, `ImplementsEvidence` (the receipt on disk, with what became of the children, refines `ReceiptEvidence`), `Terminates` (unless a reader of its output stops for ever) |
| `receipt_output` | same | violation | a receipt with a non-zero exit code is completed although its output was cut or could not be written |
| `atomic_file` | 2 savers, the four writers that see every error | 2 283 | `NoPartialDestination`, `ResultIsTrue`, `ImplementsReplace` |
| `atomic_file_shadowed` | 2 savers, `hashsum` and `envsub` | violation | after a failing chmod an empty file is installed; a short write installs a partial one in the same way |
| `hash_create` | 2 workers, 3 paths, two of them one file, one change | 402 495 | `EachPathInOnePlace` (which says that the manifest is complete, too), `StableIsOneVersion`, `SendsSucceed` (no send meets a closed or a full channel), `Terminates` |
| `home_state` | 3 successive runs, nested and colliding names, a state file of any kind, failing loads, renames, saves, kills | 952 866 | `NothingOverwritten`, `SuccessIsRecorded`, `RestoreUndoesFix`, `FixLeavesNoInvalidName`, `RecordsOnlyGrow` |
| `home_state_live` | 2 runs, the user creates or removes one object, failing loads and ReadDir | 38 940 | `Terminates` |
| `home_state_spin` | 1 run, a directory without search permission | violation | `--fix-names` does not end |
| `home_state_unsaved` | 1 run, the save fails | violation | renames that are on no record |
| `home_state_forgets` | 2 runs, the load fails | violation | an index that cannot read the state file replaces it without its records |
| `tools` | see below | 278 854 | the properties of the twenty-five small tools, and that those that take steps end |
| `jwalk_vanish` | as `tools` | violation | a vanished link target refuses the whole walk |

The properties of `tools`, each a conjunction over the tools that it is about:

| Property | Says |
|---|---|
| `VerdictIsEarned` | `jsonprobe` passes exactly the checks that succeeded often enough in a row |
| `WalkIsComplete` | `jwalk` lists everything, nothing twice, when nothing vanishes |
| `JobsAreIntervals` | `tjt` reports exactly the unbroken stretches of samples of a PID |
| `QuarantineKeepsAll` | overlapping runs of `clt` overwrite nothing, and success leaves no copy behind |
| `SourcesDecide` | `envsub` renders the highest source of every key, defaults included, and shows no secret; `varmerge` gives it the same value |
| `ChangesExplainTrees` | a passed `homestate --check`, `metascore check` or `dtp --check` has told exactly the differences between the trees, of what was signed, could be read and held still; what it says is gone is gone, or it has a diagnostic there or above |
| `VerifyTellsChanges` | `hashsum verify` passes only a tree that is as `create` found it, and tells unexpected files |
| `DecisionIsTheWorst` | the order of the findings does not matter to `jsongate` |
| `NoChangePassesUnseen` | every change of a plan has its record, its class and its facts, or the pipeline fails |
| `ChangesExplainDocuments` | `jsondiff` tells every difference of two documents, at its place, and no other; `pll` passes no list with an error at any depth |
| `PassMeansEverything` | however they end, what `eventwhy`, `selinuxwhy` and `pcapwhy` count is right for the part they read; and when they pass, that part is everything (but for the bound of flows of `pcapwhy`) |
| `TextSurvives` | `meow` answers every line, and keeps its letters, marks and spaces in order where its modes leave them alone |
| `EvidenceIsRead` | what the nine tools of `HostEvidence` say was so when they read it, and what they could not read they tell; `cded`, `osx` and `aaas` change only what they were asked to |
| `Terminates` | the four tools that take steps end |

Every property of a passing run has a mutant: a plausible slip in one mapped
definition (a dropped guard, an off-by-one, a lost error, a missing reset, a
swapped order) under which TLC finds that property violated.

**Why these bounds are enough.** *receipt*: three stages have a first, a middle
and a last one, so the loops that run in opposite orders differ from each other
and a failed launch leaves stages both launched and not; two codes tell a
success from a failure; the theorems then hold for 1 to 16 stages. *atomic_file*:
savers share only the destination and each keeps its own temporary file, so two
show every overlap of a pair; the theorems cover any number. *hash_create*:
with three paths and two workers a worker is free while the other has a job and
one is still to be handed over; one change is enough to mix two versions in a
digest, and it may come between any two looks. *home_state*: two names with one clean form make
`availableTarget` count; an invalid name below an invalid directory makes the
recorded path of the child go through the new name of its parent; three runs
allow fix, index or fix again, and restore, each also cut short; a load can
fail in each of them. *tools*:
`jsonprobe` has two checks, chosen from one that passes at once, one that wants
two successes among three attempts and one that wants more than it has
attempts; `jwalk` a tree of nine entries with an unreadable directory, a
filter, two links that make a cycle, roots below and beside each other, and one
removal at any moment; `tjt` two PIDs, two commands, four samples and two new
processes, so that a PID ends, is used again and ends again; `clt` six files,
names that collide with the same and with other content, and two overlapping
runs; `envsub` and `varmerge` every combination of five templates, six
schemas, four sets of env files, three environments and three `--set` lists, in
every mode; `homestate` all pairs of small trees with a directory that may hide
a file and two files that may have the content of each other, either scan
meeting a blocked directory or file, lost entries or a changing file; `hashsum` two paths in every form, edited manifests and all kinds of
file; `jsongate` up to three findings in every order, under 54 policies;
`tfchanges` plans of up to two changes with every list of actions that Terraform
writes and others, exposed, unknown and sensitive values; `jsondiff` documents
two levels deep with every pair of kinds at a place, sets, ignored paths and
numbers on either side of the tolerance; `dtp` every pair of small trees, with
blocked files, a root that is a link or relative, another key and three edits;
`metascore` a file and a directory that change one thing or several, the state
file inside or outside, and a program that answers for all paths, some or none; `pcapwhy` up to three packets of six kinds under one to
three flows, and two captures; `eventwhy` up to four lines around a limit that
falls on, before and after their ends (`Limit` is 8 and `RecordLimit` 5); `meow` three arguments in every order,
and every mode on lines of one to seven items (a walk happens above five);
`HostEvidence` two processes at three moments, each absent, hidden, or holding
none, one or two sockets, so that they may share one; `MacCommands` every
command with and without what it needs, and property lists of up to two pairs
with a duplicate below the first level.

**Bounds in the guards.** `MaxChanges` (changes by others, `HashCreate` and
`HomeState`), `MaxVanish` (`Jwalk`), `MaxSamples` and `MaxTurnover`
(`JobTracker`). None stops the tool itself.

**Fairness.** Only where something outside the model guarantees it. Weak: the
Go scheduler runs a goroutine that can run (`Main` of `RunReceipt`, `Feeder`,
`Collector` and `Worker` of `HashCreate`, `Run` of `HomeState`, `Work` of
`MCTools`, which is the four tools that take steps); the kernel delivers SIGKILL
and `os/exec` acts on a done context (`KillChild`); the deadline comes
(`Deadline`); reads of regular files return. Strong, of `CutOutput` alone: when
`WaitDelay` is over the pipes are closed, and a copying goroutine ends at its
next read; that it may meanwhile be held by a write, be let go and be held
again does not keep it from that read for ever. Nothing is assumed of commands,
descendants, users or other programs: no child need exit, no pipe need be
closed, and the reader of runreceipt's own output may stop for ever. Nothing
can then end the write that `Wait` waits for, so `Terminates` of `RunReceipt`
says that runreceipt ends or that a copy stays blocked for ever (section 5).
Tools that work in one step have no liveness property and no fairness.

## 4. What is proved

TLAPS checks the following for all constants that meet the assumptions named in
the modules; TLC evaluates those assumptions on the instances of the runs.
Each invariant below was checked by TLC on such an instance before it was
proved. All but two of the theorems listed in `PROJECT.json` state a property
that a run checks; the two, `RenamesStayInTheirDirectory` and `WalkStaysBelow`,
are about facts that the inductive invariants carry and that say more of the code
than the property they serve. Of the properties that the passing runs check, the
theorems state all safety properties but three (below).

**RunReceiptProofs** assumes `N \in 1..16` (what `Preview` accepts) and a set
`Codes` of naturals with 0. `Inductive` proves `Spec => []IInv`, where `IInv`
is `TypeOK` and four parts: `MemoryInv` (the receipt in memory says "exited"
only of a child that did, with its code, and "not_started" exactly of those
that were not), `ProgressInv` (what the loop index says about the stages on
either side of it - without it neither "all were waited for" nor "nothing was
launched yet" survives a step), `StateInv` (the state in memory at each place,
and that it is still "running" at the verdict only if all were launched) and
`RecordInv` (what is on disk at each place). From it follow `TypeCorrect`,
`LaunchNeedsIntent`, `CodesAreReal`, `FinalIsSettled`, `ChildrenEndFirst`,
`EvidenceGrows` and `Refinement`: every step of the program is a step of
`ReceiptEvidence` or leaves it alone. `UnknownIsTrue` and `StatusIsTrue` need a
second invariant on top of it, `VerdictInv`: `ReasonInv` (the reason in memory
and the one on record each rest on something that happened: "unknown" on a
child that died of a signal or lost output to `WaitDelay` or a failing write, or,
until the verdict, on a done context whose reason will replace it), `OutputInv`
(a kill comes from a done context, and the output of a child with a zero on
record was copied to its end) and `ExitInv` (a status other
than "recording failed" is that of the receipt on record).

**AtomicFileProofs** assumes `Prior \notin Savers`; the set of savers is
arbitrary. `TypeCorrect` and `ResultsAreTrue` hold of all six writers: what a
save returned to its caller is true whatever was lost on the way to the disk.
`NoPartial` and `Refinement` (it implements `AtomicReplace`) are for
`Tools \subseteq CheckedTools`, the four writers that see every error: the run
`atomic_file_shadowed` shows that the other two do not have them. Their `IInv`
says that a saver past `sync` has all of its data on disk, that only such a
saver was renamed, and that the destination is the prior file or that of a
renamed saver; it is what makes power loss harmless.

**HashCreateProofs** assumes a finite set of workers that is not empty and a
path for every job; the number of jobs, who shares a path and the changes are
arbitrary. `IInv` adds to the types: `WorkerInv` (a worker has a job exactly
while it works on one, and ends only when none is left), `ClosingInv` (the
order in which feeder, workers and channels end), `PlaceInv` (no job is with
two workers, in two records or in a record and a failure, and those found
somewhere are those handed over) and `VersionInv` (what a worker has read lies
between the version of its first look and the present one). It gives
`TypeCorrect`, `StableMeansStable`, `NothingLostOrTwice` (at the return nothing
is in flight, so that every path is in the manifest once) and
`EverySendSucceeds`, which counts: the channels have a place for every job, and
a job that is still with a worker is in neither.

**HomeStateProofs** is about any tree of directories (`TreeAssumption`: it hangs
together and has no cycle), any names with any clean forms, and any runs.
`BaseInv` (types, where the cursor of each run may be, and that no two objects
share a place) needs no hypothesis: `TypeCorrect` holds however runs overlap and
whatever the user does. Everything else is for runs one after the other
(`Concurrent = FALSE`), the hypothesis under which the code promises it: two
overlapping runs do lose records (section 5). On top of `BaseInv`:

- `RecordInv`: the records in memory of the active run cover those of the file, and
  what it reports is in memory until the save and in the file after it, unless an
  index that could not use the file has replaced it (`Forgets`). This gives
  `SuccessRecorded` and `RecordsAreKept`, with a user who creates and removes files:
  an index that could not use the state file is the only way in which a record is
  dropped. That the exception is needed is what `home_state_forgets` shows.
- `KeptInv`: the name that was found free is free until the rename. This gives
  `NothingLost`, for a tree that others leave alone (`UserOps = {}`): a file created
  between the probe and the rename is overwritten.
- `TidyInv`: the two paths of a record differ in the last name only, and as long as
  the user has changed nothing every object is in the directory it was in. This
  gives `RenamesStayInTheirDirectory`, and is what lets a path that was stored
  before a rename be looked up after it.
- `SweepInv`: while `visit` recurses, its calls in progress are a chain from the
  root down (`Chain`), and there is a set of listed directories such that every
  object in one of them has a valid name and is listed itself if it is a directory,
  or is still in the list of a call in progress, or is what the cursor is at
  (`Swept`). When the recursion ends, the tree hangs together, so that the set is
  that of all directories: `FixedNames`. It assumes `Searchable`: a directory that
  can be listed and not searched is passed over without a diagnostic (section 5).
  What a path resolves to is a recursive function of the path; the lemmas on it
  (`Solvable`, `LstatIs`) are proved by the smallest prefix that fails.
- `UndoInv`: the records not yet restored lead from the first tree to the present
  one through trees that each differ from the next in one name (`History`), and a
  restore without diagnostics has restored all records behind its index. This gives
  `RestoredNames`, for any number of runs and of renames in each, as long as no index
  failed to read the state file: such an index succeeds without a diagnostic, and
  the restore after it has nothing to undo.

**JwalkProofs** is about any forest of directories, files and links
(`EntriesAssumption`: a directory is numbered before what is below it), any
roots and filters. `WalkInv` is `TypeInv` with four parts: `SoundInv` (any set that
has the roots and is closed under what an entry leads to has everything that waits
and everything listed - a second-order statement that stands in for the recursive
definition of what roots lead to), `RecordInv` (a record says what it says of the
right entry), `CompleteInv` (the entries done with, those still to visit and the
roots that wait are closed together, so that at the end the first are everything)
and `OnceInv` (what waits lies apart from what was listed). They give
`WalkCompletes` when nothing vanishes, and `WalkStaysBelow` whatever vanishes.

**JsonProbeProofs** assumes checks that `validate` accepts, any number of them.
`RowInv` says that the successes counted are the end of what the current check
has met, with a failure or the start before them, and `OutcomeInv` that the
outcome is the fold of the checks that are over. `ProbesAreEarned` follows: a
check passes at its first streak of the length it wants, no sooner and no later.

**MacossecProofs** holds the proofs on the two tools of `internal/macossec` that
take steps. For `tjt`, with any PIDs and commands: `ActiveInv` says that what is
active is the stretch of samples that each PID is in at the last one, and
`JobsAreIntervals` itself is the rest of the induction; the lemmas say what one
more sample does to a stretch (`EndedStretch`, `OpenStretch`, `LongerStretch`,
`OneStretch`). For `clt`, assuming that no two files share a place and that the walk
comes to each, any number of runs overlap. That the name is free when it is
looked up is not enough, as nobody holds it until the rename. What saves the
tool is `LeftInv` with `NameIsFree`: every run that moves knows all files of
the tree and takes them in the order of their paths, so a run that is about to
take a name has passed every earlier file of that name and content, and the
file that another run could have moved there is the one it is about to move.
`KeepsAll` follows.

**ReportProofs** is about the commands of `Reports`, for every input that
`IsInput` describes. `ReportInv` says that the report, when there is one, is what
the command computes from its input; the work is in lemmas on those functions. A
loop over a sequence is a recursive function of the number of its steps, and a
lemma on it is proved one step at a time: `Steps` (by well-foundedness of the
numbers) says that what holds at 0 and is kept by each step holds at the last, and
`Loop` that such a function exists.

- `VerifyTells`: for any two trees, any paths and any edits of the manifest by
  another hand.
- `GateDecides`: for any lines in any order and any policy. The loop keeps the
  worst action so far and the reason that goes with it.
- `TreesExplained`, under `TreeAssumption` (trees are finite, what is above a path is
  ordered, a state file is no directory). For `homestate` that the changes split into
  moves, additions, removals and edits, each path in one of them, and that a path
  missing from a scan in which it exists has a topmost blocked directory or was lost
  itself, which is told in either case; for `metascore` that each changed path has
  one anomaly with the evidence of its own scans (`AnomalyOf`), whichever paths the
  program answered for; for `dtp` that a baseline that passes was signed with this
  key (`Sealed`), and that a file missing from a scan has a topmost blocked
  directory, which makes the scan fail.
- `EvidenceRead`: for any processes at any moments, any tables of sockets and any
  answers of the programs called. It says that the owner of a socket is the process
  that held it when its entry was read, that an address has its four octets, signed
  ones as the code prints them, that the sample or the program that failed first
  is the one that is told, and that nothing runs that was not asked for.
- `HighestSourceWins`: for any env files, environment, `--set` arguments, schema and
  template. The last of the layers that has a key gives its value (`StackIs`); the
  layers of `envsub` and those of `varmerge`, which lays the arguments as one source
  over the others, have the same winner (`LoadIs`, `MergedIs`, `WinsOnce`). A key
  that no source gives takes the default of the schema, or the last one that the
  template has for it, or is empty if it is optional; the rest is what each of the
  two refuses.
- `PassesAreWhole`: for any lines, logs and captures, and any limits
  (`LimitsAssumption`: naturals). Of `eventwhy` the loop keeps that its counts and
  groups are those of the first n lines, and that n is the number of lines it has
  gone through unless it has stopped, which it then tells, or has no bytes left; that
  it cannot run out of bytes in silence is where the promise needs lines that end in
  "\n", because the bytes it counts leave a "\r" out (section 5). Of `selinuxwhy` that what it has
  kept is the smaller of the bound and the denials so far. Of `pcapwhy` that each
  flow kept counts all of its packets, and, as long as there is room for one more
  flow, that nothing of any packet is missing: a packet that finds no room leaves
  the map full, and a full map stays full.

**Only model-checked**, and why:

- liveness (`Terminates` of all): fairness and ENABLED are beyond the prover;
- `NoChangePassesUnseen` (`tfchanges`) and `ChangesExplainDocuments` (`jsondiff`,
  `pll`): their modules descend into documents of any depth with RECURSIVE
  operators, which the prover cannot have in a module it proves about, and what such
  an operator computes needs induction over the document;
- `TextSurvives` (`meow`): what is read and rewritten is said with folds and
  selections of sequences (`FoldLeft`, `SelectSeq`), whose definitions no installed
  prover can unfold.

## 5. Where the code and its documents disagree

Each with the run that shows it, details in `PROJECT.json` under `findings`:

1. `hashsum` and `envsub` assign the errors of `Chmod` and of `Write` to a
   shadowed `err`, against NFR-R1 (`atomic_file_shadowed`). After a failing chmod,
   as in TLC's trace, the write is skipped and an empty file is installed; after a
   short write a partial one.
2. `homestate --fix-names` loops for ever in a directory that can be listed and
   not searched (`home_state_spin`).
3. Renames made before a failing save are on no record (`home_state_unsaved`).
4. `homestate --index` takes every error of reading the state file for a file
   that is not there, and replaces the file, recorded renames included, with
   status 0 (`home_state_forgets`); an index of another root does the same.
5. A receipt is completed with a child's non-zero exit code although output of
   that child was cut by `WaitDelay` or could not be written (`receipt_output`).
   With exit code zero the receipt is incomplete.
6. `jwalk --follow-symlinks` drops the whole walk when a queued link target
   vanishes (`jwalk_vanish`).

Met while modelling, with no run of their own: what the model of the tool says
is what the code does, and the document says otherwise.

7. `runreceipt --timeout` does not end a run whose output nobody reads: the copies
   write under one mutex, and `WaitDelay` closes the pipes, not that write
   (`BlockOutput`, and why `Terminates` has an exception).
8. `envsub` does not distinguish an empty value from an unset one.
9. `envsub` takes the last default that the template has for a key, everywhere:
   `${A:-u} ${A:-7}` renders 7 twice (`defaultsInTemplate`).
10. `envsub` validates the values of the keys that the template refers to, where
    FR-15 asks for every supplied or defaulted value.
11. `hashsum verify` refuses the whole manifest for one path that escapes the root,
    with status 2, where AC-9 asks for a result for each class and status 1.
    `VerifyTellsChanges` states the refusal, as FR-23 does.
12. `jwalk`'s `ParseSize` depends on the order of a Go map.
13. `tfchanges | jsongate`, shown in the README, refuses every plan that has a
    record: the severity that `jsongate` asks for is not at the top level of one
    (`Pipeline` of `TfChanges`, tool "tfchanges").
14. `ReorderInterspersed` leaves short flags where they are, does not end at
    `--`, and lets a flag at the end of the line take the first text as its value.
15. `ports` reports octets above 127 as 127 and IPv6 words unturned, and nothing
    at all when one of the four tables is missing.
16. `restartwhy --pid` of no process passes.
17. `unitwhy` reports a journal it could not read and still passes.
18. `cded` leaves a secret alone when `osascript` fails.
19. `meow -f 0` is `meow -f 0.3`, and a NaN frequency ends `--format json` with 4.
20. `eventwhy` counts one byte for CRLF, so the limit on bytes is not exact.
21. `pcapwhy` at its bound of flows drops resets, ICMP events and names and says
    nothing of it; two pairs of addresses can share one ICMP count.
22. `selinuxwhy` keeps the oldest denials, where its manual promises recent ones.
23. `metascore` does not see a change of content that keeps size and time, takes a
    path whose attributes it could not list for one without attributes, and ends
    with 4 at an entry it cannot read.
24. `jsondiff` lists the elements of a set in the order of a Go map.
25. `hashsum verify --include-unexpected` says nothing of a directory it could
    not list.
26. `pll` does not read past the first value of a file, and takes a `KeepAlive`
    that is false for persistence.
27. `homestate --fix-names` passes over a directory that it can list and not search
    without a diagnostic (`homestate.go:244`), so that invalid names below it stay
    although the command succeeds. The proof of `FixLeavesNoInvalidName` did not go
    through without the hypothesis `Searchable`, and this is why.

Facts that contradict no document but that a reader of the models will meet:

- `homestate`: overlapping runs lose records, and a file created between the
  probe and the rename is overwritten (the reasons for `Concurrent = FALSE` and
  `UserOps = {}` in `home_state` and in the theorem). `--index` drops the diagnostics
  of its scan; `--check` tells a file that it could not list, or whose Lstat failed,
  as removed, beside the diagnostic; a change of nothing but "unstable" has no
  evidence; and a link whose target cannot be read leaves no diagnostic.
- `clt` that fails in the middle reports nothing of what it moved; a failing
  `ps` makes `tjt` drop everything, and a PID that is used again for the same
  command between two samples continues the job that ended.
- `jsonprobe`: a stale diagnostic stays beside a later success, the statuses
  "error" and "partial" are never produced, and a check that wants more successes
  than it has attempts can never pass.
- `hashsum create` accepts a path twice and writes a manifest that `verify`
  refuses.
- `jsongate` gives only the first of the findings that need approval as a reason,
  and exits with 0 for `approval_required`; `sandboxdiff` always exits with 0.
- `dtp`: paths that are not UTF-8 come back from JSON as others, and are reported
  as removed and added; a root that is a symbolic link has nothing below it, and
  passes; a relative root depends on where the command is started.
- `metascore index` saves into the directory it has read, and so changes the time
  of that directory, which the next `check` scores.
- `osx dns flush` may fail between its two programs, with the first done; extra
  arguments of commands that do not count them are ignored, and a wrong count
  ends with 4.
- `aaas` may have revoked a grant though it ends with 4, and `--db` other than
  the user's is listed and not changed.
- `pll` passes a binary property list with a warning.
- `jsondiff --numeric-tolerance NaN` is accepted (NaN is not negative), and no two
  numbers then differ; tolerances of the model are numbers.
- `unitwhy` splits the journal into lines and ignores the error of the scanner
  (`boundedLines`): a line over 64 KiB ends the excerpt in silence.

## 6. What is abstracted or left out

Data: file contents are versions or numbers, digests identify contents
(including the eight digits in a quarantined name), names are members of a
small set whose clean forms are given, values of variables are three strings
and the types that accept them. Formatting, JSON, flags, help and logging are
left out.

In modelled parts: the parsers of `jwalk`'s options, and that its patterns see a
path below the root of its own walk (`Wanted` is one set for all roots); the values `varmerge`
reads from JSON and YAML; `hashsum --from-jwalk`; errors of the walk of
`hashsum verify --include-unexpected`; `BrokenNames` of `homestate`; timestamps
too coarse to show a change (`HashCreate` gives every change a new one);
a FIFO put in place of a file between Lstat and Open of `hashsum create`, which
blocks the worker in the state "blocked" of `HashCreate` (with "special" in
`Left` TLC reports the deadlock) and which no document excludes: `hash_create`
has `Left = {"regular", "absent"}`.

Not modelled at all (see `components` for each): `netwhy`, `certwhy`,
`incidentsnap`, `accesswhy`, `authwhy`, `driftwhy`, `patchwhy`, `regocheck` and
`spacelift-helper` ask the host once and print the answers, `binparse`,
`binarywhy` and `bundleinfo` read one file through a library and print its
fields: a model would restate the answers. `logic`, `man2logic` and
`info2logic` convert text line by line, `amtm` and `webkit-tool` apply fixed
lists of regular expressions: what could go wrong is in the characters, which
the models do not have. `filemeta` formats, `planned` is unused.

## 7. Plan

What is left, in this order:

1. `tfchanges` and `jsondiff` with documents as finite functions from paths to
   scalars in place of nested values: no RECURSIVE operator, and so
   `NoChangePassesUnseen` and `ChangesExplainDocuments` in reach of a proof.
2. `meow` with its passes as recursive functions of the number of items, as the
   loops of `Reports` are, for `TextSurvives`.
3. `HomeState` with overlapping runs as a configuration of its own, and its
   abstract specification: a log of renames that only grows, and its undoing.
4. The option parsers of `jwalk` and the JSON and YAML readers of `varmerge`.
