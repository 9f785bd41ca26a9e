# A TLA+ development of mysql-rpm-builder

mysql-rpm-builder rebuilds MySQL RPMs in throw-away docker containers. One Go
binary is the launcher on the host and, mounted with the repository at `/data`,
the program that runs inside the container. This directory models its control
flow in TLA+, checks it with TLC on small instances and proves most of what it
checks with TLAPS, for every value of the constants.

Run a check with `tlc -config X.cfg M.tla`, a proof with `tlapm M.tla`;
`PROJECT.json` pairs them up and maps each definition to the code it models.

## The system

| Component | State it keeps | Operations | What makes it correct |
|---|---|---|---|
| Host launcher, `go/host` | one docker child, `earlyStopper` (`once`, `did`, `why`), `lineWatcher` (`buf`, `fired`), `log/build-one/build_status` | `BuildOne`, `stop`, `Write`, `appendBuildStatus`, `mergeConfig` | the reported status and exit code are those of the run; one `docker stop` at most; a build asked to stop ends; a merge follows only a clean build |
| Config merge, `go/config/merge.go` | `rpm-build-config.yaml`, `.merge-tmp`, timestamped backups | `MergeBuild` | the config always parses or can be recovered; entries are added, never changed; outcomes are true |
| Config, `go/config/config.go` | none (YAML read at each start) | `Load`, `Resolve`, `RPMDefine`, `BuildCount` | processes that read the files hours apart build one thing, and it is what the merge adds |
| In-container steps, `go/steps` | `~/rpmbuild`, `SRPMS/`, `built/build-one/` | `run`, `setup`, `build-rpm` and each stage alone | success means every RPM, with every patch, is in `built/`; nothing is lost; steps can be repeated |
| OS preparation, `go/osprep` | the container's OS, directories of `/data` | `Refresh`, `SetupRepos`, `InstallPackages`, `FixAnnobin`, `OSTweaks`, `CreateUser` | each command finds what the earlier ones bring; gcc finds its plugin; repeatable; the build user can write where it must |
| Git-based steps, `go/gitsteps` | `~/git`, `~/rpmbuild`, `boost-cache/`, `built/git-*/`, the sidecar | the two orchestrators, their stages, `GenerateBuildOneConfig` | spec and tarball come from one tree; the sidecar is that of its src.rpm |
| Dispatch, `go/cmd` | none | flags, privilege check, hand-off by `su` | the right stages, in order, as the right user |
| Logging, `go/logx` | the log destination | `SetTee`, `Log`, `Fatalf` | a fatal error ends the process |
| OS detection, `go/osrelease` | none | `Detect`, `OSLabel` | a build is resolved for the OS it runs on |
| `go/version`, wrapper scripts, Makefile, YAML files | none | | not modelled (below) |

How they interact: the launcher starts a container and reads its output through a
pipe; two goroutines may stop the container behind its back. The container's root
process re-executes the binary as the build user for some stages, so each stage
starts from what is on the disk. Containers of several runs share `/data`: the
download caches, the logs, the outputs and the config. Only the launcher changes
the config, after a build.

What is hard here: goroutines and a child that end in any order; a timer that
fires at a bad moment; a process that dies between two renames or half-way through
a download (being stopped is a normal way for a build to end); runs that share fixed
temporary names; stages repeated by hand after a failure; state that a re-executed
process does not have; directories made by root for a user; configuration that people edit while a build
that was resolved from it goes on; a text that programs and people change by turns.
`PROJECT.json` lists
each hazard with its line and the properties that would catch it.

## Modules

| Module | Models | Correspondence |
|---|---|---|
| `HostBuild` | one `BuildOne` | `pc` is the main goroutine; `container` and `result` the docker child, whose actions are external; `pipe` the output not yet copied; `stopper`, `once`, `did`, `why` the two goroutines in `earlyStopper.stop`. `Prepare` … `MergeConfig` are the function's phases in order |
| `HostBuildProofs` | | inductive invariants and theorems of `HostBuild` and of `LineWatcher` |
| `LineWatcher` | `lineWatcher.Write` | `text` is what the log has; one action per `Write`, with a short write as an error |
| `ConfigStore` | what a merge promises | a table to which a merge adds its own entry, as it was built, in one step; it loses none, and changes none if its `-c` file is `Exact` |
| `ConfigMerge` | `MergeBuild` | one action per file operation; names (`config`, `tmp`, `backup`) point to inodes, because a descriptor outlives a rename; `content` of a file is whether it parses and its table. `Cuts` is what may come from a `-c` file (just the entry for the merges in `Exact`), `Joined` and `TakenOver` what the splice may make of it |
| `ConfigMergeProofs` | | inductive invariant and theorems |
| `ConfigSplice` | `insertBuild`, `entryLinesFor`, `validateMerge`, the patterns | a line is its kind, name, column and whether a comment follows the key; `Loads` and `Entries` are what the decoder makes of a text; one action per merge |
| `ConfigSpliceProofs` | | lemmas on positions in a text, and theorems |
| `CandidateBuild` | `Load`, `Resolve`, `RPMDefine`, the preflight, `NewRunner`, `mergeConfig` | a file is its entries for one label; `pc` is the launcher; `used` what each process of the container resolved; `unseen` and `touched` remember edits |
| `CandidateBuildProofs` | | inductive invariant and theorems |
| `OSPrep` | `Refresh`, `SetupRepos`, `InstallPackages`, `InstallBuildDeps`, `FixAnnobin` | `todo` and `call` are the stage and the command of it; `defined`, `enabled` the repositories; `dir` each toolset's plugin directory, a map of names to files and links; `late` and `moved` remember what happened to a toolset after `fix-annobin` |
| `OSPrepProofs` | | inductive invariant and theorems |
| `DownloadCache` | both `downloadFile`s and their callers | as above: names, inodes, blocks, each writer's offset. `overlap` says which histories may overlap; `torn` remembers the files that a writer left half-way |
| `BuildPipeline` | the container side of build-one | `todo` is what the command has still to run; `prepared`, `spec`, `applied`, `deps` what the container has been through (`deps` holds the BuildRequires of the spec and of single patches); `built` and `dest` the RPMs on either side of `collect`; an rpmbuild that fails may leave some. `Ready(s)` is what a stage finds or fails |
| `BuildPipelineProofs` | | inductive invariants and theorems of `BuildPipeline` and of `DownloadCache` |
| `GitPipeline` | the git commands and `generate-build-one-config` | a tree is a commit and the patches on it; `osDef` is the field of the process that runs the stage; `out` and `sidecar` persist under `built/`; `cp` is two steps (`Collect`, `CopyDone`), and a run may fail or die in any stage. `lapsed` remembers one that did between the start of its `cp` and the end of its sidecar |
| `GitPipelineProofs` | | inductive invariant and theorems |
| `Workspace` | who owns the directories under `/data` | each run is a sequence of accesses, by root, by `CreateUser` (stat, MkdirAll, chown) or by the user; two may overlap, and die anywhere. `stray` has the directories that a death before chown, or the log of a `setup` by hand, left to root |
| `WorkspaceProofs` | | inductive invariant and theorems |
| `MC*` | | constants for TLC |

Where a `*Proofs` module extends two components, the smaller one's definitions carry its
name (`WatcherTypeOK`, `CacheTypeOK`).

`ConfigMerge` is shown to implement `ConfigStore`: the store is the table of the
config, or of the newest backup while the config is missing.

How they meet: `CandidateBuild` has what one build reads of the configuration from its
launch to its merge; its `MergeConfig` and `HostBuild`'s stand for a whole
`ConfigMerge`, whose `Insert` leaves open what text comes out (one that does not parse,
the entry alone, others with it, fields that changed hands), and `ConfigSplice` says which,
line by line. `HostBuild`'s `CopyLine` is what `LineWatcher` makes of a line, and
`BuildPipeline` is what happens in its container. `OSPrep` has the effects on the OS of
the stages that `BuildPipeline` and `GitPipeline` only order. `DownloadCache` is what
`InstallSRPM` of `BuildPipeline` and `Configure` and `Stage` of `GitPipeline` do to
fetch a file. They meet in small interfaces (an exit code, a line that matches, a file
that is whole, an entry that validates), so they are checked one by one.

## Runs

| Run | Question | Bounds |
|---|---|---|
| `host` | status, exit code, merge decision, one stop, a stop that ends the build | 2 lines (one may match, one follow), exit codes 0 and 1, every option combination |
| `watcher` | is the match seen exactly once, however chunks fall? | chunks of up to 3 bytes, 6 bytes: lines split in two and in three, several lines in a chunk |
| `merge` | is the config safe through failures and crashes, does a merge that takes its turn implement the store, and do merges that overlap spare the file a person wrote? | 3 merges, two of one entry with different builds, all in turn or two of them together; the third, of another entry, has a `-c` file that is not `Exact`, from which both entries may come; 2 seconds, so that two merges may have one; 1 edit |
| `splice` | does the text stay loadable, gain just its entry, and keep comments with their entries? | configs of up to 7 lines of 11 kinds (two OSes, two labels, two fields, comments at two columns), 5 `-c` files (one with a second entry), 2 merges |
| `candidate` | is what is merged what was built, and the preflight true? | 3 OSes (one not supported), 6 texts of the `-c` file, a few of each other file with broken ones among them, 3 edits, 3 processes |
| `osprep` | are repositories and tools there when needed, and does gcc find the plugin? | 2 toolsets (one listed and required, one only required), 4 plugin layouts, 1 EPEL package, 2 repositories to enable, 4 commands |
| `download` | is the cached file whole when runs take turns, and does it become whole when they overlap? | 2 processes, in turn or overlapping, 4 runs (a killed one, one that fails, one that succeeds, one that finds the file), 2 blocks (a part and the whole) |
| `build` | does success mean the RPMs are there; is nothing lost; can steps be repeated? | 2 patches of which one adds build requirements, 2 RPM files, 5 commands in any order, containers killed |
| `git` | one tree, true annotations, a run that means its output, though runs fail and die in any stage | 1 container at a time, 3 runs, 2 commits, 2 patches of which one changes the release, 1 edit of the patch list |
| `git_define` | is `--define` passed? **No** | 1 run |
| `workspace` | which directories can a run be refused, and build-one? | 4 runs of any of the 5 kinds, 2 at a time, killed anywhere |
| `workspace_owned` | does `CreateUser` leave its directories to the user? **No** | 2 runs |

The bounds are small because the hazards are: each needs at most two actors, or two
runs after one another, and one more to see the consequence. Deadlock is checked in
`HostBuild`, which must come to an end or go on; the others may stop, because people
stop starting runs (their counters are bounded), and say `CHECK_DEADLOCK FALSE`.

### What does not hold

Two runs show executions that contradict a comment or the documentation:

- `git_define`: `rpmDefine` reads `osDef`, which only the root process sets; the
  stages that call it run in re-executed processes, so `enable_rpmbuild_define_el`
  has no effect on git builds (`gitsteps.go:170`).
- `workspace_owned`: the first `build-one` of a checkout makes `built/` as root and
  chowns only `built/build-one`. A later git build finds `built/` there, skips it, and
  its `collect` is refused after the whole build (`osprep.go:229-238`,
  `gitsteps.go:248`, `1163`). A git build first avoids it.

Other limits of the properties, seen while modelling them:

- A build that fails by itself just before the timer or the watcher sets `did` is
  reported STOPPED with 0 (`host.go:184`). `NoSilentFailure` therefore excludes STOPPED.
- The timer starts with the docker client. If it fires while the image is being
  pulled, `docker stop` finds no container, `sync.Once` is used up, and the build then
  runs without a limit (`host.go:265-273`). `StopEndsBuild` asks for a container.
- Two builds that succeed together read one config; the second rename undoes the
  first merge, whose entry is only left in a backup (`merge.go:128-168`).
  `ImplementsStore` is about the histories without overlap, `OriginalKept` about all.
- `validateMerge` is there so that a wrong cut "can never corrupt config.yaml"
  (`merge.go:174-176`), and in one case it does not see one. Where a comment left of
  the labels stands inside the last entry, that entry ends there for the scan, and the
  new one is put into the middle of it. Where such a comment also cuts the source's
  entry short, the fields that follow in the config complete it: the text parses,
  the new entry is the wanted one, and the old one has lost those fields to it.
  `OnlyEntryAdded` and `SpansKept` leave out sources cut short (`Exact`), and `ConfigMerge`
  lets it happen (`TakenOver`).
- `entryLinesFor` is to cut out "exactly the entry" (`merge.go:351-354`), and ends it at a
  line left of the labels (`merge.go:343-349`), as its comment at 288-291 says. The next
  label of the section is not left of them, so that entries which follow the wanted one in
  the `-c` file are taken along; `validateMerge` looks for the wanted one only. If the
  config has one of these labels, the merge is refused as not parseable; if not, they are
  merged without a build. The launcher warns of a file with several entries and goes on
  (`host.go:114-117`). `OnlyEntryAdded`, `SpansKept` and `TidyNeverRefused` are about
  files whose section has the wanted entry alone (`Exact`); the last `-c` file of
  `MCConfigSplice` has two. Of merges from any other file, `ImplementsStore` says that their
  own entry is as it was built and that no entry is lost, and no more.
- The preflight says that the build would be merged although the config has no section
  for the OS, into which `insertBuild` then refuses to put anything
  (`merge.go:57-71`, `220-222`). `PreflightForetells` is about merges that do not fail, and
  preflights that could load their files.
- The launcher sees the `-c` file at its start and at its end. An entry that was
  changed and changed back in between, or entries of other OSes that were added when the
  container's OS is not the one asked for, leave a merged entry that no process, or not
  every process, was built with. `MergedIsBuilt` excludes these edits (`unseen`).
- `images.yaml` offers `fedora44`, and `REFERENCE.md:96-97` says what to set for Fedora;
  `osrelease.go:25-32` refuses the OS, so that every such build fails in the container.
- `fix-annobin` runs before `install-builddeps` (`steps.go:385`, `396`;
  `gitsteps.go:1059-1085`), so a toolset that only the spec's BuildRequires bring has no
  links when it compiles. The same befalls a toolset of the package list that the spec
  requires in another version, which `install-builddeps` brings. `ListedFixed` is about
  toolsets in the package list, and leaves out those that this run's `install-builddeps`
  changed (`late`).
- An alias that is there counts, whatever it links to (`osprep.go:189`). When an update
  of a toolset renames the plugin's file, a link from before leads nowhere and stays.
  `AliasesResolve` and `ListedFixed` leave out toolsets that this befell (`moved`).
- `install-builddeps` reads the spec before `apply-patches`. What a patch adds to its
  BuildRequires must be in the packages list; `RunStagesReady` says so (`ConfigInOrder`).
- In a debug container, patches and RPMs that one label left under `~/rpmbuild` are taken
  along by `apply-patches` and `collect` of the next label (`steps.go:263-284`, `336`). The
  container of a build has one label.
- Two merges in one second both find the backup name free, and the second replaces
  the first one's backup (`merge.go:162-165`): `SnapshotKept` is about
  merges in turn, and `OriginalKept` assumes distinct seconds.
- Two downloads of one file share `<name>.download`, and one truncates what the other
  is about to rename, or has renamed (`helpers.go:38-52`): the cached file is then partial
  while runs find it there. `CacheWhole` is about runs in turn; with overlap, `CacheHeals`
  says that a run is still writing the file to its end. Unless that one fails or is killed:
  then the partial file stays, and every later run takes it for a good one, which the
  comment of `downloadFile` says a "failed or interrupted download never" does to it
  (`helpers.go:28-31`).
- `apply-patches` that fails at its second patch cannot be repeated, since the first
  one is applied (`steps.go:273-283`): `StepsRerunnable` leaves it out. `install-srpm`
  restores the spec.
- A git run that fails or dies between the start of its `cp` and the end of its sidecar
  leaves its src.rpm, or a part of it, with the sidecar of an earlier build, none, or a part
  of one (`gitsteps.go:634-636`, `943`, `951-977`); the next run of the tag that ends well
  repairs it. `AnnotationsTrue` makes an exception of it (`lapsed`). Runs of one tag that
  overlap, or a patch list that is edited while one runs (the sidecar reads it again), can
  mix them too: the calm histories (`Calm`) have neither. `OutputsCoherent` holds for all;
  but that two `cp`s to one name at the same time may leave a mixture is not in the model.
- A container that dies between `CreateUser`'s MkdirAll and chown leaves a directory
  of root's for good, and later runs are refused it (`osprep.go:229-236`); so is one that
  comes just in between. `setup` run by hand in a fresh checkout leaves `log/build-one` to
  root, because its log makes it. `BuildOneRefusedOnlyStray` says that build-one is refused
  nothing else, and `RefusedOnlyNewOrStray` that another run is refused nothing else that is
  there.
- A killed container takes the RPMs under its `~/rpmbuild` with it, and one that was being
  copied may have truncated an RPM of that name in `built/`: `NothingLost` is about the
  life of a container.

## Fairness

Only `HostBuild` has liveness properties. `FairSpec` assumes weak fairness of
the main goroutine, the copier, the stop goroutines and the timer (the Go scheduler
runs what can run, a timer's time comes), of a pull's end, and of the end of a
container that docker stop has reached (docker kills it after 10 seconds). It
assumes nothing of a build that nobody stops: it may hang, and that is what the
timeout is for. The other modules have no fairness: any process may die at any step.

## Proofs

Proved for every value of the constants, from the assumptions that the modules name:
the constants' types; that 0 is an exit code, a source RPM has at least one RPM file, an
inode is not a process; that the OSes are finitely many, and that a file has no entry for
an OS it has no section for (the entry stands inside the section); that there is a `-c`
file, and that each one loads and has the entry that was built from it; that the links a
plugin package ships lead to a file of the package or to a name that `fix-annobin` makes.
`Calm` of the git builds, `Serial` of the merges and `overlap` of the downloads say which
histories a theorem is about, as they do for the runs. Nothing is assumed of a `-c` file; for those in
`Exact` the store promises more.

Each `*Proofs` module has the same shape: the parts of the invariant with their names,
lemmas about the operators, `Init` and each action keep the invariant, and the theorems.
No property below but the types is inductive; what is added to it is the argument.

- `HostBuildProofs`: `TypeOK`, `StoppedContainerReported`, `MergeOnlyAfterCleanBuild`,
  `NoSilentFailure`, `SingleStop`. The strengthening relates the phases: what is not yet
  set in each `pc`; that a container is stopping, or stopped, only after `did` was
  recorded (so the read of `did` after `Wait` cannot miss it); that `rc` after `Wait` is
  what the child's end and the copy make of it; and what each status says of them.
- `HostBuildProofs`, of `LineWatcher`: `WatcherTypeOK`, `StopsOnFirstMatch`, for outputs, chunks and matches of
  any length. As long as the watcher has not fired, its buffer is what follows the last
  complete line of the log, and no complete line matches (`Watching`). The work is in
  `KeptIsEnough`: a match of the whole text with the new chunk is one of the buffer with
  the chunk, and the other way round.
- `ConfigMergeProofs`: `TypeOK` always. For merges in turn, `ConfigRecoverable`,
  `SnapshotKept` and the refinement of `ConfigStore` (`ImplementsStore`: `StoreStep` maps
  each step to a step of the store or a stutter): one merge at most is under way, the names
  lead to distinct files, the temporary one, if `validateMerge` takes it, holds
  the entries of the config and the new one (`Progress`; `InsertAdds` for whatever the splice
  made of it), and the config is missing only after its backup became the newest. For
  merges that overlap in any way, `OriginalKept`: nobody writes to the person's file, and
  only a merge of the same second could take the name of its backup (`OriginalSafe`).
- `CandidateBuildProofs`: `TypeOK`, `MergedIsBuilt`, `PreflightForetells`,
  `NoLateRefusal`. The launcher sees the `-c` file twice. If its entry is there at the
  end and no edit was unseen, it was there all the time (`Steady`), so that it is the only
  entry a process could resolve (`Single`, `Same`). A file that nobody edited still says
  what the preflight, or the first process, read (`Foretold`, `Startable`).
- `BuildPipelineProofs`, of `DownloadCache`: `CacheTypeOK` and `CacheHeals` always, and,
  for runs in turn, `CacheWhole`. There, at most one process is away from idle; the writer's
  inode has the temporary name and holds exactly the blocks up to its offset; the two names
  never share an inode, nor the inode a new run would make. With overlap, the file of
  either name is whole, torn, or has a writer that has filled it from its beginning
  (`Healing`): the last one that truncated it.
- `BuildPipelineProofs`: `TypeOK`, `NothingLost`, `RunMeansCollected`,
  `StepsRerunnable`, `RunStagesReady`. What is left of `run`, `setup` or `build-rpm` is
  always an end of one list of stages (`Aligned`); so the number of stages left tells
  what has been done (`SetupDone`, `BuildDone`, and `Patching` inside the loop of
  `apply-patches`); and a stage that began with what it needs has it until it ends
  (`StillReady`), which is why it can be repeated.
- `GitPipelineProofs`: `TypeOK` and `OutputsCoherent` whatever overlaps or dies; for calm
  runs, which may fail and die anywhere, `AnnotationsTrue` and `SrcRunMeansOutput`. The stages left tell what is on the
  disk of the container, and nothing rewrites the tree once it is patched (`Built`). For
  the sidecar: the patches in the tree and those to come are the configured ones
  (`PatchedIn`), and between two runs, unless the last one lapsed, the sidecar is that of a whole
  src.rpm that is there (`Described`), which for a single src.rpm is that one; a copy replaces
  only files of its own name (`CopyKeeps`). The type invariant is part of
  the argument here: that a stage finds the tree, spec or tarball it reads.
- `WorkspaceProofs`: `TypeOK`, `BuildOneRefusedOnlyStray` and `RefusedOnlyNewOrStray`, for
  runs of every kind, in any number and any overlap, that die anywhere. A log directory was
  made by the user before root opens a log in it, but for `setup` by hand (`Plans`); so what
  root owns is about to be chowned, stray, or `log` or `built` (`RootOnly`), and under these
  two build-one's own directories are there before its build user comes (`LogAbove`,
  `BuiltFirst`, `ParentsMade`).

- `OSPrepProofs`: `TypeOK`, `NeverStuck`, `AliasesResolve`, `ListedFixed`, for any
  toolsets, plugin layouts, repositories and package lists. As in the pipelines, the
  commands left tell what has been done: which repositories are defined and enabled
  (`ReposDone`, `Called`), which toolsets are there and which have been fixed
  (`PackagesDone`, `FixDone`). For the aliases, every name in a toolset's directory is a
  file or a link of its package as shipped, or an alias that `fix-annobin` made
  (`OwnFiles`, `OwnLinks`); so a link that resolved still does while its toolset is not
  updated, and after a loop that ended all of them are made (`AllMade`).
- `ConfigSpliceProofs`: `TypeOK`, `OnlyEntryAdded`, `SpansKept`, `TidyNeverRefused`, for
  texts, entries and comments of any length and in any order. What the decoder makes of a
  line depends on the last key, the last OS and the last label above it (`Prev`). A splice
  moves what is below the place (`Shift`) and changes none of these (`PrevOfOld`,
  `PrevOfNew`) but for fields right below the place that belong to the entry above it
  (`Stolen`): the new entry takes them over. Where there are none, the table gains its one
  entry (`EntriesAfter`), the text loads (`LoadsAfter`) and the place is inside nobody's
  lines (`OldSpansKept`). There are none after a merge that `validateMerge` accepts, since
  the new entry would have a field twice or one that it does not want (`NoneStolen`); nor
  in a tidy text, whose entries end above the line that ended the scan (`TidyNoneStolen`).
  On the side of the `-c` file, the scan takes the lines of one entry and all of its
  fields (`ScanOneEntry`). No induction over the text is needed: that a field is below a
  label, and a key below an OS, follows from the first one that would not be
  (`FieldsHaveEntry`, `KeysHaveSection`). `NoEntryLost` holds for every `-c` file, those
  that are not `Exact` included: what is put in has no OS header, so that every label
  stays in its section (`EntriesStay`). An entry may lose fields there, but never itself.

Only model-checked: `StopEndsBuild`, since liveness under fairness is out of this
prover's reach. The two runs that show a violation are TLC's by nature.

## Not modelled

- docker, rpm, yum, git, cmake and rpmbuild are external: what they leave behind is
  reduced to what a later step needs, and they may fail.
- The text of the YAML files beyond lines and columns: `Loads` of `ConfigSplice` knows
  keys of the house style in mappings, and fields are their names, since entries differ
  in the fields they have or not at all. `FormatBuildEntry` renders an entry where there
  is no `-c` file; `-add-if-successful` asks for one. Flag parsing, formatting, usage texts.
- What the shell lines of `os-tweaks` do: they are the configuration's. A stage run again
  repeats all of them. The lines of `/etc/os-release`: `Detect` is the OS of the image.
- `version`, the wrapper scripts, the Makefile and `verify-git-build`, which only call the
  binary; the YAML files, which are data and appear as constants and initial states.
- The order of patches within a git build, and the contents of patches. In `BuildPipeline`
  RPMs of different sets of patches have different names, although a patch need not change
  the release: single steps by hand could replace a half-patched RPM by another. Edits between
  the stages of one container are in `CandidateBuild`, for build-one; the git builds' list
  of patches may change between runs.
- `REFERENCE.md:315` says a second git run overwrites the in-container log of the
  first; `SetTee` opens it for appending. No property is about logs.

## Plan

Done, in this order: the launcher with its proofs; the merge and its abstract store; the
download cache with its proofs; the two pipelines; the directories; the line watcher;
the splice of an entry; the configuration over a build's life; the OS stages; patches
that add build requirements.

Then the proofs: the launcher, the merge and its refinement, the directories, the
pipelines, the configuration over a build's life, the line watcher, the cache, the OS
stages, and the splice. Every safety property that a run checks has its theorem.

What could come next is more of the system in one model: a whole `ConfigMerge` whose
`Insert` is the splice of `ConfigSplice`, and the logs, of which no property says anything.
