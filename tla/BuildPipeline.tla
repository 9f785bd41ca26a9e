---------------------------- MODULE BuildPipeline ----------------------------
(***************************************************************************)
(* The in-container side of build-one (src/go/steps, src/go/osprep and     *)
(* runContainer of src/go/cmd/main.go): the stages that prepare the OS as  *)
(* root and build as the rpmbuild user, run as a whole (run, setup,        *)
(* build-rpm) or one at a time in a debug container, in any order and      *)
(* again after a failure.  Any stage may fail half-way, and the container  *)
(* may be killed at any moment; /data outlives it.                         *)
(*                                                                         *)
(* yum, useradd, rpm, patch and rpmbuild are external: what a stage leaves *)
(* behind is reduced to what a later stage needs.                          *)
(***************************************************************************)
EXTENDS Naturals, Sequences

CONSTANTS
    NPatches,   \* spec patches under config/<label>/SPECS, applied in order
    Adding,     \* those that add BuildRequires to the spec
    Files,      \* the RPM files one rpmbuild makes
    MaxCommands \* bound on the commands run, in all containers

ASSUME NPatchesAssumption == NPatches \in Nat
\* There is at least a src.rpm among them.
ASSUME FilesAssumption == Files # {}
ASSUME MaxCommandsAssumption == MaxCommands \in Nat

VARIABLES
    build,      \* what the config says of the label's build
    cmd,        \* the command that runs, or the last one
    todo,       \* the stages it still has to run, the current one first
    rc,         \* how the last command ended
    ready,      \* whether the current stage began with all it needs
    prepared,   \* root stages the container has been through
    spec,       \* the src.rpm's spec is in ~/rpmbuild/SPECS
    copied,     \* patch files are in ~/rpmbuild/SPECS
    applied,    \* the patches the spec has
    nextPatch,  \* the patch the loop has come to, 0 before it
    deps,       \* the BuildRequires installed: 0 the spec's own, p what patch p adds
    made,       \* the RPMs rpmbuild has made in this container
    built,      \* those under ~/rpmbuild/RPMS and SRPMS
    dest,       \* built/build-one/<os>__<label>
    moving,     \* the RPM being copied there
    moved,      \* some RPM was moved by this collect
    commands    \* commands begun so far

flow == <<cmd, todo, rc, ready, commands>>
tree == <<spec, copied, applied, nextPatch>>
rpms == <<made, built, dest, moving, moved>>
vars == <<build, flow, prepared, tree, deps, rpms>>

PatchNumbers == 1..NPatches
ASSUME AddingAssumption == Adding \subseteq PatchNumbers
\* An RPM file, and the patches its spec had: a patch may change the release.
RPMs == [file: Files, patches: SUBSET PatchNumbers]
NoRPM == [file |-> "none", patches |-> {}]
ASSUME NoRPMAssumption == NoRPM \notin RPMs

\* auto_install_dependencies, a packages list, and a config/<label> directory
\* with all the declared patches in it, without one, or with one missing.
Builds == [auto: BOOLEAN, packages: BOOLEAN, custom: {"all", "none", "missing"}]

RootStages == {"record-init", "refresh", "setup-repos", "install-packages",
               "fix-annobin", "os-tweaks", "create-user"}
UserStages == {"install-srpm", "apply-patches", "rpmbuild", "collect"}
StageNames == RootStages \cup {"install-builddeps"} \cup UserStages
Commands == StageNames \cup {"run", "setup", "build-rpm"}

\* checkPrivilege: the commands that must run as the build user.
NeedsUser(c) == c \in UserStages \cup {"build-rpm"}

TypeOK ==
    /\ build \in Builds
    /\ cmd \in Commands \cup {"none"}
    /\ todo \in Seq(StageNames)
    /\ rc \in {"none", "ok", "failed"}
    /\ ready \in BOOLEAN
    /\ prepared \subseteq RootStages
    /\ spec \in BOOLEAN /\ copied \in BOOLEAN
    /\ applied \subseteq PatchNumbers
    /\ nextPatch \in 0..NPatches + 1
    /\ deps \subseteq {0} \cup Adding
    /\ made \subseteq RPMs /\ built \subseteq made
    /\ dest \in [RPMs -> {"absent", "partial", "whole"}]
    /\ moving \in RPMs \cup {NoRPM}
    /\ moved \in BOOLEAN
    /\ commands \in 0..MaxCommands

Init ==
    /\ build \in Builds
    /\ cmd = "none" /\ todo = <<>> /\ rc = "none" /\ ready = FALSE /\ commands = 0
    /\ prepared = {} /\ deps = {}
    /\ spec = FALSE /\ copied = FALSE /\ applied = {} /\ nextPatch = 0
    /\ made = {} /\ built = {} /\ moving = NoRPM /\ moved = FALSE
    /\ dest = [r \in RPMs |-> "absent"]

-----------------------------------------------------------------------------
(* Commands and their stages. *)

\* Mutant: apply-patches comes after rpmbuild.
BuildStagesSwapped == <<"rpmbuild", "apply-patches", "collect">>

\* The stages of BuildRPM.
BuildStages == <<"apply-patches", "rpmbuild", "collect">>

\* Mutant: the build dependencies are resolved before there is a spec.
SetupStagesEarlyDeps ==
    <<"record-init", "refresh", "setup-repos", "install-packages", "fix-annobin",
      "os-tweaks", "create-user", "install-builddeps", "install-srpm">> \o BuildStages

\* The stages of Setup, the ones it hands to the build user included.
SetupStages ==
    <<"record-init", "refresh", "setup-repos", "install-packages", "fix-annobin",
      "os-tweaks", "create-user", "install-srpm", "install-builddeps">> \o BuildStages

StagesOf(c) == CASE c \in {"run", "setup"} -> SetupStages
                 [] c = "build-rpm" -> BuildStages
                 [] OTHER -> <<c>>

\* The build's packages are installed: those of the list, which has what the patches
\* add, or what yum-builddep found in the spec.
BuildRequires == {0} \cup (applied \cap Adding)
PackagesInstalled == build.packages /\ "install-packages" \in prepared
DepsInstalled ==
    \/ build.auto /\ BuildRequires \subseteq deps
    \/ build.auto /\ PackagesInstalled /\ 0 \in deps
    \/ ~build.auto /\ PackagesInstalled

\* What a stage needs to find in the container to be able to succeed.
Ready(s) ==
    CASE s = "install-packages" -> build.auto \/ build.packages
      [] s = "install-srpm" -> "create-user" \in prepared
      [] s = "install-builddeps" -> build.auto => spec
      [] s = "apply-patches" ->
            \/ build.custom = "none"
            \/ build.custom = "all" /\ (NPatches > 0 => spec) /\ applied = {}
      [] s = "rpmbuild" -> spec /\ "refresh" \in prepared /\ DepsInstalled
      [] s = "collect" -> built # {}
      [] OTHER -> TRUE

Idle == todo = <<>>
At(s) == todo # <<>> /\ Head(todo) = s

\* A command begins, as the user it needs; the build user must exist.
Start(c) ==
    /\ Idle /\ commands < MaxCommands
    /\ NeedsUser(c) => "create-user" \in prepared
    /\ commands' = commands + 1
    /\ cmd' = c /\ todo' = StagesOf(c) /\ rc' = "none"
    /\ nextPatch' = 0 /\ moved' = FALSE
    /\ ready' = Ready(Head(StagesOf(c)))
    /\ UNCHANGED <<build, prepared, spec, copied, applied, deps, made, built, dest, moving>>

\* checkPrivilege refuses a command run as the wrong user before it does anything.
Refuse(c) ==
    /\ Idle /\ commands < MaxCommands
    /\ ~NeedsUser(c) => "create-user" \in prepared
    /\ commands' = commands + 1
    /\ cmd' = "none" /\ rc' = "failed"
    /\ UNCHANGED <<build, todo, ready, prepared, tree, deps, rpms>>

\* The current stage returns nil; the next one begins, or the command ends.
Advance ==
    /\ todo' = Tail(todo)
    /\ IF Tail(todo) = <<>> THEN rc' = "ok" /\ UNCHANGED ready
                            ELSE rc' = "none" /\ ready' = Ready(Head(todo))'
    /\ UNCHANGED <<cmd, commands>>

\* What rpmbuild makes of the spec as it is.
NewRPMs == {[file |-> f, patches |-> applied] : f \in Files}

\* The current stage returns an error, which ends the command; `cmd` then names the
\* stage.  A re-exec'd process that cannot load the config ends like this too.  An
\* rpmbuild that fails, late, may leave some of the RPMs.
Fail ==
    /\ ~Idle
    /\ At("apply-patches") => nextPatch <= NPatches
    /\ At("collect") => built # {} \/ ~moved
    /\ todo' = <<>> /\ rc' = "failed"
    /\ cmd' = Head(todo)
    /\ moving' = NoRPM
    /\ \E left \in SUBSET {r \in NewRPMs : At("rpmbuild") /\ Ready("rpmbuild")} :
          made' = made \cup left /\ built' = built \cup left
    /\ UNCHANGED <<build, ready, commands, prepared, tree, deps, dest, moved>>

\* The container goes, and another is started from the image; /data stays.
Kill ==
    /\ commands < MaxCommands
    /\ cmd' = "none" /\ todo' = <<>> /\ rc' = "none" /\ ready' = FALSE
    /\ prepared' = {} /\ deps' = {}
    /\ spec' = FALSE /\ copied' = FALSE /\ applied' = {} /\ nextPatch' = 0
    /\ made' = {} /\ built' = {} /\ moving' = NoRPM /\ moved' = FALSE
    /\ UNCHANGED <<build, dest, commands>>

-----------------------------------------------------------------------------
(* The stages. *)

\* A stage that prepares the OS: package list, yum, repos, annobin links, tweaks,
\* the build user.  All of it can be done again.
Prepare(s) ==
    /\ At(s) /\ Ready(s)
    /\ prepared' = prepared \cup {s}
    /\ UNCHANGED <<build, tree, deps, rpms>>
    /\ Advance

\* rpm -ivh lays the spec down again, pristine, whatever was done to it.
InstallSRPM ==
    /\ At("install-srpm") /\ Ready("install-srpm")
    /\ spec' = TRUE /\ applied' = {}
    /\ UNCHANGED <<build, prepared, copied, nextPatch, deps, rpms>>
    /\ Advance

\* yum-builddep as root, on the spec in the build user's tree.
InstallBuildDeps ==
    /\ At("install-builddeps")
    /\ \/ ~build.auto /\ UNCHANGED deps
       \/ build.auto /\ spec /\ deps' = deps \cup BuildRequires
    /\ UNCHANGED <<build, prepared, tree, rpms>>
    /\ Advance

\* No config/<label>, and none declared: nothing to do.
NoCustomConfig ==
    /\ At("apply-patches") /\ build.custom = "none"
    /\ UNCHANGED <<build, prepared, tree, deps, rpms>>
    /\ Advance

\* Every declared patch is there: copy the SPECS and SOURCES files.
CopyPatches ==
    /\ At("apply-patches") /\ build.custom = "all" /\ nextPatch = 0
    /\ copied' = TRUE /\ nextPatch' = 1
    /\ UNCHANGED <<build, flow, prepared, spec, applied, deps, rpms>>

\* Mutant: the loop goes one past the last patch.
ApplyPatchOneMore ==
    /\ At("apply-patches") /\ copied /\ nextPatch \in 1..NPatches + 1
    /\ spec /\ nextPatch \notin applied
    /\ applied' = applied \cup {nextPatch}
    /\ nextPatch' = nextPatch + 1
    /\ UNCHANGED <<build, flow, prepared, spec, copied, deps, rpms>>

\* patch -p0 of the next file in sorted order; it fails on a spec that has it.
ApplyPatch ==
    /\ At("apply-patches") /\ copied /\ nextPatch \in PatchNumbers
    /\ spec /\ nextPatch \notin applied
    /\ applied' = applied \cup {nextPatch}
    /\ nextPatch' = nextPatch + 1
    /\ UNCHANGED <<build, flow, prepared, spec, copied, deps, rpms>>

PatchesApplied ==
    /\ At("apply-patches") /\ nextPatch = NPatches + 1
    /\ nextPatch' = 0
    /\ UNCHANGED <<build, prepared, spec, copied, applied, deps, rpms>>
    /\ Advance

\* rpmbuild -ba of the one spec: with its BuildRequires there it makes every RPM.
RPMBuild ==
    /\ At("rpmbuild") /\ Ready("rpmbuild")
    /\ made' = made \cup NewRPMs /\ built' = built \cup NewRPMs
    /\ UNCHANGED <<build, prepared, tree, deps, dest, moving, moved>>
    /\ Advance

\* moveFile on one device: a rename.
RenameRPM(r) ==
    /\ At("collect") /\ moving = NoRPM /\ r \in built
    /\ dest' = [dest EXCEPT ![r] = "whole"]
    /\ built' = built \ {r} /\ moved' = TRUE
    /\ UNCHANGED <<build, flow, prepared, tree, deps, made, moving>>

\* Mutant: the source is gone before the copy is complete.
CopyRPMRemovesFirst(r) ==
    /\ At("collect") /\ moving = NoRPM /\ r \in built
    /\ dest' = [dest EXCEPT ![r] = "partial"]
    /\ built' = built \ {r} /\ moving' = r
    /\ UNCHANGED <<build, flow, prepared, tree, deps, made, moved>>

\* moveFile across devices: copyFile truncates the target and fills it.
CopyRPM(r) ==
    /\ At("collect") /\ moving = NoRPM /\ r \in built
    /\ dest' = [dest EXCEPT ![r] = "partial"]
    /\ moving' = r
    /\ UNCHANGED <<build, flow, prepared, tree, deps, made, built, moved>>

\* The copy is complete.
CopyDone(r) ==
    /\ At("collect") /\ moving = r /\ dest[r] = "partial"
    /\ dest' = [dest EXCEPT ![r] = "whole"]
    /\ UNCHANGED <<build, flow, prepared, tree, deps, made, built, moving, moved>>

\* os.Remove(src), only after a complete copy.
RemoveRPM(r) ==
    /\ At("collect") /\ moving = r /\ dest[r] = "whole"
    /\ built' = built \ {r} /\ moving' = NoRPM /\ moved' = TRUE
    /\ UNCHANGED <<build, flow, prepared, tree, deps, made, dest>>

\* Every RPM found was moved, and there was one.
CollectEnds ==
    /\ At("collect") /\ built = {} /\ moving = NoRPM /\ moved
    /\ moved' = FALSE
    /\ UNCHANGED <<build, prepared, tree, deps, made, built, dest, moving>>
    /\ Advance

ApplyPatches == NoCustomConfig \/ CopyPatches \/ ApplyPatch \/ PatchesApplied
Collect == \/ \E r \in RPMs : RenameRPM(r) \/ CopyRPM(r) \/ CopyDone(r) \/ RemoveRPM(r)
           \/ CollectEnds
Stage == \/ \E s \in RootStages : Prepare(s)
         \/ InstallSRPM \/ InstallBuildDeps \/ ApplyPatches \/ RPMBuild \/ Collect

Next == (\E c \in Commands : Start(c) \/ Refuse(c)) \/ Stage \/ Fail \/ Kill

Spec == Init /\ [][Next]_vars

-----------------------------------------------------------------------------
(* Properties. *)

\* The patches a complete build of the label has.
Wanted == IF build.custom = "all" THEN PatchNumbers ELSE {}

\* A run, setup or build-rpm that ends with 0 has left every RPM whole in built/,
\* built from a spec with each of the label's patches, whatever steps, failures
\* and kills came before (steps.go:376-447).
RunMeansCollected ==
    rc = "ok" /\ cmd \in {"run", "setup", "build-rpm"} =>
        \A f \in Files : dest[[file |-> f, patches |-> Wanted]] = "whole"

\* An RPM that took hours to build is whole under ~/rpmbuild or whole in built/
\* at every moment of collect and after every failure of it, while the container
\* lives (helpers.go:110-120, steps.go:324-360).
NothingLost == \A r \in made : r \in built \/ dest[r] = "whole"

\* What the documentation says: "Any step that fails can be re-run in place
\* without repeating the expensive rpmbuild step" (REFERENCE.md:276-277): a step
\* that had all it needs has it again when it fails.
Rerunnable(s) == rc = "failed" /\ cmd = s /\ ready => Ready(s)

\* It is so for every step but apply-patches, which patches the spec in place: when
\* a patch fails, those before it are there and cannot be applied again.
StepsRerunnable == \A s \in StageNames \ {"apply-patches"} : Rerunnable(s)

\* A container that goes through `run` and fails nowhere can get to the end: no
\* stage of it begins without what it needs when the config is in order.  A patch's own
\* BuildRequires have to be in the packages list, since install-builddeps reads the
\* spec before apply-patches changes it (steps.go:143-177, 364-401).
ConfigInOrder ==
    /\ build.auto \/ build.packages
    /\ \/ build.custom = "none"
       \/ build.custom = "all" /\ (Adding = {} \/ build.packages)

RunStagesReady == cmd = "run" /\ ~Idle /\ ConfigInOrder => ready
=============================================================================
