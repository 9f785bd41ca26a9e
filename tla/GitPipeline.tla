----------------------------- MODULE GitPipeline -----------------------------
(***************************************************************************)
(* The git-based builds of one (os, tag), src/go/gitsteps: containers that *)
(* clone, patch, configure and stage a tree and make a src.rpm             *)
(* (git-build-src-rpm) or all the RPMs (git-build-rpms) of it, the output  *)
(* directories that persist under built/, the .config.yaml sidecar, and    *)
(* generate-build-one-config, which reads both on the host.                *)
(*                                                                         *)
(* The root orchestrator re-execs the binary for each build-user stage, so *)
(* a stage starts from a new Runner and reads git-build-config.yaml again. *)
(* A tree is the commit it was cloned at and the patches applied to it.    *)
(***************************************************************************)
EXTENDS Naturals, Sequences, FiniteSets

CONSTANTS
    Procs,      \* the containers that run builds
    Revs,       \* the commits -ref may resolve to
    Patches,    \* the patches git-build-config.yaml may list
    Renaming,   \* those that change the release, hence the src.rpm's name
    DefineEL,   \* images.yaml's enable_rpmbuild_define_el
    Calm,       \* runs neither overlap, nor meet an edit
    Nothing,    \* no tree, no file, no list yet
    Torn,       \* a sidecar that was not written to its end
    MaxRuns,    \* bound on the runs
    MaxEdits    \* bound on the edits of git-build-config.yaml

ASSUME RenamingAssumption == Renaming \subseteq Patches
ASSUME FlagsAssumption == DefineEL \in BOOLEAN /\ Calm \in BOOLEAN
ASSUME BoundsAssumption == MaxRuns \in Nat /\ MaxEdits \in Nat

VARIABLES
    kind,       \* the command of each container
    todo,       \* the stages each container still has to run
    rc,         \* how each container's run ended
    osDef,      \* Runner.osDef of the process that runs the stage is set
    clone,      \* ~/git/mysql-<version>
    listed,     \* git-apply-patches has read its list of patches
    pending,    \* the patches it has still to apply
    spec,       \* the tree cmake rendered the spec from
    staged,     \* the spec and the tarball under ~/rpmbuild
    srpm,       \* the src.rpm under ~/rpmbuild/SRPMS
    out,        \* the src.rpms in each command's output directory
    sidecar,    \* .config.yaml beside those of git-build-src-rpm
    lapsed,     \* the last run that wrote there was cut off before its sidecar was done
    gitcfg,     \* the patches git-build-config.yaml lists now
    generated,  \* the -c file generate-build-one-config wrote
    runs, edits

inside == <<osDef, clone, listed, pending, spec, staged, srpm>>
shared == <<out, sidecar, lapsed, gitcfg, generated, runs, edits>>
vars == <<kind, todo, rc, inside, shared>>

Kinds == {"src", "rpms"}
Trees == [rev: Revs, patches: SUBSET Patches]
Staged == [spec: Trees, tar: Trees]
SrcRPMs == [spec: Trees, tar: Trees, define: BOOLEAN]
Outputs == [of: SrcRPMs, whole: BOOLEAN]
Generated == [srpm: Outputs, annotations: Trees \cup {Nothing, Torn}, lapsed: BOOLEAN]
ASSUME NothingAssumption ==
    /\ Nothing \notin Trees /\ Nothing \notin Staged /\ Nothing \notin SrcRPMs
    /\ Nothing \notin Generated /\ Torn \notin Trees

Prep == <<"bootstrap", "setup-repos", "refresh", "install-packages", "fix-annobin",
          "create-user", "git-clone", "git-apply-patches", "git-configure", "git-stage">>
Names == {"bootstrap", "setup-repos", "refresh", "install-packages", "fix-annobin",
          "create-user", "git-clone", "git-apply-patches", "git-configure", "git-stage",
          "git-builddeps", "rpmbuild", "collect", "copy", "sidecar"}

TypeOK ==
    /\ kind \in [Procs -> Kinds]
    /\ todo \in [Procs -> Seq(Names)]
    /\ rc \in [Procs -> {"none", "ok", "failed"}]
    /\ osDef \in [Procs -> BOOLEAN]
    /\ clone \in [Procs -> Trees \cup {Nothing}]
    /\ listed \in [Procs -> BOOLEAN] /\ pending \in [Procs -> SUBSET Patches]
    /\ spec \in [Procs -> Trees \cup {Nothing}]
    /\ staged \in [Procs -> Staged \cup {Nothing}]
    /\ srpm \in [Procs -> SrcRPMs \cup {Nothing}]
    /\ out \in [Kinds -> SUBSET Outputs]
    /\ sidecar \in Trees \cup {Nothing, Torn} /\ lapsed \in BOOLEAN
    /\ gitcfg \subseteq Patches
    /\ generated \in Generated \cup {Nothing}
    /\ runs \in 0..MaxRuns /\ edits \in 0..MaxEdits

Init ==
    /\ kind = [p \in Procs |-> "src"]
    /\ todo = [p \in Procs |-> <<>>] /\ rc = [p \in Procs |-> "none"]
    /\ osDef = [p \in Procs |-> FALSE]
    /\ clone = [p \in Procs |-> Nothing] /\ spec = [p \in Procs |-> Nothing]
    /\ listed = [p \in Procs |-> FALSE] /\ pending = [p \in Procs |-> {}]
    /\ staged = [p \in Procs |-> Nothing] /\ srpm = [p \in Procs |-> Nothing]
    /\ out = [k \in Kinds |-> {}] /\ sidecar = Nothing /\ lapsed = FALSE
    /\ gitcfg \in SUBSET Patches
    /\ generated = Nothing /\ runs = 0 /\ edits = 0

-----------------------------------------------------------------------------
(* Runs. *)

\* Mutant: cmake renders the spec before the tree is patched.
StagesOfUnpatchedSpec(k) ==
    <<"bootstrap", "setup-repos", "refresh", "install-packages", "fix-annobin",
      "create-user", "git-clone", "git-configure", "git-apply-patches", "git-stage">>
      \o IF k = "src" THEN <<"rpmbuild", "collect", "copy", "sidecar">>
                      ELSE <<"git-builddeps", "rpmbuild", "collect", "copy">>

\* The stages of SrcRPMBuild (AssembleSrcRPM is four of them) and AllRPMsBuild.
StagesOf(k) == Prep \o IF k = "src" THEN <<"rpmbuild", "collect", "copy", "sidecar">>
                                    ELSE <<"git-builddeps", "rpmbuild", "collect", "copy">>

Idle(p) == todo[p] = <<>>
At(p, s) == ~Idle(p) /\ Head(todo[p]) = s

\* runGitHostBuild starts a new container from the image.
Launch(p, k) ==
    /\ Idle(p) /\ runs < MaxRuns
    /\ Calm => \A q \in Procs : Idle(q)
    /\ runs' = runs + 1
    /\ kind' = [kind EXCEPT ![p] = k]
    /\ todo' = [todo EXCEPT ![p] = StagesOf(k)]
    /\ rc' = [rc EXCEPT ![p] = "none"]
    /\ osDef' = [osDef EXCEPT ![p] = FALSE]
    /\ clone' = [clone EXCEPT ![p] = Nothing]
    /\ listed' = [listed EXCEPT ![p] = FALSE]
    /\ pending' = [pending EXCEPT ![p] = {}]
    /\ spec' = [spec EXCEPT ![p] = Nothing]
    /\ staged' = [staged EXCEPT ![p] = Nothing]
    /\ srpm' = [srpm EXCEPT ![p] = Nothing]
    /\ UNCHANGED <<out, sidecar, lapsed, gitcfg, generated, edits>>

\* Stages of the orchestrator's own process, as root.
RootStages == {"bootstrap", "setup-repos", "refresh", "install-packages",
               "fix-annobin", "create-user", "git-builddeps"}

\* The stage ends well: the next one begins, in the orchestrator's process or in
\* a re-exec'd one, whose NewRunner sets no osDef.
Advance(p) ==
    /\ todo' = [todo EXCEPT ![p] = Tail(@)]
    /\ rc' = [rc EXCEPT ![p] = IF Tail(todo[p]) = <<>> THEN "ok" ELSE "none"]
    /\ osDef' = [osDef EXCEPT ![p] =
                    Tail(todo[p]) # <<>> /\ Head(Tail(todo[p])) \in RootStages]
    /\ UNCHANGED kind

\* A stage fails, or the container is killed: the run is over.  The file that was being
\* written stays as it is, and os.WriteFile may have begun on the sidecar.
Fail(p) ==
    /\ ~Idle(p)
    /\ todo' = [todo EXCEPT ![p] = <<>>]
    /\ rc' = [rc EXCEPT ![p] = "failed"]
    /\ sidecar' \in {sidecar} \cup {t \in {Torn} : At(p, "sidecar")}
    /\ lapsed' = (lapsed \/ (kind[p] = "src" /\ (At(p, "copy") \/ At(p, "sidecar"))))
    /\ UNCHANGED <<kind, inside, out, gitcfg, generated, runs, edits>>

-----------------------------------------------------------------------------
(* Stages. *)

\* loadBootstrap, SetupRepos, Refresh, InstallPackages, FixAnnobin, CreateUser and
\* BuildDeps, the last with the spec that git-stage has laid down.
RootStage(p) ==
    /\ \E s \in RootStages : At(p, s)
    /\ At(p, "git-builddeps") => staged[p] # Nothing
    /\ Advance(p)
    /\ UNCHANGED <<clone, listed, pending, spec, staged, srpm, shared>>

\* git clone --depth 1 --branch ref: the tree is whatever ref names now.
Clone(p) ==
    /\ At(p, "git-clone") /\ clone[p] = Nothing
    /\ \E r \in Revs : clone' = [clone EXCEPT ![p] = [rev |-> r, patches |-> {}]]
    /\ Advance(p)
    /\ UNCHANGED <<listed, pending, spec, staged, srpm, shared>>

\* loadPatches, in the stage's own process.
LoadPatches(p) ==
    /\ At(p, "git-apply-patches") /\ ~listed[p]
    /\ listed' = [listed EXCEPT ![p] = TRUE]
    /\ pending' = [pending EXCEPT ![p] = gitcfg]
    /\ UNCHANGED <<kind, todo, rc, osDef, clone, spec, staged, srpm, shared>>

\* Mutant: a tree that could not be patched is thrown away, and the loop goes on.
ApplyPatchDropsTree(p) ==
    /\ At(p, "git-apply-patches") /\ listed[p]
    /\ \E q \in pending[p] :
          /\ pending' = [pending EXCEPT ![p] = @ \ {q}]
          /\ clone' = [clone EXCEPT ![p].rev = Nothing]
    /\ UNCHANGED <<kind, todo, rc, osDef, listed, spec, staged, srpm, shared>>

\* git apply of one patch; their order is abstracted.
ApplyPatch(p) ==
    /\ At(p, "git-apply-patches") /\ listed[p]
    /\ \E q \in pending[p] :
          /\ pending' = [pending EXCEPT ![p] = @ \ {q}]
          /\ clone' = [clone EXCEPT ![p] = [rev |-> @.rev, patches |-> @.patches \cup {q}]]
    /\ UNCHANGED <<kind, todo, rc, osDef, listed, spec, staged, srpm, shared>>

PatchesApplied(p) ==
    /\ At(p, "git-apply-patches") /\ listed[p] /\ pending[p] = {}
    /\ Advance(p)
    /\ UNCHANGED <<clone, listed, pending, spec, staged, srpm, shared>>

\* cmake configure renders packaging/rpm-oel/mysql.spec.
Configure(p) ==
    /\ At(p, "git-configure")
    /\ spec' = [spec EXCEPT ![p] = clone[p]]
    /\ Advance(p)
    /\ UNCHANGED <<clone, listed, pending, staged, srpm, shared>>

\* Stage: package the tree with CPack and copy it and the spec to ~/rpmbuild.
Stage(p) ==
    /\ At(p, "git-stage")
    /\ staged' = [staged EXCEPT ![p] = [spec |-> spec[p], tar |-> clone[p]]]
    /\ Advance(p)
    /\ UNCHANGED <<clone, listed, pending, spec, srpm, shared>>

\* rpmbuild -bs or -ba, with the --define that rpmDefine makes of r.osDef.
RPMBuild(p) ==
    /\ At(p, "rpmbuild")
    /\ srpm' = [srpm EXCEPT ![p] = [spec |-> staged[p].spec, tar |-> staged[p].tar,
                                    define |-> osDef[p] /\ DefineEL]]
    /\ Advance(p)
    /\ UNCHANGED <<clone, listed, pending, spec, staged, shared>>

\* What tells the file names of two src.rpms of this tag apart.
Release(s) == s.spec.patches \cap Renaming

\* Mutant: both commands collect into git-build-src-rpm's directory.
OutputSubdirShared(p) == "src"

\* Each command has a directory of its own for a tag.
OutputSubdir(p) == kind[p]

\* The directory with p's src.rpm in it, over a file of the same name and beside the
\* others.
WithOutput(p, whole) ==
    [out EXCEPT ![OutputSubdir(p)] = {s \in @ : Release(s.of) # Release(srpm[p])}
                                        \cup {[of |-> srpm[p], whole |-> whole]}]

\* collect and collectAll: cp opens the file in the output directory, ...
Collect(p) ==
    /\ At(p, "collect")
    /\ out' = WithOutput(p, FALSE)
    /\ Advance(p)
    /\ UNCHANGED <<clone, listed, pending, spec, staged, srpm, sidecar, lapsed, gitcfg,
                   generated, runs, edits>>

\* ... and comes to its end.
CopyDone(p) ==
    /\ At(p, "copy")
    /\ out' = WithOutput(p, TRUE)
    /\ Advance(p)
    /\ UNCHANGED <<clone, listed, pending, spec, staged, srpm, sidecar, lapsed, gitcfg,
                   generated, runs, edits>>

\* Mutant: a sidecar that is there already is left alone.
WriteConfigSidecarOnce(p) ==
    /\ At(p, "sidecar")
    /\ sidecar' = IF sidecar = Nothing THEN [rev |-> clone[p].rev, patches |-> gitcfg]
                                       ELSE sidecar
    /\ lapsed' = FALSE
    /\ Advance(p)
    /\ UNCHANGED <<clone, listed, pending, spec, staged, srpm, out, gitcfg, generated, runs, edits>>

\* writeConfigSidecar: the commit from the checkout, the patches from the config.
WriteConfigSidecar(p) ==
    /\ At(p, "sidecar")
    /\ sidecar' = [rev |-> clone[p].rev, patches |-> gitcfg]
    /\ lapsed' = FALSE
    /\ Advance(p)
    /\ UNCHANGED <<clone, listed, pending, spec, staged, srpm, out, gitcfg, generated, runs, edits>>

-----------------------------------------------------------------------------
(* The host. *)

\* GenerateBuildOneConfig: exactly one src.rpm, and the sidecar if there is one.  What was
\* torn may not parse, and then no config is written.
GenerateBuildOneConfig ==
    /\ Calm => \A p \in Procs : Idle(p)
    /\ Cardinality(out["src"]) = 1
    /\ \E s \in out["src"] : generated' = [srpm |-> s, annotations |-> sidecar,
                                                lapsed |-> lapsed]
    /\ UNCHANGED <<kind, todo, rc, inside, out, sidecar, lapsed, gitcfg, runs, edits>>

\* A person changes the tag's patches in git-build-config.yaml.
Edit ==
    /\ edits < MaxEdits
    /\ Calm => \A p \in Procs : Idle(p)
    /\ gitcfg' \in SUBSET Patches
    /\ edits' = edits + 1
    /\ UNCHANGED <<kind, todo, rc, inside, out, sidecar, lapsed, generated, runs>>

Step(p) ==
    \/ RootStage(p) \/ Clone(p) \/ LoadPatches(p) \/ ApplyPatch(p) \/ PatchesApplied(p)
    \/ Configure(p) \/ Stage(p) \/ RPMBuild(p) \/ Collect(p) \/ CopyDone(p)
    \/ WriteConfigSidecar(p)

Next ==
    \/ \E p \in Procs : Step(p) \/ Fail(p) \/ \E k \in Kinds : Launch(p, k)
    \/ GenerateBuildOneConfig \/ Edit

Spec == Init /\ [][Next]_vars

-----------------------------------------------------------------------------
(* Properties. *)

\* A src.rpm whose tarball and spec come from the tree as it was patched.
Coherent(s) == s.spec = s.tar

\* A src.rpm that ever reaches an output directory was made of one tree: the spec
\* was rendered from the commit and the patches that the tarball holds, though
\* five processes with nothing but the disk in common made it (gitsteps.go:253-257,
\* 1163-1175).
OutputsCoherent == \A k \in Kinds : \A s \in out[k] : Coherent(s.of)

\* A generated config points at a whole src.rpm, and its annotations name the commit and
\* the patches of that one, through any sequence of runs of any commits and patches, those
\* included that fail or die before cp has begun: the sidecar is there for "recording this
\* build's configuration for generate-build-one-config to read later"
\* (gitsteps.go:948-949, 1002-1048).  It is not so, and not said here, when the last
\* git-build-src-rpm run that got as far as cp failed or died in cp or in writing the
\* sidecar (lapsed); when runs overlap; or when the list of patches was edited during a
\* run (Calm).
AnnotationsTrue ==
    generated # Nothing /\ ~generated.lapsed =>
        generated.srpm.whole /\ generated.annotations = generated.srpm.of.tar

\* A git-build-src-rpm run ends with 0 only when its own src.rpm, whole and with the
\* configured patches in it, and the sidecar that describes it are in the output directory
\* (gitsteps.go:613-637).  As above, runs do not overlap and meet no edit.
SrcRunMeansOutput ==
    [][\A p \in Procs : ~Idle(p) /\ kind[p] = "src" /\ rc'[p] = "ok" =>
          /\ [of |-> srpm[p], whole |-> TRUE] \in out'["src"]
          /\ sidecar' = srpm[p].tar
          /\ srpm[p].tar.patches = gitcfg]_vars

\* What the comments say of osDef: "set by loadBootstrap before anything reads it"
\* (gitsteps.go:125-126), and rpmbuild gets --define when images.yaml asks for it
\* (images.yaml:13).
DefinePassed == \A k \in Kinds : \A s \in out[k] : s.of.define = DefineEL
=============================================================================
