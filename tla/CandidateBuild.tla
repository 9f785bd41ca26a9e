--------------------------- MODULE CandidateBuild ---------------------------
(***************************************************************************)
(* What a `build-one -c <file> -add-if-successful <os> <label>` takes from *)
(* the YAML files, and when (src/go/config/config.go, src/go/host/host.go, *)
(* NewRunner of src/go/steps/steps.go, src/go/osrelease).  The launcher    *)
(* loads images.yaml and the -c file and resolves the build; each process  *)
(* in the container, over hours, finds out which OS it is on, loads both   *)
(* files again and resolves for itself; after a clean build the launcher   *)
(* reads the -c file once more and merges the build it resolved at first.  *)
(* People edit all three files meanwhile.                                  *)
(*                                                                         *)
(* A file is abstracted to its entries for the one label.  The merge is    *)
(* one step: ConfigMerge has its file operations, ConfigSplice its text.   *)
(***************************************************************************)
EXTENDS Naturals, Sequences, FiniteSets

CONSTANTS
    OSes,       \* the OSes: an id and a major version, as in /etc/os-release
    Builds,     \* the contents a build entry can have
    NoURL,      \* those without an srpm URL
    NoBuild,    \* no entry
    Texts,      \* the contents the -c file may have
    Mains,      \* the contents rpm-build-config.yaml may have
    Images,     \* the contents images.yaml may have
    MaxEdits    \* bound on the edits people make

VARIABLES
    cand,       \* the -c file
    main,       \* rpm-build-config.yaml
    images,     \* images.yaml
    pc,         \* where the launcher is
    want,       \* the build it resolved
    box,        \* the OS in the container it started
    warned,     \* it warned of a -c file with more than one entry
    foretold,   \* what the preflight said of the merge
    used,       \* the builds the container's processes resolved so far
    outcome,    \* what the merge did
    seen,       \* history: the entries the -c file has had since the launch
    unseen,     \* history: an edit came that the launcher cannot know of
    touched,    \* history: which files changed since `run` (-c, images) or the preflight (main)
    edits       \* edits so far

files == <<cand, main, images>>
launcher == <<pc, want, box, warned, foretold, outcome>>
history == <<seen, unseen, touched, edits>>
vars == <<files, launcher, used, history>>

Entry == [os: OSes, build: Builds]
NoEntry == [os |-> [id |-> "none", major |-> 0], build |-> NoBuild]
Tables == [OSes -> Builds \cup {NoBuild}]

\* A file that does not load has some text for an entry all the same; an images.yaml that
\* does not load has no image.  The main config has a section for some OSes, where the
\* entries are.  An image holds an OS, which its key need not name.
ASSUME FilesAssumption ==
    /\ IsFiniteSet(OSes)
    /\ Texts \subseteq [loads: BOOLEAN, builds: Tables]
    /\ Mains \subseteq [loads: BOOLEAN, sections: SUBSET OSes, builds: Tables]
    /\ \A m \in Mains : \A o \in OSes \ m.sections : m.builds[o] = NoBuild
    /\ \A i \in Images : DOMAIN i \subseteq OSes /\ \A o \in DOMAIN i : i[o] \in [os: OSes, define: BOOLEAN]
ASSUME BuildsAssumption == NoURL \subseteq Builds /\ NoBuild \notin Builds
ASSUME MaxEditsAssumption == MaxEdits \in Nat

Statuses == {"merged", "identical", "differs", "error"}
Processes == <<"run", "install-srpm", "build-rpm">>

TypeOK ==
    /\ cand \in Texts /\ images \in Images
    /\ main \in [loads: BOOLEAN, sections: SUBSET OSes, builds: Tables]
    /\ \A o \in OSes \ main.sections : main.builds[o] = NoBuild
    /\ pc \in {"start", "fatal", "loaded", "running", "failed", "ok", "done"}
    /\ want \in Entry \cup {NoEntry}
    /\ box \in OSes \cup {NoEntry.os}
    /\ warned \in BOOLEAN
    /\ foretold \in Statuses \cup {"none"} /\ outcome \in Statuses \cup {"none"}
    /\ used \in Seq(Entry) /\ Len(used) <= Len(Processes)
    /\ seen \subseteq Builds \cup {NoBuild} /\ unseen \in BOOLEAN
    /\ touched \subseteq {"cand", "main", "images"}
    /\ edits \in 0..MaxEdits

Init ==
    /\ cand \in Texts /\ main \in Mains /\ images \in Images
    /\ pc = "start" /\ want = NoEntry /\ box = NoEntry.os /\ warned = FALSE
    /\ foretold = "none" /\ outcome = "none" /\ used = <<>>
    /\ seen = {} /\ unseen = FALSE /\ touched = {} /\ edits = 0

-----------------------------------------------------------------------------
(* Loading and resolving. *)

\* The distributions that osrelease detects.
supported == {"almalinux", "ol", "rocky", "centos", "rhel"}

\* Mutant: a distribution is missing from the second list.
KnownELFamilyShort == {"almalinux", "ol", "rocky", "rhel"}

\* Those that RPMDefine accepts.
KnownELFamily == {"almalinux", "centos", "ol", "rhel", "rocky"}

\* RPMDefine fails when it has to define el<major> for anything else.
RPMDefine(o) == images[o].define => o.id \in KnownELFamily

\* Load, Image and Resolve: the OS has an image, the file loads and has an entry with
\* a URL for the OS.
Resolves(o) ==
    /\ o \in DOMAIN images
    /\ cand.loads /\ cand.builds[o] \in Builds \ NoURL

BuildCount(t) == Cardinality({o \in OSes : t.builds[o] # NoBuild})

\* Load of the main config, which reads images.yaml first.
Loads == DOMAIN images # {} /\ main.loads

\* checkMergeStatus.
CheckMergeStatus(table) ==
    CASE table[want.os] = NoBuild -> "merged"
      [] table[want.os] = want.build -> "identical"
      [] OTHER -> "differs"

-----------------------------------------------------------------------------
(* The launcher. *)

\* BuildOne resolves the build for the OS it is asked for, and picks its image.
Launch(o) ==
    /\ pc = "start"
    /\ IF Resolves(o)
       THEN /\ pc' = "loaded"
            /\ want' = [os |-> o, build |-> cand.builds[o]]
            /\ box' = images[o].os
            /\ warned' = (BuildCount(cand) # 1)
            /\ seen' = {cand.builds[o]}
       ELSE pc' = "fatal" /\ UNCHANGED <<want, box, warned, seen>>
    /\ UNCHANGED <<files, foretold, outcome, used, unseen, touched, edits>>

\* Mutant: the -c file is asked instead of the main one.
PreflightWrongFile ==
    /\ pc = "loaded"
    /\ foretold' = IF cand.loads THEN CheckMergeStatus(cand.builds) ELSE "error"
    /\ pc' = "running"
    /\ touched' = touched \ {"main"}
    /\ UNCHANGED <<files, want, box, warned, outcome, used, seen, unseen, edits>>

\* logPreflightMergeStatus; then the container starts.
Preflight ==
    /\ pc = "loaded"
    /\ foretold' = IF Loads THEN CheckMergeStatus(main.builds) ELSE "error"
    /\ pc' = "running"
    /\ touched' = touched \ {"main"}
    /\ UNCHANGED <<files, want, box, warned, outcome, used, seen, unseen, edits>>

\* cmd.Wait returns 0 when every process of the container has: a status of OK.
BuildEnds ==
    /\ pc = "running" /\ Len(used) = Len(Processes)
    /\ pc' = "ok"
    /\ UNCHANGED <<files, want, box, warned, foretold, outcome, used, history>>

\* Some stage of the build fails, or the container is stopped.
StageFails ==
    /\ pc = "running" /\ used # <<>>
    /\ pc' = "done"
    /\ UNCHANGED <<files, want, box, warned, foretold, outcome, used, history>>

\* What entryLinesFor cuts out of the -c file as it is now, whether it loads or not.
SourceBuilds == {cand.builds[want.os]} \ {NoBuild}

\* Mutant: the merge takes the entry the file has by then.
CandidatesUnchecked == SourceBuilds

\* What validateMerge lets through.
Candidates == SourceBuilds \cap {want.build}

\* Mutant: nobody looks for the section.
SectionFoundAlways == TRUE

\* The main config has a section for the OS.
SectionFound == want.os \in main.sections

\* MergeBuild, after a clean build.  The texts may not have the shape it looks for.
MergeConfig ==
    /\ pc = "ok" /\ pc' = "done"
    /\ \/ outcome' = "error" /\ UNCHANGED main
       \/ /\ Loads /\ CheckMergeStatus(main.builds) # "merged"
          /\ outcome' = CheckMergeStatus(main.builds)
          /\ UNCHANGED main
       \/ /\ Loads /\ CheckMergeStatus(main.builds) = "merged"
          /\ SectionFound
          /\ \E b \in Candidates : main' = [main EXCEPT !.builds[want.os] = b]
          /\ outcome' = "merged"
    /\ UNCHANGED <<cand, images, want, box, warned, foretold, used, history>>

-----------------------------------------------------------------------------
(* The container. *)

\* The next process: NewRunner detects the OS, loads and resolves; rpmbuild, in the
\* last one, also needs its --define.
Process == Processes[Len(used) + 1]
Starts ==
    /\ box.id \in supported
    /\ Resolves(box)
    /\ Process = "build-rpm" => RPMDefine(box)

NewRunner ==
    /\ pc = "running" /\ Len(used) < Len(Processes)
    /\ IF Starts
       THEN used' = Append(used, [os |-> box, build |-> cand.builds[box]]) /\ UNCHANGED pc
       ELSE pc' = "failed" /\ UNCHANGED used
    /\ touched' = IF used = <<>> THEN touched \ {"cand", "images"} ELSE touched
    /\ UNCHANGED <<files, want, box, warned, foretold, outcome, seen, unseen, edits>>

-----------------------------------------------------------------------------
(* People. *)

Editing(name) ==
    /\ pc \in {"loaded", "running", "ok"} /\ edits < MaxEdits
    /\ edits' = edits + 1
    /\ touched' = touched \cup {name}
    /\ UNCHANGED <<launcher, used>>

\* Two edits are unseen: one that brings back an entry the file had before, and one
\* that adds entries of other OSes, after the launcher has looked for them.
EditText(t) ==
    /\ Editing("cand")
    /\ t # cand /\ cand' = t
    /\ LET entry == t.builds[want.os]
       IN  /\ seen' = seen \cup {entry}
           /\ unseen' = \/ unseen
                        \/ BuildCount(t) > 1
                        \/ entry # cand.builds[want.os] /\ entry \in seen
    /\ UNCHANGED <<main, images>>

\* By hand, or another merge.
EditMain(m) ==
    /\ Editing("main")
    /\ m # main /\ main' = m
    /\ UNCHANGED <<cand, images, seen, unseen>>

EditImages(i) ==
    /\ Editing("images")
    /\ i # images /\ images' = i
    /\ UNCHANGED <<cand, main, seen, unseen>>

Next ==
    \/ \E o \in OSes : Launch(o)
    \/ Preflight \/ BuildEnds \/ StageFails \/ MergeConfig
    \/ NewRunner
    \/ \E t \in Texts : EditText(t)
    \/ \E m \in Mains : EditMain(m)
    \/ \E i \in Images : EditImages(i)

Spec == Init /\ [][Next]_vars

-----------------------------------------------------------------------------
(* Properties. *)

\* A merged entry is the one that every process of the container built with, on the OS
\* it is for, however the files were edited in the hours between, unless the launcher
\* warned of other entries: an edit that is still there when it reads the -c file again
\* fails the validation (host.go:108-115, 193-195; steps.go:54-68; merge.go:133-144,
\* 177-193).  Unseen edits get past it.
MergedIsBuilt ==
    outcome = "merged" /\ ~warned /\ ~unseen =>
        /\ Len(used) = Len(Processes)
        /\ \A k \in DOMAIN used : used[k] = want

\* What the preflight says, unless it could not load the files, is what the merge does
\* hours later, unless the main config was edited since: a user who is not told of an entry
\* does not find the build's one refused for it (merge.go:57-71, host.go:203-215).  A merge
\* may also fail.
PreflightForetells ==
    outcome \in Statuses \ {"error"} /\ foretold # "error" /\ "main" \notin touched =>
        outcome = foretold

\* A process of the container that starts after hours of work does not fail on the
\* configuration, unless somebody edited it: the first process would have
\* (steps.go:364-401, config.go:76-98, osrelease.go:24-32).
NoLateRefusal ==
    pc = "failed" /\ used # <<>> => touched \cap {"cand", "images"} # {}
=============================================================================
