------------------------- MODULE BuildPipelineProofs -------------------------
(***************************************************************************)
(* What the build-one stages promise for any patches, files and commands,  *)
(* whatever fails, is killed or is run again by hand.  An RPM leaves       *)
(* ~/rpmbuild only when it is whole in built/ (NothingLost); a command     *)
(* that runs several stages comes to each with the ones before it done     *)
(* (Aligned, SetupDone, BuildDone); so when its collect finds nothing left *)
(* to move, what its own rpmbuild made is in built/.                       *)
(***************************************************************************)
EXTENDS BuildPipeline, DownloadCache, SequenceTheorems, TLAPS

WholeCommands == {"run", "setup", "build-rpm"}

\* A command of several stages has still to run the last ones of Setup.
Aligned ==
    cmd \in WholeCommands =>
        /\ Len(todo) <= 12 /\ (cmd = "build-rpm" => Len(todo) <= 3)
        /\ \A i \in 1..Len(todo) : todo[i] = SetupStages[12 - Len(todo) + i]

\* A command that ended has nothing to do.
Ended == rc \in {"ok", "failed"} => Idle

\* The patch loop: those before the next one are applied; elsewhere there is no next.
Patching ==
    /\ nextPatch > 0 => \A p \in PatchNumbers : p < nextPatch => p \in applied
    /\ ~Idle /\ ~At("apply-patches") => nextPatch = 0
    /\ nextPatch > 0 \/ applied # {} => build.custom = "all"

\* What run and setup have done when so many of their stages are left.
SetupDone ==
    cmd \in {"run", "setup"} /\ ~Idle =>
        /\ Len(todo) < 11 => "refresh" \in prepared
        /\ Len(todo) < 9 => "install-packages" \in prepared
        /\ Len(todo) < 6 => "create-user" \in prepared
        /\ Len(todo) < 5 => spec
        /\ Len(todo) \in {3, 4} /\ nextPatch = 0 => applied = {}
        /\ Len(todo) < 4 /\ build.auto => 0 \in deps

\* What a command that builds has done before rpmbuild, and before collect.
BuildDone ==
    cmd \in WholeCommands =>
        /\ Len(todo) = 2 => applied = Wanted
        /\ Len(todo) = 1 => \A f \in Files : [file |-> f, patches |-> Wanted] \in made

\* A stage that began with all it needs has it still, or has begun to collect.
StillReady ==
    ~Idle /\ ready /\ ~At("apply-patches") => Ready(Head(todo)) \/ (At("collect") /\ moved)

IInv == /\ Aligned /\ Ended /\ Patching /\ SetupDone /\ BuildDone /\ StillReady
        /\ NothingLost /\ RunMeansCollected /\ StepsRerunnable /\ RunStagesReady

-----------------------------------------------------------------------------
(* The stages of a command. *)

\* The stages of Setup, those of BuildRPM last.
LEMMA StagesInFull ==
    /\ SetupStages \in Seq(StageNames) /\ Len(SetupStages) = 12
    /\ SetupStages[1] = "record-init" /\ SetupStages[2] = "refresh"
    /\ SetupStages[3] = "setup-repos" /\ SetupStages[4] = "install-packages"
    /\ SetupStages[5] = "fix-annobin" /\ SetupStages[6] = "os-tweaks"
    /\ SetupStages[7] = "create-user" /\ SetupStages[8] = "install-srpm"
    /\ SetupStages[9] = "install-builddeps" /\ SetupStages[10] = "apply-patches"
    /\ SetupStages[11] = "rpmbuild" /\ SetupStages[12] = "collect"
<1> DEFINE s == <<"record-init", "refresh", "setup-repos", "install-packages", "fix-annobin",
                  "os-tweaks", "create-user", "install-srpm", "install-builddeps">>
           t == <<"apply-patches", "rpmbuild", "collect">>
<1>1. /\ s \in Seq(StageNames) /\ Len(s) = 9
      /\ s[1] = "record-init" /\ s[2] = "refresh" /\ s[3] = "setup-repos"
      /\ s[4] = "install-packages" /\ s[5] = "fix-annobin" /\ s[6] = "os-tweaks"
      /\ s[7] = "create-user" /\ s[8] = "install-srpm" /\ s[9] = "install-builddeps"
  <2>1. {"record-init", "refresh", "setup-repos", "install-packages", "fix-annobin", "os-tweaks",
         "create-user", "install-srpm", "install-builddeps"} \subseteq StageNames
    BY DEF StageNames, RootStages, UserStages
  <2> HIDE DEF StageNames
  <2> QED
    BY <2>1
<1>2. /\ t \in Seq(StageNames) /\ Len(t) = 3
      /\ t[1] = "apply-patches" /\ t[2] = "rpmbuild" /\ t[3] = "collect"
  BY DEF StageNames, UserStages
<1>3. SetupStages = s \o t
  BY DEF SetupStages, BuildStages
<1> HIDE DEF s, t
<1>4. /\ s \o t \in Seq(StageNames) /\ Len(s \o t) = 12
      /\ \A i \in 1..12 : (s \o t)[i] = IF i <= 9 THEN s[i] ELSE t[i - 9]
  <2>1. Len(s) + Len(t) = 12
    BY <1>1, <1>2
  <2>2. s \o t \in Seq(StageNames) /\ Len(s \o t) = Len(s) + Len(t)
    BY <1>1, <1>2, ConcatProperties
  <2>3. \A i \in 1..Len(s) + Len(t) : (s \o t)[i] = IF i <= Len(s) THEN s[i] ELSE t[i - Len(s)]
    BY <1>1, <1>2, ConcatProperties
  <2> QED
    BY <1>1, <2>1, <2>2, <2>3
<1>5. ASSUME NEW i \in 1..12 PROVE SetupStages[i] = IF i <= 9 THEN s[i] ELSE t[i - 9]
  BY <1>3, <1>4
<1>6. /\ SetupStages[1] = s[1] /\ SetupStages[2] = s[2] /\ SetupStages[3] = s[3]
      /\ SetupStages[4] = s[4] /\ SetupStages[5] = s[5] /\ SetupStages[6] = s[6]
      /\ SetupStages[7] = s[7] /\ SetupStages[8] = s[8] /\ SetupStages[9] = s[9]
  BY <1>5
<1>7. SetupStages[10] = t[1] /\ SetupStages[11] = t[2] /\ SetupStages[12] = t[3]
  <2>1. 10 - 9 = 1 /\ 11 - 9 = 2 /\ 12 - 9 = 3
    OBVIOUS
  <2> QED
    BY <1>5, <2>1
<1> QED
  BY <1>1, <1>2, <1>3, <1>4, <1>6, <1>7

\* Each command has a stage to begin with, and is aligned with Setup.
LEMMA CommandStages ==
    ASSUME NEW c \in Commands
    PROVE  /\ StagesOf(c) \in Seq(StageNames) /\ StagesOf(c) # <<>>
           /\ c \in {"run", "setup"} => StagesOf(c) = SetupStages
           /\ c = "build-rpm" => Len(StagesOf(c)) = 3
           /\ c \in WholeCommands =>
                 \A i \in 1..Len(StagesOf(c)) : StagesOf(c)[i] = SetupStages[12 - Len(StagesOf(c)) + i]
<1>1. CASE c \in {"run", "setup"}
  <2>1. StagesOf(c) = SetupStages
    BY <1>1 DEF StagesOf
  <2>2. SetupStages \in Seq(StageNames) /\ Len(SetupStages) = 12
    BY StagesInFull
  <2>3. SetupStages # <<>> /\ \A i \in 1..12 : i = 12 - 12 + i
    BY <2>2
  <2> QED
    BY <1>1, <2>1, <2>2, <2>3
<1>2. CASE c = "build-rpm"
  <2>1. StagesOf(c) = <<"apply-patches", "rpmbuild", "collect">>
    BY <1>2 DEF StagesOf, BuildStages
  <2>2. StagesOf(c) \in Seq(StageNames) /\ StagesOf(c) # <<>> /\ Len(StagesOf(c)) = 3
    BY <2>1 DEF StageNames, UserStages
  <2>3. ASSUME NEW i \in 1..3 PROVE StagesOf(c)[i] = SetupStages[9 + i]
    <3>1. i = 1 \/ i = 2 \/ i = 3
      OBVIOUS
    <3> QED
      BY <2>1, <3>1, StagesInFull
  <2>4. \A i \in 1..Len(StagesOf(c)) : StagesOf(c)[i] = SetupStages[12 - Len(StagesOf(c)) + i]
    <3>1. 12 - Len(StagesOf(c)) = 9
      BY <2>2
    <3> QED
      BY <2>2, <2>3, <3>1
  <2> QED
    BY <1>2, <2>2, <2>4
<1>3. CASE c \in StageNames
  <2>1. c \notin WholeCommands
    BY <1>3 DEF StageNames, RootStages, UserStages, WholeCommands
  <2>2. StagesOf(c) = <<c>>
    BY <2>1 DEF StagesOf, WholeCommands
  <2> QED
    BY <1>3, <2>1, <2>2 DEF WholeCommands
<1> QED
  BY <1>1, <1>2, <1>3 DEF Commands

\* What each stage needs, one by one.
ReadyTable ==
    /\ \A s : Ready(s) \in BOOLEAN
    /\ Ready("install-packages") <=> build.auto \/ build.packages
    /\ Ready("install-srpm") <=> "create-user" \in prepared
    /\ Ready("install-builddeps") <=> (build.auto => spec)
    /\ Ready("apply-patches") <=>
          \/ build.custom = "none"
          \/ build.custom = "all" /\ (NPatches > 0 => spec) /\ applied = {}
    /\ Ready("rpmbuild") <=> spec /\ "refresh" \in prepared /\ DepsInstalled
    /\ Ready("collect") <=> built # {}
    /\ \A s : s \notin {"install-packages", "install-srpm", "install-builddeps",
                        "apply-patches", "rpmbuild", "collect"} => Ready(s)

\* Ready, stage by stage.
LEMMA ReadyIs == ReadyTable
<1>1. Ready("install-packages") = (build.auto \/ build.packages)
  BY DEF Ready
<1>2. Ready("install-srpm") = ("create-user" \in prepared)
  BY DEF Ready
<1>3. Ready("install-builddeps") = (build.auto => spec)
  BY DEF Ready
<1>4. Ready("apply-patches") = (\/ build.custom = "none"
                                \/ build.custom = "all" /\ (NPatches > 0 => spec) /\ applied = {})
  BY DEF Ready
<1>5. Ready("rpmbuild") = (spec /\ "refresh" \in prepared /\ DepsInstalled)
  BY DEF Ready
<1>6. Ready("collect") = (built # {})
  BY DEF Ready
<1>7. \A s : s \notin {"install-packages", "install-srpm", "install-builddeps",
                       "apply-patches", "rpmbuild", "collect"} => Ready(s) = TRUE
  BY DEF Ready
<1>8. ASSUME NEW s PROVE Ready(s) \in BOOLEAN
  <2>1. CASE s \in {"install-packages", "install-srpm", "install-builddeps"}
    <3>1. (build.auto => spec) \in BOOLEAN /\ (build.auto \/ build.packages) \in BOOLEAN
          /\ ("create-user" \in prepared) \in BOOLEAN
      OBVIOUS
    <3> QED
      BY <1>1, <1>2, <1>3, <2>1, <3>1, Zenon
  <2>2. CASE s \in {"apply-patches", "rpmbuild", "collect"}
    BY <1>4, <1>5, <1>6, <2>2
  <2>3. CASE s \notin {"install-packages", "install-srpm", "install-builddeps",
                       "apply-patches", "rpmbuild", "collect"}
    BY <1>7, <2>3
  <2> QED
    BY <2>1, <2>2, <2>3
<1> QED
  BY <1>1, <1>2, <1>3, <1>4, <1>5, <1>6, <1>7, <1>8 DEF ReadyTable

\* The stage a command is at.
LEMMA Current ==
    ASSUME TypeOK, ~Idle
    PROVE  /\ todo \in Seq(StageNames) /\ todo # <<>> /\ Len(todo) \in Nat /\ Len(todo) > 0
           /\ Head(todo) \in StageNames /\ Head(todo) = todo[1]
<1>1. todo \in Seq(StageNames) /\ todo # <<>>
  BY DEF TypeOK, Idle
<1> QED
  BY <1>1

\* The next one begins, with what it needs or without.
LEMMA Advanced ==
    ASSUME TypeOK, ~Idle, Advance
    PROVE  /\ todo' = Tail(todo) /\ todo' \in Seq(StageNames) /\ Len(todo') = Len(todo) - 1
           /\ \A i \in 1..Len(todo') : i + 1 \in 1..Len(todo) /\ todo'[i] = todo[i + 1]
           /\ rc' = IF Idle' THEN "ok" ELSE "none"
           /\ ready' \in BOOLEAN
           /\ ~Idle' => ready' = Ready(Head(todo))'
           /\ cmd' = cmd /\ commands' = commands
<1>1. todo \in Seq(StageNames) /\ todo # <<>> /\ todo' = Tail(todo)
  BY Current DEF Advance
<1>2. /\ Tail(todo) \in Seq(StageNames) /\ Len(Tail(todo)) = Len(todo) - 1 /\ Len(todo) \in Nat
      /\ \A i \in 1..Len(Tail(todo)) : Tail(todo)[i] = todo[i + 1]
  BY <1>1, HeadTailProperties, LenProperties
<1>3. \A i \in 1..Len(todo') : i + 1 \in 1..Len(todo) /\ todo'[i] = todo[i + 1]
  BY <1>1, <1>2
<1>4. rc' = (IF Idle' THEN "ok" ELSE "none") /\ cmd' = cmd /\ commands' = commands
  BY <1>1 DEF Advance, Idle
<1>5. ~Idle' => ready' = Ready(Head(todo))'
  BY <1>1 DEF Advance, Idle
<1>6. Idle' => ready' = ready
  BY <1>1 DEF Advance, Idle
<1>7. ReadyTable'
  BY ReadyIs, PTL
<1>8. ready' \in BOOLEAN
  <2>1. CASE Idle'
    BY <1>6, <2>1 DEF TypeOK
  <2>2. CASE ~Idle'
    BY <1>5, <1>7, <2>2 DEF ReadyTable
  <2> QED
    BY <2>1, <2>2
<1> QED
  BY <1>1, <1>2, <1>3, <1>4, <1>5, <1>8

\* The stages that end, the steps within a stage, and the rest.
Ends == \/ \E s \in RootStages : Prepare(s)
        \/ InstallSRPM \/ InstallBuildDeps \/ NoCustomConfig \/ PatchesApplied \/ RPMBuild \/ CollectEnds
Within == \/ CopyPatches \/ ApplyPatch
          \/ \E r \in RPMs : RenameRPM(r) \/ CopyRPM(r) \/ CopyDone(r) \/ RemoveRPM(r)

\* A step begins or ends a stage, is within one, fails, or stutters.
LEMMA StepKinds ==
    /\ Next <=> (\E c \in Commands : Start(c) \/ Refuse(c)) \/ Ends \/ Within \/ Fail \/ Kill
    /\ Ends => ~Idle /\ Advance
    /\ Within => ~Idle /\ UNCHANGED <<build, flow, prepared, spec, deps, made>>
<1>1. Next <=> (\E c \in Commands : Start(c) \/ Refuse(c)) \/ Ends \/ Within \/ Fail \/ Kill
  BY DEF Next, Stage, ApplyPatches, Collect, Ends, Within
<1>2. Ends => ~Idle /\ Advance
  BY DEF Ends, Prepare, InstallSRPM, InstallBuildDeps, NoCustomConfig, PatchesApplied, RPMBuild,
         CollectEnds, At, Idle
<1>3. Within => ~Idle /\ UNCHANGED <<build, flow, prepared, spec, deps, made>>
  <2>1. CASE CopyPatches \/ ApplyPatch
    BY <2>1 DEF CopyPatches, ApplyPatch, At, Idle, rpms
  <2>2. ASSUME NEW r \in RPMs, RenameRPM(r) \/ CopyRPM(r) \/ CopyDone(r) \/ RemoveRPM(r)
        PROVE  ~Idle /\ UNCHANGED <<build, flow, prepared, spec, deps, made>>
    BY <2>2 DEF RenameRPM, CopyRPM, CopyDone, RemoveRPM, At, Idle, tree
  <2> QED
    BY <2>1, <2>2 DEF Within
<1> QED
  BY <1>1, <1>2, <1>3

\* Every step keeps the types.
LEMMA TypeStep == TypeOK /\ [Next]_vars => TypeOK'
<1> SUFFICES ASSUME TypeOK, [Next]_vars PROVE TypeOK'
  OBVIOUS
<1> USE DEF tree, rpms, flow
<1>1. ASSUME NEW c \in Commands, Start(c) PROVE TypeOK'
  <2>1. StagesOf(c) \in Seq(StageNames) /\ Ready(Head(StagesOf(c))) \in BOOLEAN
    BY CommandStages, ReadyIs DEF ReadyTable
  <2>2. 0 \in 0..NPatches + 1 /\ commands' \in 0..MaxCommands
    BY <1>1, MaxCommandsAssumption, NPatchesAssumption DEF Start, TypeOK
  <2> QED
    BY <1>1, <2>1, <2>2 DEF Start, TypeOK
<1>2. ASSUME NEW c \in Commands, Refuse(c) PROVE TypeOK'
  BY <1>2, MaxCommandsAssumption DEF Refuse, TypeOK
<1>3. CASE Ends
  <2>1. /\ todo' \in Seq(StageNames) /\ rc' \in {"none", "ok", "failed"} /\ ready' \in BOOLEAN
        /\ cmd' = cmd /\ commands' = commands
    BY <1>3, StepKinds, Advanced
  <2>2. CASE \E s \in RootStages : Prepare(s)
    BY <2>1, <2>2 DEF Prepare, TypeOK
  <2>3. CASE InstallSRPM \/ NoCustomConfig \/ CollectEnds
    BY <2>1, <2>3 DEF InstallSRPM, NoCustomConfig, CollectEnds, TypeOK
  <2>4. CASE InstallBuildDeps
    BY <2>1, <2>4 DEF InstallBuildDeps, BuildRequires, TypeOK
  <2>5. CASE PatchesApplied
    BY <2>1, <2>5, NPatchesAssumption DEF PatchesApplied, TypeOK
  <2>6. CASE RPMBuild
    <3>1. \A f \in Files : [file |-> f, patches |-> applied] \in RPMs
      BY DEF RPMs, TypeOK
    <3> QED
      BY <2>1, <2>6, <3>1 DEF RPMBuild, NewRPMs, TypeOK
  <2> QED
    BY <1>3, <2>2, <2>3, <2>4, <2>5, <2>6 DEF Ends
<1>4. CASE Within
  <2>1. CASE CopyPatches \/ ApplyPatch
    <3>1. nextPatch' \in 0..NPatches + 1 /\ applied' \subseteq PatchNumbers
      <4>1. CASE CopyPatches
        BY <4>1, NPatchesAssumption DEF CopyPatches, TypeOK
      <4>2. CASE ApplyPatch
        <5>1. nextPatch \in PatchNumbers /\ nextPatch' = nextPatch + 1
              /\ applied' = applied \cup {nextPatch}
          BY <4>2 DEF ApplyPatch
        <5>2. applied \subseteq PatchNumbers
          BY DEF TypeOK
        <5> QED
          BY <5>1, <5>2, NPatchesAssumption DEF PatchNumbers
      <4> QED
        BY <2>1, <4>1, <4>2
    <3> QED
      BY <2>1, <3>1 DEF CopyPatches, ApplyPatch, TypeOK
  <2>2. ASSUME NEW r \in RPMs, RenameRPM(r) \/ CopyRPM(r) \/ CopyDone(r) \/ RemoveRPM(r) PROVE TypeOK'
    BY <2>2 DEF RenameRPM, CopyRPM, CopyDone, RemoveRPM, TypeOK
  <2> QED
    BY <1>4, <2>1, <2>2 DEF Within
<1>5. CASE Fail
  <2>1. Head(todo) \in Commands /\ <<>> \in Seq(StageNames)
    BY <1>5, Current, EmptySeq DEF Fail, Commands
  <2>2. made' \subseteq RPMs /\ built' \subseteq made'
    <3>1. \A f \in Files : [file |-> f, patches |-> applied] \in RPMs
      BY DEF RPMs, TypeOK
    <3>2. NewRPMs \subseteq RPMs
      BY <3>1 DEF NewRPMs
    <3>3. PICK left \in SUBSET NewRPMs : made' = made \cup left /\ built' = built \cup left
      BY <1>5 DEF Fail
    <3> QED
      BY <3>2, <3>3 DEF TypeOK
  <2> QED
    BY <1>5, <2>1, <2>2 DEF Fail, TypeOK
<1>6. CASE Kill
  <2>1. <<>> \in Seq(StageNames)
    BY EmptySeq
  <2>2. 0 \in 0..NPatches + 1
    BY NPatchesAssumption
  <2>3. /\ build' = build /\ dest' = dest /\ commands' = commands
        /\ cmd' = "none" /\ todo' = <<>> /\ rc' = "none" /\ ready' = FALSE
        /\ prepared' = {} /\ deps' = {} /\ made' = {} /\ built' = {}
        /\ spec' = FALSE /\ copied' = FALSE /\ applied' = {} /\ nextPatch' = 0
        /\ moving' = NoRPM /\ moved' = FALSE
    BY <1>6 DEF Kill
  <2> QED
    BY <2>1, <2>2, <2>3 DEF TypeOK
<1>7. CASE UNCHANGED vars
  BY <1>7 DEF vars, TypeOK
<1> QED
  BY <1>1, <1>2, <1>3, <1>4, <1>5, <1>6, <1>7, StepKinds

\* The initial states have the types.
LEMMA InitTyped == Init => TypeOK
<1>1. <<>> \in Seq(StageNames)
  BY EmptySeq
<1>2. 0 \in 0..NPatches + 1 /\ 0 \in 0..MaxCommands
  BY NPatchesAssumption, MaxCommandsAssumption
<1> QED
  BY <1>1, <1>2 DEF Init, TypeOK

\* The state has its type: TypeOK.
THEOREM TypeCorrect == Spec => []TypeOK
BY InitTyped, TypeStep, PTL DEF Spec

\* Collect removes an RPM only when its copy is whole; nothing else removes one.
LEMMA LostStep == TypeOK /\ NothingLost /\ [Next]_vars => NothingLost'
<1> SUFFICES ASSUME TypeOK, NothingLost, [Next]_vars, NEW r \in made'
             PROVE  r \in built' \/ dest'[r] = "whole"
  BY DEF NothingLost
<1> USE DEF tree, rpms, flow, NothingLost
<1>1. CASE RPMBuild
  BY <1>1 DEF RPMBuild
<1>2. CASE Ends /\ ~RPMBuild
  BY <1>2 DEF Ends, Prepare, InstallSRPM, InstallBuildDeps, NoCustomConfig, PatchesApplied, CollectEnds
<1>3. CASE CopyPatches \/ ApplyPatch
  BY <1>3 DEF CopyPatches, ApplyPatch
<1>4. ASSUME NEW s \in RPMs, RenameRPM(s) \/ CopyRPM(s) \/ CopyDone(s) \/ RemoveRPM(s)
      PROVE  r \in built' \/ dest'[r] = "whole"
  BY <1>4 DEF RenameRPM, CopyRPM, CopyDone, RemoveRPM, TypeOK
<1>5. ASSUME NEW c \in Commands, Start(c) \/ Refuse(c) PROVE r \in built' \/ dest'[r] = "whole"
  BY <1>5 DEF Start, Refuse
<1>6. CASE Kill \/ UNCHANGED vars
  BY <1>6 DEF Kill, vars
<1>7. CASE Fail
  <2>1. PICK left : made' = made \cup left /\ built' = built \cup left
    BY <1>7 DEF Fail
  <2> QED
    BY <1>7, <2>1 DEF Fail
<1> QED
  BY <1>1, <1>2, <1>3, <1>4, <1>5, <1>6, <1>7, StepKinds DEF Within

\* An RPM that rpmbuild made is under ~/rpmbuild or whole in built/, at every moment of
\* collect, after every failure and every command, while the container lives that made it:
\* NothingLost (helpers.go:110-120).
THEOREM NothingIsLost == Spec => []NothingLost
<1>1. Init => NothingLost
  BY DEF Init, NothingLost
<1>2. TypeOK /\ NothingLost /\ [Next]_vars => NothingLost'
  BY LostStep
<1> QED
  BY <1>1, <1>2, TypeCorrect, PTL DEF Spec

-----------------------------------------------------------------------------
(* A command that runs several stages. *)

\* The stage it is at tells how many are left.
PlaceTable ==
    /\ Len(todo) \in 1..12
    /\ cmd = "build-rpm" => Len(todo) <= 3
    /\ At("refresh") <=> Len(todo) = 11
    /\ At("install-packages") <=> Len(todo) = 9
    /\ At("create-user") <=> Len(todo) = 6
    /\ At("install-srpm") <=> Len(todo) = 5
    /\ At("install-builddeps") <=> Len(todo) = 4
    /\ At("apply-patches") <=> Len(todo) = 3
    /\ At("rpmbuild") <=> Len(todo) = 2
    /\ At("collect") <=> Len(todo) = 1

\* By Aligned, each stage of such a command has its place in it.
LEMMA Place == TypeOK /\ Aligned /\ cmd \in WholeCommands /\ ~Idle => PlaceTable
<1> SUFFICES ASSUME TypeOK, Aligned, cmd \in WholeCommands, ~Idle PROVE PlaceTable
  OBVIOUS
<1>1. PICK n \in Nat : n = Len(todo) /\ n > 0
  BY Current
<1>2. n \in 1..12
  <2>1. n <= 12
    BY <1>1 DEF Aligned
  <2>2. n \in Nat /\ n > 0
    BY <1>1
  <2> QED
    BY <2>1, <2>2
<1>3. Head(todo) = SetupStages[13 - n]
  <2>1. 12 - n + 1 = 13 - n /\ 1 \in 1..n
    BY <1>1
  <2>2. todo[1] = SetupStages[12 - n + 1]
    BY <1>1, <2>1 DEF Aligned
  <2> QED
    BY <2>1, <2>2, Current
<1>4. \A s : At(s) <=> SetupStages[13 - n] = s
  BY <1>3, Current DEF At
<1>5. \/ (n = 1 /\ 13 - n = 12) \/ (n = 2 /\ 13 - n = 11) \/ (n = 3 /\ 13 - n = 10)
      \/ (n = 4 /\ 13 - n = 9) \/ (n = 5 /\ 13 - n = 8) \/ (n = 6 /\ 13 - n = 7)
      \/ (n = 7 /\ 13 - n = 6) \/ (n = 8 /\ 13 - n = 5) \/ (n = 9 /\ 13 - n = 4)
      \/ (n = 10 /\ 13 - n = 3) \/ (n = 11 /\ 13 - n = 2) \/ (n = 12 /\ 13 - n = 1)
  BY <1>2
<1>6. cmd = "build-rpm" => Len(todo) <= 3
  BY DEF Aligned
<1> QED
  BY <1>1, <1>2, <1>4, <1>5, <1>6, StagesInFull DEF PlaceTable

\* A command goes on to the stage after its first, or ends.
LEMMA AlignedStep == TypeOK /\ Aligned /\ Ended /\ [Next]_vars => Aligned' /\ Ended'
<1> SUFFICES ASSUME TypeOK, Aligned, Ended, [Next]_vars PROVE Aligned' /\ Ended'
  OBVIOUS
<1>1. ASSUME NEW c \in Commands, Start(c) PROVE Aligned' /\ Ended'
  <2>1. todo' = StagesOf(c) /\ cmd' = c /\ rc' = "none"
    BY <1>1 DEF Start
  <2>2. c \in WholeCommands => Len(StagesOf(c)) <= 12 /\ (c = "build-rpm" => Len(StagesOf(c)) <= 3)
    <3>1. CASE c \in {"run", "setup"}
      <4>1. Len(StagesOf(c)) = 12
        BY <3>1, CommandStages, StagesInFull
      <4> QED
        BY <3>1, <4>1
    <3>2. CASE c = "build-rpm"
      <4>1. Len(StagesOf(c)) = 3 /\ 3 <= 12 /\ 3 <= 3
        BY <3>2, CommandStages
      <4> QED
        BY <4>1
    <3> QED
      BY <3>1, <3>2 DEF WholeCommands
  <2> QED
    BY <2>1, <2>2, CommandStages DEF Aligned, Ended
<1>2. ASSUME NEW c \in Commands, Refuse(c) PROVE Aligned' /\ Ended'
  BY <1>2 DEF Refuse, Aligned, Ended, Idle, WholeCommands
<1>3. CASE Ends
  <2>1. ~Idle /\ Advance
    BY <1>3, StepKinds
  <2>2. Len(todo) \in Nat
    BY <2>1, Current
  <2>3. Ended'
    BY <2>1, Advanced DEF Ended
  <2>4. ASSUME cmd \in WholeCommands, NEW i \in 1..Len(todo')
        PROVE  todo'[i] = SetupStages[12 - Len(todo') + i]
    <3>1. i + 1 \in 1..Len(todo) /\ todo'[i] = todo[i + 1] /\ Len(todo') = Len(todo) - 1
      BY <2>1, Advanced
    <3>2. todo[i + 1] = SetupStages[12 - Len(todo) + (i + 1)]
      BY <2>4, <3>1 DEF Aligned
    <3>3. 12 - Len(todo) + (i + 1) = 12 - Len(todo') + i
      BY <2>2, <3>1
    <3> QED
      BY <3>1, <3>2, <3>3
  <2>5. cmd' = cmd /\ Len(todo') <= Len(todo)
    BY <2>1, <2>2, Advanced
  <2> QED
    BY <2>2, <2>3, <2>4, <2>5 DEF Aligned
<1>4. CASE Within
  BY <1>4, StepKinds DEF flow, Aligned, Ended, Idle
<1>5. CASE Fail
  BY <1>5, Current DEF Fail, Aligned, Ended, Idle, WholeCommands, StageNames, RootStages, UserStages
<1>6. CASE Kill
  BY <1>6 DEF Kill, Aligned, Ended, Idle, WholeCommands
<1>7. CASE UNCHANGED vars
  BY <1>7 DEF vars, flow, Aligned, Ended, Idle
<1> QED
  BY <1>1, <1>2, <1>3, <1>4, <1>5, <1>6, <1>7, StepKinds

\* The patch loop applies the patches in order, and only that stage applies any.
LEMMA PatchingStep == TypeOK /\ Ended /\ Patching /\ [Next]_vars => Patching'
<1> SUFFICES ASSUME TypeOK, Ended, Patching, [Next]_vars PROVE Patching'
  OBVIOUS
<1> USE NPatchesAssumption DEF flow, tree
<1>1. ASSUME NEW c \in Commands, Start(c) PROVE Patching'
  BY <1>1 DEF Start, Patching
<1>2. ASSUME NEW c \in Commands, Refuse(c) PROVE Patching'
  BY <1>2 DEF Refuse, Patching, Idle
<1>3. CASE Ends
  <2>1. ~Idle
    BY <1>3, StepKinds
  <2>2. CASE PatchesApplied
    BY <2>2 DEF PatchesApplied, Patching
  <2>3. CASE InstallSRPM
    <3>1. nextPatch = 0
      BY <2>1, <2>3 DEF InstallSRPM, Patching, At
    <3> QED
      BY <2>3, <3>1 DEF InstallSRPM, Patching
  <2>4. CASE NoCustomConfig
    <3>1. nextPatch = 0
      BY <2>4, <2>1 DEF NoCustomConfig, Patching, TypeOK
    <3> QED
      BY <2>4, <3>1 DEF NoCustomConfig, Patching
  <2>5. CASE \/ \E s \in RootStages : Prepare(s)
             \/ InstallBuildDeps \/ RPMBuild \/ CollectEnds
    <3>1. ~At("apply-patches") /\ UNCHANGED <<build, tree>>
      BY <2>5 DEF Prepare, InstallBuildDeps, RPMBuild, CollectEnds, At, RootStages
    <3>2. nextPatch = 0
      BY <2>1, <3>1 DEF Patching
    <3> QED
      BY <3>1, <3>2 DEF Patching
  <2> QED
    BY <1>3, <2>2, <2>3, <2>4, <2>5 DEF Ends
<1>4. CASE CopyPatches
  BY <1>4 DEF CopyPatches, Patching, At, PatchNumbers
<1>5. CASE ApplyPatch
  <2>1. nextPatch' = nextPatch + 1 /\ applied' = applied \cup {nextPatch} /\ nextPatch \in PatchNumbers
        /\ build' = build /\ todo' = todo /\ At("apply-patches")
    BY <1>5 DEF ApplyPatch
  <2>2. ASSUME NEW p \in PatchNumbers, p < nextPatch' PROVE p \in applied'
    BY <2>1, <2>2 DEF Patching, PatchNumbers
  <2>3. nextPatch > 0 /\ At("apply-patches")'
    BY <2>1 DEF PatchNumbers, At
  <2> QED
    BY <2>1, <2>2, <2>3 DEF Patching
<1>6. ASSUME NEW r \in RPMs, RenameRPM(r) \/ CopyRPM(r) \/ CopyDone(r) \/ RemoveRPM(r) PROVE Patching'
  BY <1>6 DEF RenameRPM, CopyRPM, CopyDone, RemoveRPM, Patching, At, Idle
<1>7. CASE Fail
  BY <1>7 DEF Fail, Patching, Idle
<1>8. CASE Kill
  BY <1>8 DEF Kill, Patching
<1>9. CASE UNCHANGED vars
  BY <1>9 DEF vars, Patching, At, Idle
<1> QED
  BY <1>1, <1>2, <1>3, <1>4, <1>5, <1>6, <1>7, <1>8, <1>9, StepKinds DEF Within

\* Nothing but the stages of Setup changes what run and setup have done.
LEMMA SetupDoneStep ==
    TypeOK /\ Aligned /\ Patching /\ SetupDone /\ [Next]_vars => SetupDone'
<1> SUFFICES ASSUME TypeOK, Aligned, Patching, SetupDone, [Next]_vars,
                    cmd' \in {"run", "setup"}, ~Idle'
             PROVE  /\ Len(todo') < 11 => "refresh" \in prepared'
                    /\ Len(todo') < 9 => "install-packages" \in prepared'
                    /\ Len(todo') < 6 => "create-user" \in prepared'
                    /\ Len(todo') < 5 => spec'
                    /\ Len(todo') \in {3, 4} /\ nextPatch' = 0 => applied' = {}
                    /\ Len(todo') < 4 /\ build'.auto => 0 \in deps'
  BY DEF SetupDone
<1> USE DEF flow, tree, rpms
<1>1. ASSUME NEW c \in Commands, Start(c) PROVE Len(todo') = 12
  BY <1>1, CommandStages, StagesInFull DEF Start
<1>2. ASSUME NEW c \in Commands PROVE ~Refuse(c)
  BY DEF Refuse
<1>3. ~Fail /\ ~Kill
  BY DEF Fail, Kill, Idle
<1>4. ASSUME Ends \/ Within
      PROVE  /\ cmd \in {"run", "setup"} /\ ~Idle /\ cmd \in WholeCommands /\ cmd' = cmd
             /\ Len(todo) \in 1..12
             /\ Ends => Len(todo') = Len(todo) - 1 /\ Advance
             /\ Within => Len(todo') = Len(todo)
  BY <1>4, StepKinds, Advanced, Place DEF WholeCommands, PlaceTable
<1>5. CASE Ends
  <2>1. PICK n \in 1..12 : n = Len(todo) /\ Len(todo') = n - 1
    BY <1>4, <1>5
  <2>2. /\ n < 11 => "refresh" \in prepared
        /\ n < 9 => "install-packages" \in prepared
        /\ n < 6 => "create-user" \in prepared
        /\ n < 5 => spec
        /\ n \in {3, 4} /\ nextPatch = 0 => applied = {}
        /\ n < 4 /\ build.auto => 0 \in deps
    BY <1>4, <1>5, <2>1 DEF SetupDone
  <2>3. /\ At("refresh") <=> n = 11
        /\ At("install-packages") <=> n = 9
        /\ At("create-user") <=> n = 6
        /\ At("install-srpm") <=> n = 5
        /\ At("install-builddeps") <=> n = 4
        /\ At("apply-patches") <=> n = 3
        /\ At("rpmbuild") <=> n = 2
        /\ At("collect") <=> n = 1
    BY <1>4, <1>5, <2>1, Place DEF PlaceTable
  <2>4. ~At("apply-patches") => nextPatch = 0
    BY <1>4, <1>5 DEF Patching
  <2>5. ASSUME NEW s \in RootStages, Prepare(s)
        PROVE  At(s) /\ prepared' = prepared \cup {s} /\ UNCHANGED <<build, tree, deps>>
    BY <2>5 DEF Prepare
  <2>6. CASE \E s \in RootStages : Prepare(s)
    <3>1. PICK s \in RootStages : Prepare(s)
      BY <2>6
    <3>2. prepared' = prepared \cup {s} /\ UNCHANGED <<build, tree, deps>>
      BY <2>5, <3>1
    <3>3. /\ n = 11 => s = "refresh"
          /\ n = 9 => s = "install-packages"
          /\ n = 6 => s = "create-user"
          /\ n \notin {5, 4, 3, 2, 1}
      BY <2>3, <2>5, <3>1 DEF At, RootStages
    <3>4. n \in {6, 7, 8, 9, 10, 11, 12}
      BY <3>3
    <3>5. /\ n - 1 < 11 => n = 11 \/ n < 11
          /\ n - 1 < 9 => n = 9 \/ n < 9
          /\ n - 1 < 6 => n = 6
          /\ ~(n - 1 < 5) /\ ~(n - 1 < 4) /\ n - 1 \notin {3, 4}
      BY <3>4
    <3> QED
      BY <2>1, <2>2, <3>2, <3>3, <3>5
  <2>7. CASE InstallSRPM
    <3>1. n = 5 /\ spec' = TRUE /\ applied' = {} /\ prepared' = prepared
      BY <2>3, <2>7 DEF InstallSRPM
    <3> QED
      BY <2>1, <2>2, <3>1
  <2>8. CASE InstallBuildDeps
    <3>1. n = 4 /\ prepared' = prepared /\ UNCHANGED tree /\ build' = build /\ nextPatch = 0
      BY <2>3, <2>4, <2>8 DEF InstallBuildDeps
    <3>2. build.auto => 0 \in deps'
      BY <2>8 DEF InstallBuildDeps, BuildRequires
    <3> QED
      BY <2>1, <2>2, <3>1, <3>2
  <2>9. CASE NoCustomConfig \/ PatchesApplied \/ RPMBuild \/ CollectEnds
    BY <2>1, <2>2, <2>3, <2>9 DEF NoCustomConfig, PatchesApplied, RPMBuild, CollectEnds
  <2> QED
    BY <1>5, <2>6, <2>7, <2>8, <2>9 DEF Ends
<1>6. CASE Within
  <2>1. UNCHANGED <<build, prepared, spec, deps>> /\ todo' = todo
    BY <1>6, StepKinds
  <2>2. Len(todo) \in {3, 4} /\ nextPatch' = 0 => applied' = {}
    <3>1. ASSUME NEW r \in RPMs, RenameRPM(r) \/ CopyRPM(r) \/ CopyDone(r) \/ RemoveRPM(r)
          PROVE  UNCHANGED tree
      BY <3>1 DEF RenameRPM, CopyRPM, CopyDone, RemoveRPM
    <3>2. CASE CopyPatches \/ ApplyPatch
      BY <3>2 DEF CopyPatches, ApplyPatch, PatchNumbers
    <3> QED
      BY <1>4, <1>6, <3>1, <3>2 DEF Within, SetupDone
  <2> QED
    BY <1>4, <1>6, <2>1, <2>2 DEF SetupDone
<1>7. CASE UNCHANGED vars
  BY <1>7 DEF vars, SetupDone, Idle
<1>8. CASE \E c \in Commands : Start(c)
  <2>1. Len(todo') = 12
    BY <1>1, <1>8
  <2>2. ~(12 < 11) /\ ~(12 < 9) /\ ~(12 < 6) /\ ~(12 < 5) /\ ~(12 < 4) /\ 12 \notin {3, 4}
    OBVIOUS
  <2> QED
    BY <2>1, <2>2
<1> QED
  BY <1>2, <1>3, <1>5, <1>6, <1>7, <1>8, StepKinds

\* A command that builds comes to rpmbuild with every patch applied, and to collect
\* with every RPM of that spec made.
LEMMA BuildDoneStep ==
    TypeOK /\ Aligned /\ Patching /\ BuildDone /\ [Next]_vars => BuildDone'
<1> SUFFICES ASSUME TypeOK, Aligned, Patching, BuildDone, [Next]_vars, cmd' \in WholeCommands
             PROVE  /\ Len(todo') = 2 => applied' = Wanted'
                    /\ Len(todo') = 1 => \A f \in Files : [file |-> f, patches |-> Wanted'] \in made'
  BY DEF BuildDone
<1> DEFINE Made(w, m) == \A f \in Files : [file |-> f, patches |-> w] \in m
<1> USE DEF flow, tree, rpms
<1>1. ASSUME NEW c \in Commands, Start(c) PROVE Len(todo') \notin {1, 2}
  <2>1. CASE c \in {"run", "setup"}
    BY <1>1, <2>1, CommandStages, StagesInFull DEF Start
  <2>2. CASE c = "build-rpm"
    <3>1. Len(todo') = 3 /\ 3 \notin {1, 2}
      BY <1>1, <2>2, CommandStages DEF Start
    <3> QED
      BY <3>1
  <2> QED
    BY <1>1, <2>1, <2>2 DEF Start, WholeCommands
<1>2. ASSUME NEW c \in Commands PROVE ~Refuse(c)
  BY DEF Refuse, WholeCommands
<1>3. ~Fail /\ ~Kill
  BY Current DEF Fail, Kill, WholeCommands, StageNames, RootStages, UserStages
<1>4. CASE Ends
  <2>1. ~Idle /\ Advance /\ cmd' = cmd
    BY <1>4, StepKinds, Advanced
  <2>2. PICK n \in 1..12 : n = Len(todo) /\ Len(todo') = n - 1
    BY <2>1, Place, Advanced DEF PlaceTable
  <2>3. (n = 2 => applied = Wanted) /\ (n = 1 => Made(Wanted, made))
    BY <2>1, <2>2 DEF BuildDone
  <2>4. /\ At("apply-patches") <=> n = 3
        /\ At("rpmbuild") <=> n = 2
        /\ At("collect") <=> n = 1
    BY <2>1, <2>2, Place DEF PlaceTable
  <2>5. ASSUME n = 3 PROVE applied' = Wanted'
    <3>1. CASE NoCustomConfig
      <4>1. applied = {} /\ UNCHANGED <<build, applied>>
        BY <3>1 DEF NoCustomConfig, Patching
      <4> QED
        BY <3>1, <4>1 DEF NoCustomConfig, Wanted
    <3>2. CASE PatchesApplied
      <4>1. nextPatch = NPatches + 1 /\ UNCHANGED <<build, applied>>
        BY <3>2 DEF PatchesApplied
      <4>2. \A p \in PatchNumbers : p < nextPatch /\ nextPatch > 0
        BY <4>1, NPatchesAssumption DEF PatchNumbers
      <4>3. applied = PatchNumbers
        BY <4>2 DEF Patching, TypeOK
      <4>4. build.custom = "all"
        BY <4>1, NPatchesAssumption DEF Patching
      <4> QED
        BY <4>1, <4>3, <4>4 DEF Wanted
    <3>3. At("apply-patches")
      BY <2>4, <2>5
    <3> QED
      BY <1>4, <3>1, <3>2, <3>3 DEF Ends, Prepare, InstallSRPM, InstallBuildDeps, RPMBuild, CollectEnds,
                                    At, RootStages
  <2>6. ASSUME n = 2 PROVE Made(Wanted', made')
    <3>1. At("rpmbuild") /\ applied = Wanted
      BY <2>3, <2>4, <2>6
    <3>2. RPMBuild
      BY <1>4, <3>1 DEF Ends, Prepare, InstallSRPM, InstallBuildDeps, NoCustomConfig, PatchesApplied,
                        CollectEnds, At, RootStages
    <3>3. Wanted' = Wanted
      BY <3>2 DEF RPMBuild, Wanted
    <3> QED
      BY <3>1, <3>2, <3>3 DEF RPMBuild, NewRPMs
  <2>7. (n - 1 = 2 => n = 3) /\ (n - 1 = 1 => n = 2)
    OBVIOUS
  <2> QED
    BY <2>2, <2>5, <2>6, <2>7
<1>5. CASE Within
  <2>1. ~Idle /\ UNCHANGED <<build, made, cmd, todo>> /\ Wanted' = Wanted
    BY <1>5, StepKinds DEF Wanted
  <2>2. Len(todo) = 2 => applied' = applied
    <3>1. Len(todo) = 2 => ~At("apply-patches")
      BY <2>1, Place DEF PlaceTable
    <3> QED
      BY <1>5, <3>1 DEF Within, CopyPatches, ApplyPatch, RenameRPM, CopyRPM, CopyDone, RemoveRPM
  <2> QED
    BY <2>1, <2>2 DEF BuildDone
<1>6. CASE UNCHANGED vars
  BY <1>6 DEF vars, BuildDone, Wanted
<1> QED
  BY <1>1, <1>2, <1>3, <1>4, <1>5, <1>6, StepKinds

\* Collect ends when nothing is left to move: what was made is whole in built/.
LEMMA CollectedStep ==
    /\ TypeOK /\ Aligned /\ Ended /\ BuildDone /\ NothingLost /\ RunMeansCollected
    /\ [Next]_vars
    => RunMeansCollected'
<1> SUFFICES ASSUME TypeOK, Aligned, Ended, BuildDone, NothingLost, RunMeansCollected, [Next]_vars,
                    rc' = "ok", cmd' \in WholeCommands, NEW f \in Files
             PROVE  dest'[[file |-> f, patches |-> Wanted']] = "whole"
  BY DEF RunMeansCollected, WholeCommands
<1> DEFINE r == [file |-> f, patches |-> Wanted]
<1> USE DEF flow, tree, rpms
<1>1. CASE CollectEnds
  <2>1. Len(todo) = 1 /\ built = {} /\ UNCHANGED <<build, dest, made>>
    <3>1. ~Idle /\ At("collect") /\ cmd \in WholeCommands
      BY <1>1, StepKinds, Advanced DEF CollectEnds, At, Idle, Ends
    <3> QED
      BY <1>1, <3>1, Place DEF CollectEnds, PlaceTable
  <2>2. r \in made /\ Wanted' = Wanted
    BY <1>1, <2>1, Advanced DEF BuildDone, CollectEnds, Advance, Wanted
  <2> QED
    BY <2>1, <2>2 DEF NothingLost
<1>2. CASE Ends /\ ~CollectEnds
  <2>1. ~Idle /\ cmd \in WholeCommands /\ ~At("collect") /\ Idle'
    <3>1. ~Idle /\ cmd' = cmd /\ Idle'
      BY <1>2, StepKinds, Advanced
    <3>2. ~At("collect")
      BY <1>2 DEF Ends, Prepare, InstallSRPM, InstallBuildDeps, NoCustomConfig, PatchesApplied,
                  RPMBuild, At, RootStages
    <3> QED
      BY <3>1, <3>2
  <2>2. Len(todo) \in 1..12 /\ Len(todo) # 1 /\ Len(todo') = Len(todo) - 1
    BY <1>2, <2>1, Place, StepKinds, Advanced DEF PlaceTable
  <2>3. Len(todo') = 0
    BY <2>1, EmptySeq DEF Idle
  <2> QED
    BY <2>2, <2>3
<1>3. ASSUME NEW c \in Commands PROVE ~Start(c) /\ ~Refuse(c)
  BY DEF Start, Refuse, WholeCommands
<1>4. ~Within /\ ~Fail /\ ~Kill
  BY StepKinds DEF Fail, Kill, Ended
<1>5. CASE UNCHANGED vars
  BY <1>5 DEF vars, RunMeansCollected, Wanted, WholeCommands
<1> QED
  BY <1>1, <1>2, <1>3, <1>4, <1>5, StepKinds

\* What is ready depends on nothing else.
LEMMA SameReady ==
    UNCHANGED <<build, prepared, spec, applied, deps, built>> => \A s : Ready(s)' = Ready(s)
BY DEF Ready, DepsInstalled, PackagesInstalled, BuildRequires

\* RPMs that come can only help.
LEMMA ReadyKept ==
    UNCHANGED <<build, prepared, spec, applied, deps>> /\ built \subseteq built'
        => \A s : Ready(s) => Ready(s)'
<1> SUFFICES ASSUME UNCHANGED <<build, prepared, spec, applied, deps>>, built \subseteq built',
                    NEW s, Ready(s)
             PROVE  Ready(s)'
  OBVIOUS
<1>1. CASE s = "collect"
  BY <1>1 DEF Ready
<1>2. CASE s # "collect"
  BY <1>2 DEF Ready, DepsInstalled, PackagesInstalled, BuildRequires
<1> QED
  BY <1>1, <1>2

\* A stage keeps what it needs until it ends, but for the RPMs collect has moved.
LEMMA StillReadyStep == TypeOK /\ StillReady /\ [Next]_vars => StillReady'
<1> SUFFICES ASSUME TypeOK, StillReady, [Next]_vars, ~Idle', ready', ~At("apply-patches")'
             PROVE  Ready(Head(todo))' \/ (At("collect") /\ moved)'
  BY DEF StillReady
<1> USE DEF flow, tree, rpms
<1>1. ASSUME NEW c \in Commands, Start(c) PROVE Ready(Head(todo))'
  <2>1. ready' = Ready(Head(todo')) /\ \A s : Ready(s)' = Ready(s)
    BY <1>1, SameReady DEF Start
  <2> QED
    BY <2>1
<1>2. ASSUME NEW c \in Commands PROVE ~Refuse(c)
  BY DEF Refuse, Idle
<1>3. ~Fail /\ ~Kill
  BY DEF Fail, Kill, Idle
<1>4. CASE Ends
  BY <1>4, StepKinds, Advanced
<1>5. CASE CopyPatches \/ ApplyPatch
  BY <1>5 DEF CopyPatches, ApplyPatch, At
<1>6. ASSUME NEW r \in RPMs, RenameRPM(r) \/ CopyRPM(r) \/ CopyDone(r) \/ RemoveRPM(r)
      PROVE  Ready(Head(todo))' \/ (At("collect") /\ moved)'
  <2>1. At("collect") /\ At("collect")' /\ UNCHANGED <<todo, ready>> /\ ~Idle
    BY <1>6 DEF RenameRPM, CopyRPM, CopyDone, RemoveRPM, At, Idle
  <2>2. CASE RenameRPM(r) \/ RemoveRPM(r)
    BY <2>1, <2>2 DEF RenameRPM, RemoveRPM
  <2>3. CASE CopyRPM(r) \/ CopyDone(r)
    <3>1. UNCHANGED <<build, prepared, spec, applied, deps, built, moved>>
      BY <2>3 DEF CopyRPM, CopyDone
    <3>2. Ready(Head(todo)) \/ moved
      BY <2>1 DEF StillReady, At
    <3> QED
      BY <2>1, <3>1, <3>2, SameReady
  <2> QED
    BY <1>6, <2>2, <2>3
<1>7. CASE UNCHANGED vars
  <2>1. UNCHANGED <<build, prepared, spec, applied, deps, built, moved, todo, ready>>
    BY <1>7 DEF vars
  <2>2. Ready(Head(todo)) \/ (At("collect") /\ moved)
    BY <2>1 DEF StillReady, At, Idle
  <2> QED
    BY <2>1, <2>2, SameReady DEF At
<1> QED
  BY <1>1, <1>2, <1>3, <1>4, <1>5, <1>6, <1>7, StepKinds DEF Within

\* A stage that fails leaves behind what it found.
LEMMA RerunnableStep ==
    TypeOK /\ Ended /\ StillReady /\ StepsRerunnable /\ [Next]_vars => StepsRerunnable'
<1> SUFFICES ASSUME TypeOK, Ended, StillReady, StepsRerunnable, [Next]_vars,
                    NEW s \in StageNames, s # "apply-patches", rc' = "failed", cmd' = s, ready'
             PROVE  Ready(s)'
  BY DEF StepsRerunnable, Rerunnable
<1> USE DEF flow, tree, rpms
<1>1. ASSUME NEW c \in Commands PROVE ~Start(c) /\ ~Refuse(c)
  BY DEF Start, Refuse, StageNames, RootStages, UserStages
<1>2. ~Ends /\ ~Within /\ ~Kill
  BY StepKinds, Advanced DEF Kill, Ended
<1>3. CASE Fail
  <2>1. ~Idle /\ Head(todo) = s /\ ready /\ (s = "collect" => built # {} \/ ~moved)
    <3>1. ~Idle /\ cmd' = Head(todo) /\ ready' = ready /\ (At("collect") => built # {} \/ ~moved)
      BY <1>3 DEF Fail
    <3>2. At("collect") <=> Head(todo) = "collect"
      BY <3>1 DEF At, Idle
    <3> QED
      BY <3>1, <3>2
  <2>2. Ready(s) \/ (s = "collect" /\ moved)
    BY <2>1 DEF StillReady, At
  <2>3. Ready(s)
    BY <2>1, <2>2, ReadyIs DEF ReadyTable
  <2>4. UNCHANGED <<build, prepared, spec, applied, deps>> /\ built \subseteq built'
    BY <1>3 DEF Fail
  <2> QED
    BY <2>3, <2>4, ReadyKept
<1>4. CASE UNCHANGED vars
  <2>1. UNCHANGED <<build, prepared, spec, applied, deps, built, rc, cmd, ready>>
    BY <1>4 DEF vars
  <2>2. Ready(s)
    BY <2>1 DEF StepsRerunnable, Rerunnable
  <2> QED
    BY <2>1, <2>2, SameReady
<1> QED
  BY <1>1, <1>2, <1>3, <1>4, StepKinds

\* When a stage of run begins, those before it have left what it needs.
LEMMA RunReadyStep ==
    /\ TypeOK /\ Aligned /\ Patching /\ SetupDone /\ BuildDone /\ RunStagesReady
    /\ Aligned' /\ Patching' /\ SetupDone' /\ BuildDone' /\ TypeOK'
    /\ [Next]_vars
    => RunStagesReady'
<1> SUFFICES ASSUME TypeOK, Aligned, Patching, SetupDone, BuildDone, RunStagesReady,
                    Aligned', Patching', SetupDone', BuildDone', TypeOK',
                    [Next]_vars, cmd' = "run", ~Idle', ConfigInOrder'
             PROVE  ready'
  BY DEF RunStagesReady
<1> USE DEF flow, tree, rpms
<1>1. ASSUME NEW c \in Commands, Start(c) PROVE ready'
  <2>1. Head(StagesOf(c)) = "record-init"
    <3>1. StagesOf(c) = SetupStages /\ SetupStages \in Seq(StageNames) /\ SetupStages # <<>>
      BY <1>1, CommandStages DEF Start
    <3> QED
      BY <3>1, StagesInFull
  <2> QED
    BY <1>1, <2>1, ReadyIs DEF Start, ReadyTable
<1>2. ASSUME NEW c \in Commands PROVE ~Refuse(c)
  BY DEF Refuse
<1>3. ~Fail /\ ~Kill
  BY DEF Fail, Kill, Idle
<1>4. CASE Ends
  <2>1. ~Idle /\ Advance /\ cmd = "run" /\ cmd \in WholeCommands /\ ready' = Ready(Head(todo))'
    BY <1>4, StepKinds, Advanced DEF WholeCommands
  <2>2. ReadyTable'
    BY ReadyIs, PTL
  <2>3. PlaceTable' /\ PlaceTable
    <3>1. (TypeOK /\ Aligned /\ cmd \in WholeCommands /\ ~Idle => PlaceTable)'
      BY Place, PTL
    <3> QED
      BY <2>1, <3>1, Place DEF WholeCommands
  <2>4. build' = build
    BY <1>4 DEF Ends, Prepare, InstallSRPM, InstallBuildDeps, NoCustomConfig, PatchesApplied, RPMBuild,
                CollectEnds
  <2>5. PICK n \in 1..12 : n = Len(todo) /\ Len(todo') = n - 1
    BY <2>1, <2>3, Advanced DEF PlaceTable
  <2>6. CASE At("collect")'
    <3>1. At("rpmbuild")
      BY <2>3, <2>5, <2>6 DEF PlaceTable
    <3>2. RPMBuild
      BY <1>4, <3>1 DEF Ends, Prepare, InstallSRPM, InstallBuildDeps, NoCustomConfig, PatchesApplied,
                        CollectEnds, At, RootStages
    <3>3. built' # {}
      BY <3>2, FilesAssumption DEF RPMBuild, NewRPMs
    <3> QED
      BY <2>1, <2>2, <2>6, <3>3 DEF ReadyTable, At
  <2>7. CASE At("rpmbuild")'
    <3>1. Len(todo') = 2
      BY <2>3, <2>7 DEF PlaceTable
    <3>2. /\ "refresh" \in prepared' /\ "install-packages" \in prepared' /\ spec'
          /\ build'.auto => 0 \in deps'
          /\ applied' = Wanted'
      BY <3>1 DEF SetupDone, BuildDone, WholeCommands
    <3>3. DepsInstalled'
      BY <3>2 DEF ConfigInOrder, DepsInstalled, PackagesInstalled, BuildRequires, Wanted
    <3> QED
      BY <2>1, <2>2, <2>7, <3>2, <3>3 DEF ReadyTable, At
  <2>8. CASE At("apply-patches")'
    <3>1. Len(todo') = 3 /\ At("install-builddeps")
      BY <2>3, <2>5, <2>8 DEF PlaceTable
    <3>2. InstallBuildDeps
      BY <1>4, <3>1 DEF Ends, Prepare, InstallSRPM, RPMBuild, NoCustomConfig, PatchesApplied,
                        CollectEnds, At, RootStages
    <3>3. nextPatch' = 0
      BY <2>1, <3>1, <3>2 DEF Patching, At, InstallBuildDeps
    <3>4. applied' = {} /\ spec'
      BY <3>1, <3>3 DEF SetupDone
    <3> QED
      BY <2>1, <2>2, <2>8, <3>4 DEF ReadyTable, At, ConfigInOrder
  <2>9. CASE At("install-builddeps")'
    <3>1. Len(todo') = 4 /\ 4 < 5
      BY <2>3, <2>9 DEF PlaceTable
    <3>2. spec'
      BY <3>1 DEF SetupDone
    <3> QED
      BY <2>1, <2>2, <2>9, <3>2 DEF ReadyTable, At
  <2>10. CASE At("install-srpm")'
    <3>1. Len(todo') = 5 /\ 5 < 6
      BY <2>3, <2>10 DEF PlaceTable
    <3>2. "create-user" \in prepared'
      BY <3>1 DEF SetupDone
    <3> QED
      BY <2>1, <2>2, <2>10, <3>2 DEF ReadyTable, At
  <2>11. CASE At("install-packages")'
    BY <2>1, <2>2, <2>11 DEF ReadyTable, At, ConfigInOrder
  <2> QED
    BY <2>1, <2>2, <2>6, <2>7, <2>8, <2>9, <2>10, <2>11 DEF ReadyTable, At, Idle
<1>5. CASE Within
  BY <1>5, StepKinds DEF RunStagesReady, ConfigInOrder, Idle
<1>6. CASE UNCHANGED vars
  BY <1>6 DEF vars, RunStagesReady, ConfigInOrder, Idle
<1> QED
  BY <1>1, <1>2, <1>3, <1>4, <1>5, <1>6, StepKinds

\* Nothing has been done at first.
LEMMA InitDone == Init => IInv
<1>1. Init => Idle /\ Len(todo) = 0 /\ nextPatch = 0 /\ applied = {} /\ made = {} /\ cmd = "none" /\ rc = "none"
  BY EmptySeq DEF Init, Idle
<1> QED
  BY <1>1 DEF IInv, Aligned, Ended, Patching, SetupDone, BuildDone, StillReady, NothingLost,
              RunMeansCollected, StepsRerunnable, Rerunnable, RunStagesReady, WholeCommands

\* All of it holds in every state: what the later theorems rest on.
THEOREM Invariance == Spec => []IInv
<1>1. TypeOK /\ IInv /\ [Next]_vars => TypeOK' /\ IInv'
  BY TypeStep, AlignedStep, PatchingStep, SetupDoneStep, BuildDoneStep, StillReadyStep, LostStep,
     CollectedStep, RerunnableStep, RunReadyStep DEF IInv
<1> QED
  BY <1>1, InitTyped, InitDone, PTL DEF Spec

\* A run, setup or build-rpm that ends with 0 has left every RPM whole in built/, of a
\* spec with each of the label's patches: RunMeansCollected (steps.go:376-447).
THEOREM RunCollects == Spec => []RunMeansCollected
BY Invariance, PTL DEF IInv

\* A step that had all it needs has it again when it fails, apply-patches apart:
\* StepsRerunnable (REFERENCE.md:276-277).
THEOREM StepsAreRerunnable == Spec => []StepsRerunnable
BY Invariance, PTL DEF IInv

\* No stage of run begins without what it needs, when the config is in order:
\* RunStagesReady (steps.go:143-177, 364-401).
THEOREM RunStagesAreReady == Spec => []RunStagesReady
BY Invariance, PTL DEF IInv
-----------------------------------------------------------------------------
(***************************************************************************)
(* The download cache, whose module this one extends too, for every size   *)
(* of file and number of processes and runs, and whatever is killed when.  *)
(* Runs that take turns never see a partial cached file: while one         *)
(* downloads there is no cached file, and the temporary file holds exactly *)
(* what its only writer has written.  With overlapping runs a partial      *)
(* cached file is still being written, unless a writer of it failed or was *)
(* killed: that is kept for the temporary file as well (Cared).            *)
(***************************************************************************)

\* At most one run is under way.
OneAtATime ==
    ~overlap => \A p, q \in Procs : pc[p] # "idle" /\ pc[q] # "idle" => p = q

\* What the writer of the temporary file has done so far.
Writing ==
    ~overlap => \A p \in Procs :
        /\ pc[p] # "idle" => run[p] \in Inodes
        /\ pc[p] \in {"get", "create", "copy", "close"} => dst = 0
        /\ pc[p] \in {"copy", "close"} =>
              fd[p] = tmp /\ tmp # 0 /\ blocks[tmp] = 1..offset[p]
        /\ pc[p] = "close" => offset[p] = Size

\* A temporary file is left over only while there is no cached one.
NoLeftOver == ~overlap /\ dst # 0 => tmp = 0

CacheInv == CacheTypeOK /\ OneAtATime /\ Writing /\ NoLeftOver /\ CacheWhole

\* Both files, the cached and the temporary one, are whole or cared for.
Healing == CacheHeals /\ (tmp # 0 => Cared(tmp))

-----------------------------------------------------------------------------
\* Every step keeps the types.
LEMMA CacheTypeStep == CacheTypeOK /\ [CacheNext]_cacheVars => CacheTypeOK'
<1> SUFFICES ASSUME CacheTypeOK, [CacheNext]_cacheVars PROVE CacheTypeOK'
  OBVIOUS
<1> USE SizeAssumption, MaxRunsAssumption DEF CacheTypeOK, Goto, Inodes, Whole
<1>1. ASSUME NEW p \in Procs, Step(p) PROVE CacheTypeOK'
  <2>1. CASE StatCache(p)
    BY <2>1 DEF StatCache
  <2>2. CASE Get(p)
    BY <2>2 DEF Get
  <2>3. CASE Create(p)
    <3>1. tmp' \in 0..MaxRuns
      BY <2>3 DEF Create
    <3>2. blocks' \in [Inodes -> SUBSET Whole]
      BY <2>3 DEF Create
    <3>3. fd' \in [Procs -> 0..MaxRuns] /\ offset' \in [Procs -> 0..Size]
      BY <2>3, <3>1 DEF Create
    <3> QED
      BY <2>3, <3>1, <3>2, <3>3 DEF Create
  <2>4. CASE CopyBlock(p)
    <3>1. offset' \in [Procs -> 0..Size] /\ offset'[p] \in Whole
      BY <2>4 DEF CopyBlock
    <3>2. blocks' \in [Inodes -> SUBSET Whole]
      BY <2>4, <3>1 DEF CopyBlock
    <3> QED
      BY <2>4, <3>1, <3>2 DEF CopyBlock
  <2>5. CASE CopyEnds(p)
    BY <2>5 DEF CopyEnds
  <2>6. CASE CopyFails(p)
    <3>1. torn' \subseteq 0..MaxRuns
      BY <2>6 DEF CopyFails
    <3> QED
      BY <2>6, <3>1 DEF CopyFails
  <2>7. CASE Rename(p)
    <3>1. pc' \in [Procs -> {"idle", "get", "create", "copy", "close", "use"}]
      BY <2>7 DEF Rename
    <3>2. dst' \in 0..MaxRuns /\ tmp' \in 0..MaxRuns
      BY <2>7 DEF Rename
    <3> QED
      BY <2>7, <3>1, <3>2 DEF Rename
  <2>8. CASE Use(p)
    BY <2>8 DEF Use
  <2>9. CASE KillRun(p)
    BY <2>9 DEF KillRun
  <2> QED
    BY <1>1, <2>1, <2>2, <2>3, <2>4, <2>5, <2>6, <2>7, <2>8, <2>9 DEF Step
<1>2. CASE UNCHANGED cacheVars
  BY <1>2 DEF cacheVars
<1> QED
  BY <1>1, <1>2 DEF CacheNext

\* Every step keeps the invariant.
LEMMA CacheInvStep == CacheInv /\ [CacheNext]_cacheVars => CacheInv'
<1> SUFFICES ASSUME CacheInv, [CacheNext]_cacheVars PROVE CacheInv'
  OBVIOUS
<1>0. CacheTypeOK /\ CacheTypeOK'
  BY CacheTypeStep DEF CacheInv
<1>a. OneAtATime /\ Writing /\ NoLeftOver /\ CacheWhole
  BY DEF CacheInv
<1> USE <1>0, <1>a, SizeAssumption, MaxRunsAssumption DEF CacheTypeOK, Goto, Inodes, Whole
<1>b. CASE overlap
  <2>1. overlap'
    BY <1>b DEF CacheNext, Step, cacheVars, StatCache, Get, Create, CopyBlock, CopyEnds,
                CopyFails, Rename, Use, KillRun
  <2> QED
    BY <2>1 DEF CacheInv, OneAtATime, Writing, NoLeftOver, CacheWhole
<1>1. ASSUME NEW p \in Procs, Step(p), ~overlap PROVE CacheInv'
  <2>1. CASE StatCache(p)
    <3>1. OneAtATime'
      BY <2>1 DEF StatCache, OneAtATime
    <3>2. Writing'
      BY <2>1 DEF StatCache, Writing
    <3> QED
      BY <2>1, <3>1, <3>2 DEF CacheInv, StatCache, NoLeftOver, CacheWhole
  <2>2. CASE Get(p)
    BY <2>2 DEF CacheInv, Get, OneAtATime, Writing, NoLeftOver, CacheWhole
  <2>3. CASE Create(p)
    <3>1. dst = 0 /\ run[p] \in Inodes /\ tmp' # 0 /\ tmp' \in Inodes
      BY <1>1, <2>3 DEF Create, Writing
    <3>2. blocks'[tmp'] = 1..offset'[p]
      BY <2>3, <3>1 DEF Create
    <3>3. OneAtATime'
      BY <2>3 DEF Create, OneAtATime
    <3>4. Writing'
      BY <2>3, <3>1, <3>2 DEF Create, OneAtATime, Writing
    <3> QED
      BY <2>3, <3>1, <3>3, <3>4 DEF CacheInv, Create, NoLeftOver, CacheWhole
  <2>4. CASE CopyBlock(p)
    <3>1. dst = 0 /\ fd[p] = tmp /\ tmp \in Inodes /\ blocks[tmp] = 1..offset[p]
      BY <1>1, <2>4 DEF CopyBlock, Writing
    <3>2. blocks'[tmp] = 1..offset'[p]
      BY <2>4, <3>1 DEF CopyBlock
    <3>3. OneAtATime'
      BY <2>4 DEF CopyBlock, OneAtATime
    <3>4. Writing'
      BY <2>4, <3>1, <3>2 DEF CopyBlock, OneAtATime, Writing
    <3> QED
      BY <2>4, <3>1, <3>3, <3>4 DEF CacheInv, CopyBlock, NoLeftOver, CacheWhole
  <2>5. CASE CopyEnds(p)
    BY <2>5 DEF CacheInv, CopyEnds, OneAtATime, Writing, NoLeftOver, CacheWhole
  <2>6. CASE CopyFails(p)
    BY <2>6 DEF CacheInv, CopyFails, OneAtATime, Writing, NoLeftOver, CacheWhole
  <2>7. CASE Rename(p)
    <3>1. tmp # 0 /\ blocks[tmp] = Whole /\ dst' = tmp /\ tmp' = 0
      BY <1>1, <2>7 DEF Rename, Writing
    <3>2. OneAtATime' /\ Writing'
      BY <2>7, <3>1 DEF Rename, OneAtATime, Writing
    <3> QED
      BY <2>7, <3>1, <3>2 DEF CacheInv, Rename, NoLeftOver, CacheWhole
  <2>8. CASE Use(p)
    BY <2>8 DEF CacheInv, Use, OneAtATime, Writing, NoLeftOver, CacheWhole
  <2>9. CASE KillRun(p)
    BY <2>9 DEF CacheInv, KillRun, OneAtATime, Writing, NoLeftOver, CacheWhole
  <2> QED
    BY <1>1, <2>1, <2>2, <2>3, <2>4, <2>5, <2>6, <2>7, <2>8, <2>9 DEF Step
<1>2. CASE UNCHANGED cacheVars
  BY <1>2 DEF CacheInv, cacheVars, OneAtATime, Writing, NoLeftOver, CacheWhole
<1> QED
  BY <1>b, <1>1, <1>2 DEF CacheNext

\* The inductive invariant holds in every reachable state.
THEOREM CacheInvariance == CacheSpec => []CacheInv
<1>1. CacheInit => CacheInv
  BY SizeAssumption, MaxRunsAssumption
     DEF CacheInit, CacheInv, CacheTypeOK, Inodes, Whole, OneAtATime, Writing, NoLeftOver, CacheWhole
<1>2. CacheInv /\ [CacheNext]_cacheVars => CacheInv'
  BY CacheInvStep
<1> QED
  BY <1>1, <1>2, PTL DEF CacheSpec

\* The types, whether runs overlap or not (CacheTypeOK of DownloadCache).
THEOREM CacheTypeCorrect == CacheSpec => []CacheTypeOK
<1>1. CacheInit => CacheTypeOK
  BY SizeAssumption, MaxRunsAssumption DEF CacheInit, CacheTypeOK, Inodes, Whole
<1> QED
  BY <1>1, CacheTypeStep, PTL DEF CacheSpec

\* When runs take turns, a file under the cached name is whole at every moment:
\* CacheWhole
\* (helpers.go:28-53).
THEOREM CacheIsWhole == CacheSpec => []CacheWhole
<1>1. CacheInv => CacheWhole
  BY DEF CacheInv
<1> QED
  BY <1>1, CacheInvariance, PTL

\* Every step keeps both files whole or cared for.
LEMMA HealingStep == CacheTypeOK /\ Healing /\ [CacheNext]_cacheVars => Healing'
<1> SUFFICES ASSUME CacheTypeOK, Healing, [CacheNext]_cacheVars PROVE Healing'
  OBVIOUS
<1>0. /\ dst # 0 => dst \in Inodes /\ Cared(dst)
      /\ tmp # 0 => tmp \in Inodes /\ Cared(tmp)
  BY MaxRunsAssumption DEF CacheTypeOK, Inodes, Healing, CacheHeals
<1> USE SizeAssumption, MaxRunsAssumption
<1>1. ASSUME NEW p \in Procs, Step(p) PROVE Healing'
  \* A step that lets nobody go and truncates nothing keeps every inode cared for.
  <2>0. ASSUME blocks' = blocks, torn' = torn, fd' = fd, offset' = offset,
               pc[p] # "copy", pc'[p] # "copy",
               \A q \in Procs : q # p => pc'[q] = pc[q],
               NEW i \in Inodes, Cared(i)
        PROVE  Cared(i)'
    BY <2>0 DEF Cared, Writes
  <2>1. CASE StatCache(p) \/ Get(p) \/ Use(p)
    <3>1. pc[p] # "copy" /\ pc'[p] # "copy" /\ (\A q \in Procs : q # p => pc'[q] = pc[q])
      BY <2>1 DEF StatCache, Get, Use, Goto, CacheTypeOK
    <3>2. UNCHANGED <<dst, tmp, blocks, torn, fd, offset>>
      BY <2>1 DEF StatCache, Get, Use
    <3> QED
      BY <1>0, <2>0, <3>1, <3>2 DEF Healing, CacheHeals
  <2>2. CASE Create(p)
    <3>1. /\ tmp' \in 0..MaxRuns /\ fd'[p] = tmp' /\ offset'[p] = 0 /\ pc'[p] = "copy"
          /\ \A q \in Procs : q # p => /\ fd'[q] = fd[q] /\ offset'[q] = offset[q]
                                       /\ pc'[q] = pc[q]
          /\ pc[p] # "copy" /\ dst' = dst /\ torn' = torn \ {tmp'}
          /\ \A i \in Inodes : i # tmp' => blocks'[i] = blocks[i]
      BY <2>2 DEF Create, Goto, CacheTypeOK
    <3>2. ASSUME NEW i, i = tmp' PROVE Cared(i)'
      <4>1. 1..offset'[p] = {}
        BY <3>1
      <4> QED
        BY <3>1, <3>2, <4>1 DEF Cared, Writes
    <3>3. ASSUME NEW i \in Inodes, i # tmp', Cared(i) PROVE Cared(i)'
      BY <3>1, <3>3 DEF Cared, Writes
    <3> QED
      BY <1>0, <3>1, <3>2, <3>3 DEF Healing, CacheHeals
  <2>3. CASE CopyBlock(p)
    <3>a. offset[p] \in 0..Size /\ offset[p] < Size
      BY <2>3 DEF CopyBlock, CacheTypeOK
    <3>b. offset'[p] = offset[p] + 1 /\ \A q \in Procs : q # p => offset'[q] = offset[q]
      BY <2>3 DEF CopyBlock, CacheTypeOK
    <3>c. offset'[p] \in Whole
      BY <3>a, <3>b DEF Whole
    <3>d. UNCHANGED <<pc, dst, tmp, torn, fd>> /\ pc[p] = "copy"
      BY <2>3 DEF CopyBlock
    <3>1. ASSUME NEW i \in Inodes
          PROVE  /\ blocks[i] \subseteq blocks'[i] /\ blocks'[i] \subseteq Whole
                 /\ fd[p] = i => blocks'[i] = blocks[i] \cup {offset'[p]}
      <4>1. blocks[i] \subseteq Whole
        BY DEF CacheTypeOK
      <4>2. CASE fd[p] = i
        BY <2>3, <3>c, <4>1, <4>2 DEF CopyBlock, CacheTypeOK
      <4>3. CASE fd[p] # i
        BY <2>3, <4>1, <4>3 DEF CopyBlock, CacheTypeOK
      <4> QED
        BY <4>2, <4>3
    <3>2. ASSUME NEW i \in Inodes, Cared(i) PROVE Cared(i)'
      <4>1. CASE blocks[i] = Whole
        BY <3>1, <4>1 DEF Cared
      <4>2. CASE i \in torn
        BY <3>d, <4>2 DEF Cared
      <4>3. ASSUME NEW q \in Procs, Writes(q, i) PROVE Writes(q, i)'
        <5>1. CASE q = p
          <6>1. 1..offset'[p] = (1..offset[p]) \cup {offset'[p]}
            BY <3>a, <3>b
          <6>2. fd'[p] = i /\ pc'[p] = "copy" /\ 1..offset[p] \subseteq blocks[i]
                /\ blocks'[i] = blocks[i] \cup {offset'[p]}
            BY <3>1, <3>d, <4>3, <5>1 DEF Writes
          <6>3. 1..offset'[p] \subseteq blocks'[i]
            BY <6>1, <6>2
          <6> QED
            BY <5>1, <6>2, <6>3 DEF Writes
        <5>2. CASE q # p
          <6>1. offset'[q] = offset[q] /\ blocks[i] \subseteq blocks'[i]
            BY <3>1, <3>b, <5>2
          <6>2. 1..offset'[q] \subseteq blocks'[i]
            BY <4>3, <6>1 DEF Writes
          <6> QED
            BY <3>d, <4>3, <6>2 DEF Writes
        <5> QED
          BY <5>1, <5>2
      <4> QED
        BY <3>2, <4>1, <4>2, <4>3 DEF Cared
    <3> QED
      BY <1>0, <3>d, <3>2 DEF Healing, CacheHeals
  <2>4. CASE CopyEnds(p)
    <3>1. /\ UNCHANGED <<dst, tmp, blocks, torn, fd, offset>> /\ offset[p] = Size
          /\ \A q \in Procs : q # p => pc'[q] = pc[q]
      BY <2>4 DEF CopyEnds, Goto, CacheTypeOK
    <3>2. ASSUME NEW i \in Inodes, Cared(i) PROVE Cared(i)'
      <4>1. blocks[i] \subseteq Whole
        BY DEF CacheTypeOK
      <4>2. Writes(p, i) => blocks[i] = Whole
        BY <3>1, <4>1 DEF Writes, Whole
      <4> QED
        BY <3>1, <3>2, <4>2 DEF Cared, Writes
    <3> QED
      BY <1>0, <3>1, <3>2 DEF Healing, CacheHeals
  <2>5. CASE CopyFails(p) \/ KillRun(p)
    <3>1. /\ UNCHANGED <<dst, blocks, fd, offset>> /\ tmp' \in {0, tmp}
          /\ torn \subseteq torn' /\ (pc[p] = "copy" => fd[p] \in torn')
          /\ \A q \in Procs : q # p => pc'[q] = pc[q]
      BY <2>5 DEF CopyFails, KillRun, Goto, CacheTypeOK
    <3>2. ASSUME NEW i \in Inodes, Cared(i) PROVE Cared(i)'
      BY <3>1, <3>2 DEF Cared, Writes
    <3> QED
      BY <1>0, <3>1, <3>2 DEF Healing, CacheHeals
  <2>6. CASE Rename(p)
    <3>1. /\ UNCHANGED <<blocks, torn, fd, offset>> /\ pc[p] # "copy" /\ pc'[p] # "copy"
          /\ tmp' = 0 /\ dst' \in {dst, tmp} /\ (tmp # 0 => dst' = tmp)
          /\ \A q \in Procs : q # p => pc'[q] = pc[q]
      BY <2>6 DEF Rename, Goto, CacheTypeOK
    <3>2. dst' # 0 => dst' \in Inodes /\ Cared(dst')
      BY <1>0, <3>1
    <3> QED
      BY <2>0, <3>1, <3>2 DEF Healing, CacheHeals
  <2> QED
    BY <1>1, <2>1, <2>2, <2>3, <2>4, <2>5, <2>6 DEF Step
<1>2. CASE UNCHANGED cacheVars
  BY <1>2 DEF cacheVars, Healing, CacheHeals, Cared, Writes
<1> QED
  BY <1>1, <1>2 DEF CacheNext

\* However runs overlap, a partial cached file is still being written, unless a
\* writer of it failed or was killed since it was truncated: CacheHeals
\* (helpers.go:38-53, gitsteps.go:899-914).
THEOREM CacheIsHealed == CacheSpec => []CacheHeals
<1>1. CacheInit => CacheTypeOK /\ Healing
  BY SizeAssumption, MaxRunsAssumption
     DEF CacheInit, CacheTypeOK, Inodes, Whole, Healing, CacheHeals
<1>2. Healing => CacheHeals
  BY DEF Healing
<1> QED
  BY <1>1, <1>2, CacheTypeStep, HealingStep, PTL DEF CacheSpec
=============================================================================
