------------------------- MODULE CandidateBuildProofs -------------------------
(***************************************************************************)
(* What a launch promises of the configuration, for any files and however  *)
(* they are edited.  The launcher sees the -c file twice: when the entry   *)
(* it resolved is still there at the end, and no edit was unseen, it was   *)
(* there all the time (Steady), so the processes of the container, which   *)
(* find out for themselves what to build, built that (Same).               *)
(***************************************************************************)
EXTENDS CandidateBuild, FiniteSetTheorems, TLAPS

Launched == pc \notin {"start", "fatal"}

\* What the launcher resolved is one of the entries the file has had.
Resolved ==
    Launched =>
        /\ want \in Entry /\ want.build \in Builds \ NoURL
        /\ want.build \in seen /\ cand.builds[want.os] \in seen

\* Only one OS has an entry.
Single == ~warned /\ ~unseen /\ Launched =>
    \A o, q \in OSes : cand.builds[o] # NoBuild /\ cand.builds[q] # NoBuild => o = q

\* An entry that is there has been there since the launch.
Steady == ~unseen /\ Launched /\ cand.builds[want.os] = want.build => seen = {want.build}

\* As long as it is, every process resolves it.
Same == ~warned /\ ~unseen /\ seen = {want.build} => \A k \in DOMAIN used : used[k] = want

\* Where the launcher is, by what has been done.
Progress ==
    /\ pc \in {"start", "fatal", "loaded"} => used = <<>>
    /\ pc = "ok" \/ outcome # "none" => Len(used) = Len(Processes)
    /\ outcome # "none" => pc = "done"

\* A merge that happened took the entry that is there.
Merged == outcome = "merged" => cand.builds[want.os] = want.build

\* Nobody has edited the main config: it is what the preflight saw.
Foretold ==
    pc \in {"running", "ok"} /\ "main" \notin touched /\ foretold # "error" =>
        foretold = CheckMergeStatus(main.builds)

\* Nobody has edited what the first process read: the next one can start.
Startable ==
    used # <<>> /\ touched \cap {"cand", "images"} = {} => box.id \in supported /\ Resolves(box)

IInv == /\ TypeOK /\ Resolved /\ Single /\ Steady /\ Same /\ Progress /\ Merged /\ Foretold /\ Startable
        /\ MergedIsBuilt /\ PreflightForetells /\ NoLateRefusal

-----------------------------------------------------------------------------
(* The operators. *)

\* The preflight and the merge give the same three answers.
LEMMA MergeStatus ==
    ASSUME NEW table
    PROVE  CheckMergeStatus(table) \in {"merged", "identical", "differs"}
<1>1. CASE table[want.os] = NoBuild
  BY <1>1 DEF CheckMergeStatus
<1>2. CASE table[want.os] # NoBuild /\ table[want.os] = want.build
  BY <1>2 DEF CheckMergeStatus
<1>3. CASE table[want.os] # NoBuild /\ table[want.os] # want.build
  BY <1>3 DEF CheckMergeStatus
<1> QED
  BY <1>1, <1>2, <1>3

\* A file with at most one entry has it for one OS.
LEMMA OneEntry ==
    ASSUME NEW t, BuildCount(t) = 1 \/ ~(BuildCount(t) > 1)
    PROVE  \A o, q \in OSes : t.builds[o] # NoBuild /\ t.builds[q] # NoBuild => o = q
<1> DEFINE S == {o \in OSes : t.builds[o] # NoBuild}
<1>1. IsFiniteSet(OSes)
  BY FilesAssumption
<1>2. IsFiniteSet(S) /\ Cardinality(S) \in Nat /\ Cardinality(S) = BuildCount(t)
  BY <1>1, FS_Subset, FS_CardinalityType DEF BuildCount
<1>3. Cardinality(S) = 0 \/ Cardinality(S) = 1
  BY <1>2
<1>4. S = {} \/ \E o : S = {o}
  BY <1>2, <1>3, FS_EmptySet, FS_Singleton
<1> QED
  BY <1>4

\* The OS of an image is one of the OSes.
LEMMA ImageOS ==
    ASSUME NEW i \in Images, NEW o \in DOMAIN i
    PROVE  i[o].os \in OSes
BY FilesAssumption

\* RPMDefine accepts what osrelease detects.
LEMMA SupportedDefine ==
    ASSUME NEW o, o.id \in supported
    PROVE  RPMDefine(o)
BY DEF supported, KnownELFamily, RPMDefine

-----------------------------------------------------------------------------
(* The invariant. *)

\* Only what the launcher and the container have done is in their variables.
LEMMA Initially == Init => IInv
<1> SUFFICES ASSUME Init PROVE IInv
  OBVIOUS
<1>1. TypeOK
  <2>1. /\ cand \in Texts /\ main \in Mains /\ images \in Images
        /\ main \in [loads: BOOLEAN, sections: SUBSET OSes, builds: Tables]
        /\ \A o \in OSes \ main.sections : main.builds[o] = NoBuild
    BY FilesAssumption DEF Init
  <2>2. used \in Seq(Entry) /\ Len(used) = 0 /\ Len(Processes) = 3
    BY DEF Init, Processes
  <2> QED
    <3>1. /\ want \in Entry \cup {NoEntry} /\ box \in OSes \cup {NoEntry.os}
          /\ seen \subseteq Builds \cup {NoBuild} /\ touched \subseteq {"cand", "main", "images"}
      BY DEF Init
    <3>2. /\ pc = "start" /\ warned \in BOOLEAN /\ unseen \in BOOLEAN
          /\ foretold = "none" /\ outcome = "none"
      BY DEF Init
    <3>3. Len(used) <= Len(Processes) /\ edits \in 0..MaxEdits
      BY <2>2, MaxEditsAssumption DEF Init
    <3> QED
      BY <2>1, <2>2, <3>1, <3>2, <3>3 DEF TypeOK
<1>2. /\ used = <<>> /\ DOMAIN used = {} /\ pc = "start" /\ outcome = "none"
      /\ ~Launched
  BY DEF Init, Launched
<1>3. Resolved /\ Single /\ Steady /\ Same
  BY <1>2 DEF Resolved, Single, Steady, Same
<1>4. Progress /\ Merged /\ Foretold /\ Startable
  BY <1>2 DEF Progress, Merged, Foretold, Startable
<1>5. MergedIsBuilt /\ PreflightForetells /\ NoLateRefusal
  BY <1>2 DEF MergedIsBuilt, PreflightForetells, NoLateRefusal, Statuses
<1> QED
  BY <1>1, <1>3, <1>4, <1>5 DEF IInv

\* The launcher's first step.
LEMMA LaunchKeeps ==
    ASSUME IInv, NEW o \in OSes, Launch(o)
    PROVE  IInv'
<1> USE DEF IInv
<1>1. /\ pc = "start" /\ used = <<>> /\ outcome = "none"
      /\ UNCHANGED <<files, foretold, outcome, used, unseen, touched, edits>>
  BY DEF Launch, Progress
<1>2. CASE ~Resolves(o)
  <2>1. pc' = "fatal" /\ UNCHANGED <<want, box, warned, seen>>
    BY <1>2 DEF Launch
  <2>2. TypeOK'
    BY <1>1, <2>1 DEF TypeOK, files
  <2> QED
    BY <1>1, <2>1, <2>2 DEF Resolved, Single, Steady, Same, Progress, Merged, Foretold,
         Startable, MergedIsBuilt, PreflightForetells, NoLateRefusal, Launched, files
<1>3. CASE Resolves(o)
  <2>1. /\ pc' = "loaded" /\ want' = [os |-> o, build |-> cand.builds[o]]
        /\ box' = images[o].os /\ warned' = (BuildCount(cand) # 1) /\ seen' = {cand.builds[o]}
    BY <1>3 DEF Launch
  <2>2. o \in DOMAIN images /\ cand.builds[o] \in Builds \ NoURL
    BY <1>3 DEF Resolves
  <2>3. want' \in Entry /\ want'.os = o /\ want'.build = cand.builds[o] /\ box' \in OSes
    BY <2>1, <2>2, ImageOS DEF Entry, TypeOK
  <2>4. TypeOK'
    BY <1>1, <2>1, <2>2, <2>3 DEF TypeOK, files
  <2>5. Single'
    BY <1>1, <2>1, OneEntry DEF Single, files
  <2>6. Resolved' /\ Steady'
    BY <1>1, <2>1, <2>2, <2>3 DEF Resolved, Steady, files
  <2> QED
    BY <1>1, <2>1, <2>4, <2>5, <2>6 DEF Same, Progress, Merged, Foretold, Startable,
         MergedIsBuilt, PreflightForetells, NoLateRefusal, files
<1> QED
  BY <1>2, <1>3

\* The preflight writes down what the merge would say now.
LEMMA PreflightKeeps ==
    ASSUME IInv, Preflight
    PROVE  IInv'
<1> USE DEF IInv
<1>1. /\ pc = "loaded" /\ pc' = "running" /\ used = <<>> /\ outcome = "none"
      /\ touched' = touched \ {"main"}
      /\ foretold' = IF Loads THEN CheckMergeStatus(main.builds) ELSE "error"
      /\ UNCHANGED <<files, want, box, warned, outcome, used, seen, unseen, edits>>
  BY DEF Preflight, Progress
<1>2. foretold' \in Statuses
  BY <1>1, MergeStatus DEF Statuses
<1>3. TypeOK'
  BY <1>1, <1>2 DEF TypeOK, files
<1>4. Foretold'
  BY <1>1 DEF Foretold, CheckMergeStatus, files
<1>5. Resolved' /\ Single' /\ Steady'
  BY <1>1 DEF Resolved, Single, Steady, Launched, files
<1>6. Same' /\ Progress' /\ Merged' /\ Startable'
  BY <1>1 DEF Same, Progress, Merged, Startable, files
<1> QED
  BY <1>1, <1>3, <1>4, <1>5, <1>6 DEF MergedIsBuilt, PreflightForetells, NoLateRefusal, Statuses

\* The container ends, well or not.
LEMMA EndKeeps ==
    ASSUME IInv, BuildEnds \/ StageFails
    PROVE  IInv'
<1> USE DEF IInv
<1>1. /\ pc = "running" /\ pc' \in {"ok", "done"} /\ outcome = "none"
      /\ pc' = "ok" => Len(used) = Len(Processes)
      /\ UNCHANGED <<files, want, box, warned, foretold, outcome, used, history>>
  BY DEF BuildEnds, StageFails, Progress
<1>2. TypeOK'
  BY <1>1 DEF TypeOK, files, history
<1>3. Resolved' /\ Single' /\ Steady'
  BY <1>1 DEF Resolved, Single, Steady, Launched, files, history
<1>4. Same' /\ Progress' /\ Merged'
  BY <1>1 DEF Same, Progress, Merged, files, history
<1>5. Foretold'
  BY <1>1 DEF Foretold, CheckMergeStatus, files, history
<1>6. Startable'
  BY <1>1 DEF Startable, Resolves, files, history
<1> QED
  BY <1>1, <1>2, <1>3, <1>4, <1>5, <1>6 DEF MergedIsBuilt, PreflightForetells, NoLateRefusal,
       history

\* The merge: an entry that is still there is the one the processes built.
LEMMA MergeKeeps ==
    ASSUME IInv, MergeConfig
    PROVE  IInv'
<1> USE DEF IInv
<1>1. /\ pc = "ok" /\ pc' = "done" /\ Len(used) = Len(Processes) /\ outcome = "none"
      /\ UNCHANGED <<cand, images, want, box, warned, foretold, used, history>>
  BY DEF MergeConfig, Progress
<1>2. /\ outcome' \in Statuses
      /\ outcome' # "error" => outcome' = CheckMergeStatus(main.builds)
      /\ main' \in [loads: BOOLEAN, sections: SUBSET OSes, builds: Tables]
      /\ \A o \in OSes \ main'.sections : main'.builds[o] = NoBuild
      /\ outcome' = "merged" => cand.builds[want.os] = want.build
  <2>1. CASE outcome' = "error" /\ UNCHANGED main
    BY <2>1 DEF Statuses, TypeOK
  <2>2. CASE /\ Loads /\ CheckMergeStatus(main.builds) # "merged"
             /\ outcome' = CheckMergeStatus(main.builds) /\ UNCHANGED main
    BY <2>2, MergeStatus DEF Statuses, TypeOK
  <2>3. CASE /\ Loads /\ CheckMergeStatus(main.builds) = "merged" /\ SectionFound
             /\ \E b \in Candidates : main' = [main EXCEPT !.builds[want.os] = b]
             /\ outcome' = "merged"
    <3>1. PICK b \in Candidates : main' = [main EXCEPT !.builds[want.os] = b]
      BY <2>3
    <3>2. b = want.build /\ b = cand.builds[want.os] /\ want.os \in main.sections
      BY <2>3 DEF Candidates, SourceBuilds, SectionFound
    <3>3. b \in Builds
      BY <1>1, <3>2 DEF Resolved, Launched
    <3>4. main' = [loads |-> main.loads, sections |-> main.sections,
                   builds |-> [main.builds EXCEPT ![want.os] = b]]
      BY <3>1 DEF TypeOK
    <3> QED
      BY <2>3, <3>2, <3>3, <3>4 DEF Statuses, TypeOK, Tables
  <2> QED
    BY <2>1, <2>2, <2>3 DEF MergeConfig
<1>3. TypeOK'
  BY <1>1, <1>2 DEF TypeOK, history
<1>4. Resolved' /\ Single' /\ Steady'
  BY <1>1 DEF Resolved, Single, Steady, Launched, history
<1>5. Same' /\ Progress' /\ Merged'
  BY <1>1, <1>2 DEF Same, Progress, Merged, history
<1>6. Foretold' /\ NoLateRefusal'
  BY <1>1 DEF Foretold, NoLateRefusal
<1>7. Startable'
  BY <1>1 DEF Startable, Resolves, history
<1>8. MergedIsBuilt'
  BY <1>1, <1>2 DEF MergedIsBuilt, Steady, Same, Launched, history
<1>9. PreflightForetells'
  <2> SUFFICES ASSUME outcome' \in Statuses \ {"error"}, foretold' # "error",
                      "main" \notin touched'
               PROVE  outcome' = foretold'
    BY DEF PreflightForetells
  <2> QED
    BY <1>1, <1>2 DEF Foretold, history
<1> QED
  BY <1>3, <1>4, <1>5, <1>6, <1>7, <1>8, <1>9

\* A process of the container: as long as the launcher's entry is there, it is the only
\* one a process can resolve.
LEMMA NewRunnerKeeps ==
    ASSUME IInv, NewRunner
    PROVE  IInv'
<1> USE DEF IInv
<1>1. /\ pc = "running" /\ Launched /\ outcome = "none" /\ used \in Seq(Entry)
      /\ touched' = IF used = <<>> THEN touched \ {"cand", "images"} ELSE touched
      /\ UNCHANGED <<files, want, box, warned, foretold, outcome, seen, unseen, edits>>
  BY DEF NewRunner, Progress, Launched, TypeOK
<1>2. Foretold'
  <2>1. "main" \notin touched' => "main" \notin touched
    BY <1>1
  <2>2. pc' \in {"running", "failed"}
    BY DEF NewRunner
  <2> QED
    BY <1>1, <2>1 DEF Foretold, CheckMergeStatus, files
<1>3. CASE Starts
  <2>1. used' = Append(used, [os |-> box, build |-> cand.builds[box]]) /\ pc' = "running"
    BY <1>1, <1>3 DEF NewRunner
  <2>2. box.id \in supported /\ Resolves(box)
    BY <1>3 DEF Starts
  <2>3. cand.builds[box] \in Builds /\ box \in OSes
    <3>1. images \in Images /\ box \in DOMAIN images
      BY <2>2 DEF Resolves, TypeOK
    <3> QED
      BY <2>2, <3>1, FilesAssumption DEF Resolves
  <2> DEFINE e == [os |-> box, build |-> cand.builds[box]]
  <2>4. e \in Entry
    BY <2>3 DEF Entry
  <2>5. ~warned /\ ~unseen /\ seen = {want.build} => e = want
    <3> SUFFICES ASSUME ~warned, ~unseen, seen = {want.build} PROVE e = want
      OBVIOUS
    <3>1. want \in Entry /\ want.build \in Builds /\ cand.builds[want.os] = want.build
      BY <1>1 DEF Resolved
    <3>2. want.os \in OSes /\ cand.builds[want.os] # NoBuild /\ cand.builds[box] # NoBuild
      BY <2>3, <3>1, BuildsAssumption DEF Entry
    <3>3. want.os = box
      BY <1>1, <2>3, <3>2 DEF Single
    <3> QED
      BY <3>1, <3>3 DEF Entry
  <2> HIDE DEF e
  <2>6. /\ used' = Append(used, e) /\ used' \in Seq(Entry) /\ Len(used') = Len(used) + 1
        /\ DOMAIN used' = 1..Len(used) + 1 /\ DOMAIN used = 1..Len(used) /\ Len(used) \in Nat
        /\ \A k \in 1..Len(used) : used'[k] = used[k]
        /\ used'[Len(used) + 1] = e
    BY <1>1, <2>1, <2>4 DEF e
  <2>7. Same'
    <3> SUFFICES ASSUME ~warned, ~unseen, seen = {want.build}, NEW k \in 1..Len(used) + 1
                 PROVE  used'[k] = want
      BY <1>1, <2>6 DEF Same
    <3>1. CASE k = Len(used) + 1
      BY <2>5, <2>6, <3>1
    <3>2. CASE k # Len(used) + 1
      <4>1. k \in 1..Len(used)
        BY <2>6, <3>2
      <4> QED
        BY <2>6, <4>1 DEF Same
    <3> QED
      BY <3>1, <3>2
  <2>8. TypeOK'
    <3>1. Len(used') <= Len(Processes)
      <4>1. Len(used) < Len(Processes) /\ Len(Processes) \in Nat
        BY DEF NewRunner, Processes
      <4> QED
        BY <2>6, <4>1
    <3>2. touched' \subseteq {"cand", "main", "images"}
      BY <1>1 DEF TypeOK
    <3> QED
      BY <1>1, <2>1, <2>6, <3>1, <3>2 DEF TypeOK, files
  <2>9. Resolved' /\ Single' /\ Steady'
    BY <1>1, <2>1 DEF Resolved, Single, Steady, Launched, files
  <2>10. Progress' /\ Merged'
    BY <1>1, <2>1 DEF Progress, Merged, files
  <2>11. Startable'
    BY <1>1, <2>2 DEF Startable, Resolves, files
  <2>12. MergedIsBuilt' /\ PreflightForetells' /\ NoLateRefusal'
    BY <1>1, <2>1 DEF MergedIsBuilt, PreflightForetells, NoLateRefusal, Statuses
  <2> QED
    BY <1>2, <2>7, <2>8, <2>9, <2>10, <2>11, <2>12
<1>4. CASE ~Starts
  <2>1. pc' = "failed" /\ used' = used
    BY <1>1, <1>4 DEF NewRunner
  <2>2. used # <<>> => touched \cap {"cand", "images"} # {}
    <3> SUFFICES ASSUME used # <<>>, touched \cap {"cand", "images"} = {} PROVE FALSE
      OBVIOUS
    <3>1. box.id \in supported /\ Resolves(box)
      BY DEF Startable
    <3> QED
      BY <1>4, <3>1, SupportedDefine DEF Starts
  <2>3. TypeOK'
    <3>1. touched' \subseteq {"cand", "main", "images"}
      BY <1>1 DEF TypeOK
    <3> QED
      BY <1>1, <2>1, <3>1 DEF TypeOK, files
  <2>4. Resolved' /\ Single' /\ Steady' /\ Same'
    BY <1>1, <2>1 DEF Resolved, Single, Steady, Same, Launched, files
  <2>5. Progress' /\ Merged'
    BY <1>1, <2>1 DEF Progress, Merged, files
  <2>6. Startable'
    BY <1>1, <2>1 DEF Startable, Resolves, files
  <2>7. NoLateRefusal'
    BY <1>1, <2>1, <2>2 DEF NoLateRefusal
  <2>8. MergedIsBuilt' /\ PreflightForetells'
    BY <1>1, <2>1 DEF MergedIsBuilt, PreflightForetells, Statuses
  <2> QED
    BY <1>2, <2>3, <2>4, <2>5, <2>6, <2>7, <2>8
<1> QED
  BY <1>3, <1>4

\* An edit of the -c file: an entry that comes back was seen before.
LEMMA EditTextKeeps ==
    ASSUME IInv, NEW t \in Texts, EditText(t)
    PROVE  IInv'
<1> USE DEF IInv
<1> DEFINE entry == t.builds[want.os]
<1>1. /\ pc \in {"loaded", "running", "ok"} /\ Launched /\ outcome = "none" /\ edits < MaxEdits
      /\ edits' = edits + 1 /\ touched' = touched \cup {"cand"} /\ cand' = t
      /\ seen' = seen \cup {entry}
      /\ unseen' = (unseen \/ BuildCount(t) > 1 \/ (entry # cand.builds[want.os] /\ entry \in seen))
      /\ UNCHANGED <<main, images, launcher, used>>
  BY DEF EditText, Editing, Progress, Launched
<1>2. UNCHANGED <<pc, want, box, warned, foretold, outcome>> /\ Launched'
  BY <1>1 DEF launcher, Launched
<1>3. /\ want \in Entry /\ want.os \in OSes /\ want.build \in seen
      /\ want.build \in Builds \ NoURL /\ cand.builds[want.os] \in seen
      /\ entry \in Builds \cup {NoBuild}
  BY <1>1, FilesAssumption DEF Resolved, Entry, Tables
<1> HIDE DEF entry
<1>4. TypeOK'
  <2>1. /\ seen' \subseteq Builds \cup {NoBuild} /\ unseen' \in BOOLEAN
        /\ touched' \subseteq {"cand", "main", "images"} /\ edits' \in 0..MaxEdits
    BY <1>1, <1>3, MaxEditsAssumption DEF TypeOK
  <2> QED
    BY <1>1, <1>2, <2>1 DEF TypeOK
<1>5. Resolved'
  BY <1>1, <1>2, <1>3 DEF Resolved, entry
<1>6. Single'
  <2>1. ~unseen' => ~(BuildCount(t) > 1)
    BY <1>1
  <2> QED
    BY <1>1, <2>1, OneEntry DEF Single
<1>7. Steady'
  <2> SUFFICES ASSUME ~unseen', entry = want.build PROVE seen' = {want.build}
    BY <1>1, <1>2 DEF Steady, entry
  <2>1. ~unseen /\ cand.builds[want.os] = want.build
    BY <1>1, <1>3
  <2> QED
    BY <1>1, <2>1 DEF Steady
<1>8. Same'
  <2> SUFFICES ASSUME ~warned, ~unseen', seen' = {want.build}
               PROVE  \A k \in DOMAIN used : used[k] = want
    BY <1>1, <1>2 DEF Same
  <2>1. ~unseen /\ seen = {want.build}
    BY <1>1, <1>3
  <2> QED
    BY <2>1 DEF Same
<1>9. Progress' /\ Merged' /\ Startable'
  BY <1>1, <1>2 DEF Progress, Merged, Startable
<1>10. Foretold'
  BY <1>1, <1>2 DEF Foretold, CheckMergeStatus
<1>11. MergedIsBuilt' /\ PreflightForetells' /\ NoLateRefusal'
  BY <1>1, <1>2 DEF MergedIsBuilt, PreflightForetells, NoLateRefusal, Statuses
<1> QED
  BY <1>4, <1>5, <1>6, <1>7, <1>8, <1>9, <1>10, <1>11

\* An edit of the other two.
LEMMA EditKeeps ==
    ASSUME IInv, (\E m \in Mains : EditMain(m)) \/ (\E i \in Images : EditImages(i))
    PROVE  IInv'
<1> USE DEF IInv
<1>1. /\ pc \in {"loaded", "running", "ok"} /\ outcome = "none" /\ edits < MaxEdits
      /\ edits' = edits + 1
      /\ UNCHANGED <<cand, launcher, used, seen, unseen>>
      /\ \/ main' \in Mains /\ images' = images /\ touched' = touched \cup {"main"}
         \/ main' = main /\ images' \in Images /\ touched' = touched \cup {"images"}
  BY DEF EditMain, EditImages, Editing, Progress
<1>2. UNCHANGED <<pc, want, box, warned, foretold, outcome>>
  BY <1>1 DEF launcher
<1>3. TypeOK'
  <2>1. /\ main' \in [loads: BOOLEAN, sections: SUBSET OSes, builds: Tables] /\ images' \in Images
        /\ \A o \in OSes \ main'.sections : main'.builds[o] = NoBuild
    <3>1. CASE main' \in Mains /\ images' = images
      BY <3>1, FilesAssumption DEF TypeOK
    <3>2. CASE main' = main /\ images' \in Images
      BY <3>2 DEF TypeOK
    <3> QED
      BY <1>1, <3>1, <3>2
  <2>2. touched' \subseteq {"cand", "main", "images"}
    BY <1>1 DEF TypeOK
  <2>3. edits' \in 0..MaxEdits
    <3>1. edits < MaxEdits /\ edits' = edits + 1 /\ edits \in 0..MaxEdits
      BY <1>1 DEF TypeOK
    <3> QED
      BY <3>1, MaxEditsAssumption
  <2> QED
    BY <1>1, <1>2, <2>1, <2>2, <2>3 DEF TypeOK
<1>4. Resolved' /\ Single' /\ Steady' /\ Same'
  BY <1>1, <1>2 DEF Resolved, Single, Steady, Same, Launched
<1>5. Progress' /\ Merged'
  BY <1>1, <1>2 DEF Progress, Merged
<1>6. Foretold' /\ Startable'
  BY <1>1, <1>2 DEF Foretold, CheckMergeStatus, Startable, Resolves
<1>7. MergedIsBuilt' /\ PreflightForetells' /\ NoLateRefusal'
  BY <1>1, <1>2 DEF MergedIsBuilt, PreflightForetells, NoLateRefusal, Statuses
<1> QED
  BY <1>3, <1>4, <1>5, <1>6, <1>7

\* Every step keeps the invariant.
THEOREM Invariance == Spec => []IInv
<1>1. IInv /\ [Next]_vars => IInv'
  <2> SUFFICES ASSUME IInv, [Next]_vars PROVE IInv'
    OBVIOUS
  <2>1. CASE UNCHANGED vars
    BY <2>1 DEF IInv, vars, files, launcher, history, TypeOK, Resolved, Single, Steady, Same,
         Progress, Merged, Foretold, CheckMergeStatus, Startable, Resolves, MergedIsBuilt,
         PreflightForetells, NoLateRefusal, Launched
  <2> QED
    BY <2>1, LaunchKeeps, PreflightKeeps, EndKeeps, MergeKeeps, NewRunnerKeeps, EditTextKeeps,
       EditKeeps DEF Next
<1> QED
  BY <1>1, Initially, PTL DEF Spec

\* What the launcher and the processes of the container hold is of the types the code
\* gives it; an entry that is compared or merged is a whole one (config.go:76-98).
THEOREM TypeCorrect == Spec => []TypeOK
BY Invariance, PTL DEF IInv

\* A merged entry is the one that every process of the container built with, on the OS
\* it is for, unless the launcher warned or an edit was unseen (host.go:193-195).
THEOREM MergedWasBuilt == Spec => []MergedIsBuilt
BY Invariance, PTL DEF IInv

\* What the preflight says is what the merge does hours later if it does not fail, unless
\* the preflight could not load its files or the main config was edited since
\* (merge.go:57-71, host.go:203-215).
THEOREM PreflightIsRight == Spec => []PreflightForetells
BY Invariance, PTL DEF IInv

\* After the first process, only an edit makes the configuration of a later one fail
\* (steps.go:364-401, config.go:76-98).
THEOREM NoRefusalLater == Spec => []NoLateRefusal
BY Invariance, PTL DEF IInv
=============================================================================
