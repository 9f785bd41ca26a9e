-------------------------- MODULE GitPipelineProofs --------------------------
(***************************************************************************)
(* What the git-based builds promise for any containers, commits and       *)
(* patches.  Whatever fails or overlaps, a src.rpm that reaches an output  *)
(* directory was made of one tree: the stages left tell what the disk      *)
(* holds, and nothing rewrites the tree once it is patched (Built).  When  *)
(* runs are calm, the sidecar describes a src.rpm that is there            *)
(* (Described), so a generated config tells the truth about the only one.  *)
(***************************************************************************)
EXTENDS GitPipeline, FiniteSetTheorems, SequenceTheorems, TLAPS

Left(p) == Len(todo[p])

\* A run has still to do the last stages of its command.
Aligned ==
    \A p \in Procs :
        /\ Left(p) <= 14
        /\ \A i \in 1..Left(p) : todo[p][i] = StagesOf(kind[p])[14 - Left(p) + i]

\* A run that is under way has not ended.
Running == \A p \in Procs : ~Idle(p) => rc[p] = "none"

\* rpmbuild is done: what is left is to copy, and for git-build-src-rpm the sidecar.
Packed(p) == Left(p) \in 1..2 \/ (Left(p) = 3 /\ kind[p] = "src")

\* What the disk of a container holds when so many stages are left.
BuiltIn(p) ==
    /\ Left(p) \in 1..7 => clone[p] \in Trees
    /\ Left(p) \in 1..5 => spec[p] = clone[p]
    /\ Left(p) \in 1..4 => staged[p] = [spec |-> clone[p], tar |-> clone[p]]
    /\ Packed(p) =>
          srpm[p] \in SrcRPMs /\ srpm[p].spec = clone[p] /\ srpm[p].tar = clone[p]
Built == \A p \in Procs : BuiltIn(p)

IInv == TypeOK /\ Aligned /\ Running /\ Built /\ OutputsCoherent

\* Calm runs do not overlap.
Alone == \A p, q \in Procs : p # q => Idle(p) \/ Idle(q)

\* The patches in the tree, on the way to those git-build-config.yaml lists.
PatchedIn(p) ==
    /\ Left(p) \in 8..14 => ~listed[p]
    /\ Left(p) = 7 /\ ~listed[p] => clone[p].patches = {}
    /\ Left(p) = 7 /\ listed[p] => clone[p].patches \cup pending[p] = gitcfg
    /\ Left(p) \in 1..6 => clone[p].patches = gitcfg

\* The src.rpm is being copied, or is copied and the sidecar not yet written.
Labelling(p) == Left(p) \in 1..2 /\ kind[p] = "src"

\* p's src.rpm as the copy leaves it.
Made(p) == [of |-> srpm[p], whole |-> TRUE]
CollectedIn(p) == Left(p) = 1 /\ kind[p] = "src" => Made(p) \in out["src"]

\* Between two runs the sidecar describes a whole src.rpm, if there are any and the last
\* run that got there was not cut off.
Described ==
    \/ lapsed
    \/ \E p \in Procs : Labelling(p)
    \/ out["src"] = {}
    \/ \E s \in out["src"] : s.whole /\ s.of.tar = sidecar

CalmInv == /\ Alone /\ \A p \in Procs : PatchedIn(p) /\ CollectedIn(p)
           /\ IsFiniteSet(out["src"]) /\ Described /\ AnnotationsTrue

-----------------------------------------------------------------------------
(* The stages of a run. *)

\* The last eight stages of a run, from the clone to the end.
LEMMA Stages ==
    ASSUME NEW k \in Kinds
    PROVE  /\ StagesOf(k) \in Seq(Names) /\ Len(StagesOf(k)) = 14
           /\ \A i \in 1..6 : StagesOf(k)[i] \in RootStages
           /\ StagesOf(k)[7] = "git-clone" /\ StagesOf(k)[8] = "git-apply-patches"
           /\ StagesOf(k)[9] = "git-configure" /\ StagesOf(k)[10] = "git-stage"
           /\ k = "src" => /\ StagesOf(k)[11] = "rpmbuild" /\ StagesOf(k)[12] = "collect"
                           /\ StagesOf(k)[13] = "copy" /\ StagesOf(k)[14] = "sidecar"
           /\ k = "rpms" => /\ StagesOf(k)[11] = "git-builddeps" /\ StagesOf(k)[12] = "rpmbuild"
                            /\ StagesOf(k)[13] = "collect" /\ StagesOf(k)[14] = "copy"
<1> DEFINE t == IF k = "src" THEN <<"rpmbuild", "collect", "copy", "sidecar">>
                             ELSE <<"git-builddeps", "rpmbuild", "collect", "copy">>
<1>1. /\ Prep \in Seq(Names) /\ Len(Prep) = 10
      /\ \A i \in 1..6 : Prep[i] \in RootStages
      /\ Prep[7] = "git-clone" /\ Prep[8] = "git-apply-patches"
      /\ Prep[9] = "git-configure" /\ Prep[10] = "git-stage"
  <2>1. Len(Prep) = 10 /\ Prep \in Seq(Names)
    <3>1. {"bootstrap", "setup-repos", "refresh", "install-packages", "fix-annobin",
           "create-user", "git-clone", "git-apply-patches", "git-configure", "git-stage"}
              \subseteq Names
      BY DEF Names
    <3> HIDE DEF Names
    <3> QED
      BY <3>1 DEF Prep
  <2>2. /\ Prep[1] = "bootstrap" /\ Prep[2] = "setup-repos" /\ Prep[3] = "refresh"
        /\ Prep[4] = "install-packages" /\ Prep[5] = "fix-annobin" /\ Prep[6] = "create-user"
        /\ Prep[7] = "git-clone" /\ Prep[8] = "git-apply-patches"
        /\ Prep[9] = "git-configure" /\ Prep[10] = "git-stage"
    BY DEF Prep
  <2>3. \A i \in 1..6 : i = 1 \/ i = 2 \/ i = 3 \/ i = 4 \/ i = 5 \/ i = 6
    OBVIOUS
  <2>4. ASSUME NEW i \in 1..6 PROVE Prep[i] \in RootStages
    BY <2>2, <2>3 DEF RootStages
  <2> QED
    BY <2>1, <2>2, <2>4
<1>2. /\ t \in Seq(Names) /\ Len(t) = 4
      /\ k = "src" => t[1] = "rpmbuild" /\ t[2] = "collect" /\ t[3] = "copy" /\ t[4] = "sidecar"
      /\ k = "rpms" => t[1] = "git-builddeps" /\ t[2] = "rpmbuild" /\ t[3] = "collect"
                       /\ t[4] = "copy"
  <2>1. CASE k = "src"
    <3>1. t = <<"rpmbuild", "collect", "copy", "sidecar">>
      BY <2>1
    <3> HIDE DEF t
    <3> QED
      BY <2>1, <3>1 DEF Names
  <2>2. CASE k = "rpms"
    <3>1. t = <<"git-builddeps", "rpmbuild", "collect", "copy">>
      BY <2>2
    <3> HIDE DEF t
    <3> QED
      BY <2>2, <3>1 DEF Names
  <2> QED
    BY <2>1, <2>2 DEF Kinds
<1>3. StagesOf(k) = Prep \o t
  BY DEF StagesOf
<1> HIDE DEF t
<1>4. /\ Prep \o t \in Seq(Names) /\ Len(Prep \o t) = 14
      /\ \A i \in 1..14 : (Prep \o t)[i] = IF i <= 10 THEN Prep[i] ELSE t[i - 10]
  <2>1. Len(Prep) + Len(t) = 14
    BY <1>1, <1>2
  <2>2. /\ Prep \o t \in Seq(Names) /\ Len(Prep \o t) = Len(Prep) + Len(t)
        /\ \A i \in 1..Len(Prep) + Len(t) :
              (Prep \o t)[i] = IF i <= Len(Prep) THEN Prep[i] ELSE t[i - Len(Prep)]
    BY <1>1, <1>2, ConcatProperties
  <2> QED
    BY <1>1, <2>1, <2>2
<1>5. ASSUME NEW i \in 1..14 PROVE StagesOf(k)[i] = IF i <= 10 THEN Prep[i] ELSE t[i - 10]
  <2>1. (Prep \o t)[i] = IF i <= 10 THEN Prep[i] ELSE t[i - 10]
    BY <1>4
  <2> QED
    BY <1>3, <2>1
<1>6. ASSUME NEW i \in 1..10 PROVE StagesOf(k)[i] = Prep[i]
  BY <1>5
<1>7. StagesOf(k)[11] = t[1] /\ StagesOf(k)[12] = t[2] /\ StagesOf(k)[13] = t[3]
      /\ StagesOf(k)[14] = t[4]
  <2>1. 11 - 10 = 1 /\ 12 - 10 = 2 /\ 13 - 10 = 3 /\ 14 - 10 = 4
    OBVIOUS
  <2> QED
    BY <1>5, <2>1
<1> QED
  BY <1>1, <1>2, <1>3, <1>4, <1>6, <1>7

\* The stage a run is at tells how many are left.
LEMMA Place ==
    ASSUME TypeOK, Aligned, NEW p \in Procs, ~Idle(p)
    PROVE  /\ Left(p) \in 1..14 /\ kind[p] \in Kinds
           /\ At(p, "git-clone") => Left(p) = 8
           /\ At(p, "git-apply-patches") => Left(p) = 7
           /\ At(p, "git-configure") => Left(p) = 6
           /\ At(p, "git-stage") => Left(p) = 5
           /\ At(p, "rpmbuild") =>
                 \/ Left(p) = 4 /\ kind[p] = "src"
                 \/ Left(p) = 3 /\ kind[p] = "rpms"
           /\ At(p, "collect") =>
                 \/ Left(p) = 3 /\ kind[p] = "src"
                 \/ Left(p) = 2 /\ kind[p] = "rpms"
           /\ At(p, "copy") <=>
                 \/ Left(p) = 2 /\ kind[p] = "src"
                 \/ Left(p) = 1 /\ kind[p] = "rpms"
           /\ At(p, "sidecar") <=> Left(p) = 1 /\ kind[p] = "src"
           /\ (\E s \in RootStages : At(p, s)) =>
                 Left(p) \in 9..14 \/ (Left(p) = 4 /\ kind[p] = "rpms")
<1>1. todo[p] \in Seq(Names) /\ todo[p] # <<>> /\ kind[p] \in Kinds
  BY DEF TypeOK, Idle
<1>2. Left(p) \in Nat /\ Left(p) # 0 /\ Head(todo[p]) = todo[p][1]
  BY <1>1 DEF Left
<1>3. Left(p) <= 14 /\ \A i \in 1..Left(p) : todo[p][i] = StagesOf(kind[p])[14 - Left(p) + i]
  BY DEF Aligned
<1>4. Left(p) \in 1..14
  BY <1>2, <1>3
<1>5. Head(todo[p]) = StagesOf(kind[p])[14 - Left(p) + 1]
  BY <1>2, <1>3, <1>4
<1>6. Head(todo[p]) = StagesOf(kind[p])[15 - Left(p)]
  <2>1. 14 - Left(p) + 1 = 15 - Left(p)
    BY <1>2
  <2> QED
    BY <1>5, <2>1
<1>7. /\ Left(p) \in 9..14 => Head(todo[p]) \in RootStages
      /\ Left(p) = 8 => Head(todo[p]) = "git-clone"
      /\ Left(p) = 7 => Head(todo[p]) = "git-apply-patches"
      /\ Left(p) = 6 => Head(todo[p]) = "git-configure"
      /\ Left(p) = 5 => Head(todo[p]) = "git-stage"
  <2>1. 15 - 8 = 7 /\ 15 - 7 = 8 /\ 15 - 6 = 9 /\ 15 - 5 = 10
    OBVIOUS
  <2>2. Left(p) \in 9..14 => 15 - Left(p) \in 1..6
    BY <1>2
  <2> QED
    BY <1>1, <1>6, <2>1, <2>2, Stages
<1>8. /\ kind[p] = "src" =>
            /\ Left(p) = 4 => Head(todo[p]) = "rpmbuild"
            /\ Left(p) = 3 => Head(todo[p]) = "collect"
            /\ Left(p) = 2 => Head(todo[p]) = "copy"
            /\ Left(p) = 1 => Head(todo[p]) = "sidecar"
      /\ kind[p] = "rpms" =>
            /\ Left(p) = 4 => Head(todo[p]) = "git-builddeps"
            /\ Left(p) = 3 => Head(todo[p]) = "rpmbuild"
            /\ Left(p) = 2 => Head(todo[p]) = "collect"
            /\ Left(p) = 1 => Head(todo[p]) = "copy"
  <2>1. 15 - 4 = 11 /\ 15 - 3 = 12 /\ 15 - 2 = 13 /\ 15 - 1 = 14
    OBVIOUS
  <2> QED
    BY <1>1, <1>6, <2>1, Stages
<1>9. /\ Left(p) \in 9..14 \/ Left(p) = 8 \/ Left(p) = 7 \/ Left(p) = 6 \/ Left(p) = 5
            \/ Left(p) = 4 \/ Left(p) = 3 \/ Left(p) = 2 \/ Left(p) = 1
      /\ kind[p] = "src" \/ kind[p] = "rpms"
  BY <1>1, <1>4 DEF Kinds
<1> DEFINE h == Head(todo[p])
           late == {"git-clone", "git-apply-patches", "git-configure", "git-stage", "rpmbuild",
                    "collect", "copy", "sidecar"}
<1>10. /\ \A s : At(p, s) <=> h = s
       /\ (\E s \in RootStages : At(p, s)) <=> h \in RootStages
  BY DEF At
<1>11. RootStages \cap late = {}
  BY DEF RootStages
<1> HIDE DEF h
<1>12. CASE Left(p) \in 9..14
  <2>1. h \in RootStages /\ Left(p) # 1 /\ Left(p) # 2
    BY <1>7, <1>12 DEF h
  <2>2. \A s \in late : ~At(p, s)
    BY <1>10, <1>11, <2>1
  <2> QED
    BY <1>1, <1>4, <1>12, <2>1, <2>2
<1>13. CASE Left(p) \in {5, 6, 7, 8}
  <2>1. h \in {"git-clone", "git-apply-patches", "git-configure", "git-stage"}
    BY <1>7, <1>13 DEF h
  <2>2. h \notin RootStages
    BY <1>11, <2>1
  <2> QED
    BY <1>1, <1>4, <1>7, <1>10, <1>13, <2>1, <2>2 DEF h
<1>14. CASE Left(p) = 4
  <2>1. (kind[p] = "src" /\ h = "rpmbuild") \/ (kind[p] = "rpms" /\ h = "git-builddeps")
    BY <1>8, <1>9, <1>14 DEF h
  <2>2. CASE kind[p] = "src" /\ h = "rpmbuild"
    BY <1>1, <1>4, <1>10, <1>11, <1>14, <2>2
  <2>3. CASE kind[p] = "rpms" /\ h = "git-builddeps"
    BY <1>1, <1>4, <1>10, <1>14, <2>3
  <2> QED
    BY <2>1, <2>2, <2>3
<1>15. CASE Left(p) = 3
  <2>1. (kind[p] = "src" /\ h = "collect") \/ (kind[p] = "rpms" /\ h = "rpmbuild")
    BY <1>8, <1>9, <1>15 DEF h
  <2>2. CASE kind[p] = "src" /\ h = "collect"
    BY <1>1, <1>4, <1>10, <1>11, <1>15, <2>2
  <2>3. CASE kind[p] = "rpms" /\ h = "rpmbuild"
    BY <1>1, <1>4, <1>10, <1>11, <1>15, <2>3
  <2> QED
    BY <2>1, <2>2, <2>3
<1>16. CASE Left(p) = 2
  <2>1. (kind[p] = "src" /\ h = "copy") \/ (kind[p] = "rpms" /\ h = "collect")
    BY <1>8, <1>9, <1>16 DEF h
  <2>2. CASE kind[p] = "src" /\ h = "copy"
    BY <1>1, <1>4, <1>10, <1>11, <1>16, <2>2
  <2>3. CASE kind[p] = "rpms" /\ h = "collect"
    BY <1>1, <1>4, <1>10, <1>11, <1>16, <2>3
  <2> QED
    BY <2>1, <2>2, <2>3
<1>17. CASE Left(p) = 1
  <2>1. (kind[p] = "src" /\ h = "sidecar") \/ (kind[p] = "rpms" /\ h = "copy")
    BY <1>8, <1>9, <1>17 DEF h
  <2>2. CASE kind[p] = "src" /\ h = "sidecar"
    BY <1>1, <1>4, <1>10, <1>11, <1>17, <2>2
  <2>3. CASE kind[p] = "rpms" /\ h = "copy"
    BY <1>1, <1>4, <1>10, <1>11, <1>17, <2>3
  <2> QED
    BY <2>1, <2>2, <2>3
<1> QED
  BY <1>9, <1>12, <1>13, <1>14, <1>15, <1>16, <1>17

\* A run moves to its next stage, and no other run does.
LEMMA Advancing ==
    ASSUME TypeOK, Aligned, Running, NEW p \in Procs, ~Idle(p), Advance(p)
    PROVE  /\ todo' \in [Procs -> Seq(Names)] /\ rc' \in [Procs -> {"none", "ok", "failed"}]
           /\ osDef' \in [Procs -> BOOLEAN] /\ kind' = kind
           /\ Left(p)' = Left(p) - 1
           /\ \A q \in Procs : q # p => todo'[q] = todo[q] /\ rc'[q] = rc[q]
           /\ rc'[p] = "ok" => Left(p) = 1
           /\ Aligned' /\ Running'
<1>1. todo[p] \in Seq(Names) /\ todo[p] # <<>> /\ Left(p) \in 1..14 /\ kind' = kind
  BY Place DEF TypeOK, Idle, Advance
<1>2. /\ Tail(todo[p]) \in Seq(Names) /\ Len(Tail(todo[p])) = Left(p) - 1
      /\ \A i \in 1..Left(p) - 1 : Tail(todo[p])[i] = todo[p][i + 1]
  BY <1>1, HeadTailProperties DEF Left
<1>3. /\ todo' = [todo EXCEPT ![p] = Tail(todo[p])] /\ todo \in [Procs -> Seq(Names)]
      /\ rc' = [rc EXCEPT ![p] = IF Tail(todo[p]) = <<>> THEN "ok" ELSE "none"]
      /\ rc \in [Procs -> {"none", "ok", "failed"}]
      /\ osDef' = [osDef EXCEPT ![p] =
                      Tail(todo[p]) # <<>> /\ Head(Tail(todo[p])) \in RootStages]
      /\ osDef \in [Procs -> BOOLEAN]
  BY DEF Advance, TypeOK
<1>4. /\ todo' \in [Procs -> Seq(Names)] /\ todo'[p] = Tail(todo[p])
      /\ \A q \in Procs : q # p => todo'[q] = todo[q]
  BY <1>2, <1>3
<1>5. /\ rc' \in [Procs -> {"none", "ok", "failed"}]
      /\ rc'[p] = IF Tail(todo[p]) = <<>> THEN "ok" ELSE "none"
      /\ \A q \in Procs : q # p => rc'[q] = rc[q]
  BY <1>3
<1>6. osDef' \in [Procs -> BOOLEAN]
  BY <1>3
<1>7. Left(p)' = Left(p) - 1
  BY <1>2, <1>4 DEF Left
<1>8. Tail(todo[p]) = <<>> => Left(p) = 1
  <2>1. Len(<<>>) = 0
    OBVIOUS
  <2> QED
    BY <1>1, <1>2, <2>1
<1>9. Aligned'
  <2> SUFFICES ASSUME NEW q \in Procs
               PROVE  /\ Len(todo'[q]) <= 14
                      /\ \A i \in 1..Len(todo'[q]) :
                            todo'[q][i] = StagesOf(kind[q])[14 - Len(todo'[q]) + i]
    BY <1>1 DEF Aligned, Left, StagesOf, Prep
  <2>1. CASE q # p
    BY <1>4, <2>1 DEF Aligned, Left
  <2>2. CASE q = p
    <3>1. Len(todo'[p]) = Left(p) - 1
      BY <1>2, <1>4
    <3>2. ASSUME NEW i \in 1..Left(p) - 1
          PROVE  todo'[p][i] = StagesOf(kind[p])[14 - (Left(p) - 1) + i]
      <4>1. i + 1 \in 1..Left(p) /\ 14 - Left(p) + (i + 1) = 14 - (Left(p) - 1) + i
        BY <1>1
      <4>2. todo[p][i + 1] = StagesOf(kind[p])[14 - Left(p) + (i + 1)]
        BY <4>1 DEF Aligned
      <4> QED
        BY <1>2, <1>4, <4>1, <4>2
    <3>3. Left(p) - 1 <= 14
      BY <1>1
    <3> QED
      BY <2>2, <3>1, <3>2, <3>3
  <2> QED
    BY <2>1, <2>2
<1>10. Running'
  <2> SUFFICES ASSUME NEW q \in Procs, todo'[q] # <<>> PROVE rc'[q] = "none"
    BY DEF Running, Idle
  <2>1. CASE q # p
    BY <1>4, <1>5, <2>1 DEF Running, Idle
  <2>2. CASE q = p
    BY <1>4, <1>5, <2>2
  <2> QED
    BY <2>1, <2>2
<1>11. rc'[p] = "ok" => Left(p) = 1
  BY <1>5, <1>8
<1> QED
  BY <1>1, <1>4, <1>5, <1>6, <1>7, <1>9, <1>10, <1>11

-----------------------------------------------------------------------------
(* The tree of a src.rpm, whatever overlaps or fails. *)

\* A step of one run leaves the stages and the disks of the others as they were.
LEMMA OthersBuilt ==
    ASSUME Built, NEW p \in Procs, BuiltIn(p)',
           \A q \in Procs : q # p =>
              /\ todo'[q] = todo[q] /\ kind'[q] = kind[q] /\ clone'[q] = clone[q]
              /\ spec'[q] = spec[q] /\ staged'[q] = staged[q] /\ srpm'[q] = srpm[q]
    PROVE  Built'
<1> SUFFICES ASSUME NEW q \in Procs, q # p PROVE BuiltIn(q)'
  BY DEF Built
<1>1. Left(q)' = Left(q) /\ (Packed(q)' <=> Packed(q))
  BY DEF Left, Packed
<1> QED
  BY <1>1 DEF Built, BuiltIn

\* What each stage finds on its own disk.
LEMMA DiskAt ==
    ASSUME Built, NEW p \in Procs
    PROVE  /\ Left(p) = 7 \/ Left(p) = 6 \/ Left(p) = 5 \/ Left(p) = 1 => clone[p] \in Trees
           /\ Left(p) = 5 => spec[p] = clone[p]
<1>1. BuiltIn(p)
  BY DEF Built
<1>2. 7 \in 1..7 /\ 6 \in 1..7 /\ 5 \in 1..7 /\ 1 \in 1..7 /\ 5 \in 1..5
  OBVIOUS
<1>3. CASE Left(p) = 5
  BY <1>1, <1>2, <1>3 DEF BuiltIn
<1> QED
  BY <1>1, <1>2, <1>3 DEF BuiltIn

\* A step of one run leaves the stages of the others as they were.
LEMMA OthersAligned ==
    ASSUME Aligned, NEW p \in Procs, NEW q \in Procs, q # p,
           todo'[q] = todo[q], kind'[q] = kind[q]
    PROVE  /\ Len(todo'[q]) <= 14
           /\ \A i \in 1..Len(todo'[q]) :
                 todo'[q][i] = StagesOf(kind'[q])[14 - Len(todo'[q]) + i]
<1>1. /\ Len(todo[q]) <= 14
      /\ \A i \in 1..Len(todo[q]) : todo[q][i] = StagesOf(kind[q])[14 - Len(todo[q]) + i]
  BY DEF Aligned, Left
<1> QED
  BY <1>1

\* Either half of a copy keeps the invariant: what comes into the directory is p's src.rpm.
LEMMA CopyKeeps ==
    ASSUME IInv, NEW p \in Procs, ~Idle(p), Packed(p), Left(p) \in 1..3, NEW w \in BOOLEAN,
           Advance(p), out' = WithOutput(p, w),
           UNCHANGED <<clone, listed, pending, spec, staged, srpm, sidecar, lapsed, gitcfg,
                       generated, runs, edits>>
    PROVE  IInv'
<1> USE DEF IInv
<1>1. srpm[p] \in SrcRPMs /\ Coherent(srpm[p])
  BY DEF Built, BuiltIn, Coherent
<1>2. /\ out' \in [Kinds -> SUBSET Outputs]
      /\ \A k \in Kinds : out'[k] \subseteq out[k] \cup {[of |-> srpm[p], whole |-> w]}
  <2>1. [of |-> srpm[p], whole |-> w] \in Outputs
    BY <1>1 DEF Outputs
  <2> QED
    BY <2>1 DEF TypeOK, WithOutput, OutputSubdir
<1>3. TypeOK' /\ Aligned' /\ Running' /\ Left(p)' = Left(p) - 1 /\ kind' = kind
      /\ \A q \in Procs : q # p => todo'[q] = todo[q]
  BY <1>2, Advancing DEF TypeOK
<1>4. Built'
  <2>1. Left(p)' \in 0..2 /\ (Packed(p)' => Packed(p))
    BY <1>3 DEF Packed
  <2>2. /\ Left(p)' \in 1..7 => Left(p) \in 1..7
        /\ Left(p)' \in 1..5 => Left(p) \in 1..5
        /\ Left(p)' \in 1..4 => Left(p) \in 1..4
    BY <2>1
  <2>3. BuiltIn(p)'
    BY <2>1, <2>2 DEF Built, BuiltIn
  <2> QED
    BY <1>3, <2>3, OthersBuilt
<1>5. OutputsCoherent'
  <2> SUFFICES ASSUME NEW k \in Kinds, NEW s \in out'[k] PROVE Coherent(s.of)
    BY DEF OutputsCoherent, Coherent
  <2> QED
    BY <1>1, <1>2 DEF OutputsCoherent
<1> QED
  BY <1>3, <1>4, <1>5

\* Every step of every action keeps the invariant.
THEOREM Invariance == Spec => []IInv
<1>1. Init => IInv
  <2> SUFFICES ASSUME Init PROVE IInv
    OBVIOUS
  <2>1. todo \in [Procs -> Seq(Names)] /\ \A p \in Procs : todo[p] = <<>> /\ Left(p) = 0
    BY DEF Init, Left
  <2>2. TypeOK
    <3>1. out \in [Kinds -> SUBSET Outputs] /\ kind \in [Procs -> Kinds]
      BY DEF Init, Kinds
    <3>2. /\ rc \in [Procs -> {"none", "ok", "failed"}] /\ osDef \in [Procs -> BOOLEAN]
          /\ listed \in [Procs -> BOOLEAN] /\ pending \in [Procs -> SUBSET Patches]
          /\ lapsed \in BOOLEAN /\ gitcfg \subseteq Patches
      BY DEF Init
    <3>3. /\ clone \in [Procs -> Trees \cup {Nothing}] /\ spec \in [Procs -> Trees \cup {Nothing}]
          /\ staged \in [Procs -> Staged \cup {Nothing}] /\ srpm \in [Procs -> SrcRPMs \cup {Nothing}]
          /\ sidecar \in Trees \cup {Nothing, Torn} /\ generated \in Generated \cup {Nothing}
      BY DEF Init
    <3>4. runs \in 0..MaxRuns /\ edits \in 0..MaxEdits
      BY BoundsAssumption DEF Init
    <3> QED
      BY <2>1, <3>1, <3>2, <3>3, <3>4 DEF TypeOK
  <2>3. Aligned
    BY <2>1 DEF Aligned
  <2>4. Running
    BY <2>1 DEF Running, Idle
  <2>5. Built
    BY <2>1 DEF Built, BuiltIn, Packed
  <2>6. OutputsCoherent
    BY DEF Init, OutputsCoherent
  <2> QED
    BY <2>2, <2>3, <2>4, <2>5, <2>6 DEF IInv
<1>2. IInv /\ [Next]_vars => IInv'
  <2> SUFFICES ASSUME IInv, [Next]_vars PROVE IInv'
    OBVIOUS
  <2> USE DEF IInv
  <2>1. ASSUME NEW p \in Procs, NEW k \in Kinds, Launch(p, k) PROVE IInv'
    <3>1. /\ StagesOf(k) \in Seq(Names) /\ Len(StagesOf(k)) = 14
      BY Stages
    <3>2. TypeOK'
      BY <2>1, <3>1, BoundsAssumption DEF Launch, TypeOK
    <3>3. /\ kind'[p] = k /\ todo'[p] = StagesOf(k)
          /\ \A q \in Procs : q # p =>
                /\ kind'[q] = kind[q] /\ todo'[q] = todo[q] /\ rc'[q] = rc[q]
                /\ clone'[q] = clone[q] /\ spec'[q] = spec[q] /\ staged'[q] = staged[q]
                /\ srpm'[q] = srpm[q]
          /\ rc'[p] = "none" /\ out' = out
      BY <2>1 DEF Launch, TypeOK
    <3>4. Aligned'
      <4> SUFFICES ASSUME NEW q \in Procs
                   PROVE  /\ Len(todo'[q]) <= 14
                          /\ \A i \in 1..Len(todo'[q]) :
                                todo'[q][i] = StagesOf(kind'[q])[14 - Len(todo'[q]) + i]
        BY DEF Aligned, Left, StagesOf, Prep
      <4>1. CASE q # p
        BY <3>3, <4>1, OthersAligned
      <4>2. CASE q = p
        <5>1. \A i \in 1..14 : 14 - 14 + i = i
          OBVIOUS
        <5>2. todo'[q] = StagesOf(k) /\ kind'[q] = k /\ Len(todo'[q]) = 14
          BY <3>1, <3>3, <4>2
        <5>3. \A i \in 1..14 : todo'[q][i] = StagesOf(kind'[q])[14 - 14 + i]
          BY <5>1, <5>2
        <5> QED
          BY <5>2, <5>3
      <4> QED
        BY <4>1, <4>2
    <3>5. Running'
      BY <3>3 DEF Running, Idle
    <3>6. Built'
      <4>1. Left(p)' = 14
        BY <3>1, <3>3 DEF Left
      <4>2. BuiltIn(p)'
        BY <4>1 DEF BuiltIn, Packed
      <4> QED
        BY <3>3, <4>2, OthersBuilt
    <3>7. OutputsCoherent'
      BY <3>3 DEF OutputsCoherent, Coherent
    <3> QED
      BY <3>2, <3>4, <3>5, <3>6, <3>7
  <2>2. ASSUME NEW p \in Procs, Fail(p) PROVE IInv'
    <3>1. /\ todo' \in [Procs -> Seq(Names)] /\ todo'[p] = <<>> /\ Len(todo'[p]) = 0
          /\ \A q \in Procs : q # p => todo'[q] = todo[q] /\ rc'[q] = rc[q]
          /\ UNCHANGED <<kind, clone, spec, staged, srpm, out>>
      BY <2>2 DEF Fail, TypeOK, inside, shared
    <3>2. TypeOK'
      BY <2>2, <3>1 DEF Fail, TypeOK, inside, shared
    <3>3. Aligned'
      <4> SUFFICES ASSUME NEW q \in Procs
                   PROVE  /\ Len(todo'[q]) <= 14
                          /\ \A i \in 1..Len(todo'[q]) :
                                todo'[q][i] = StagesOf(kind'[q])[14 - Len(todo'[q]) + i]
        BY DEF Aligned, Left, StagesOf, Prep
      <4>1. CASE q # p
        BY <3>1, <4>1, OthersAligned
      <4>2. CASE q = p
        BY <3>1, <4>2
      <4> QED
        BY <4>1, <4>2
    <3>4. Running'
      BY <3>1 DEF Running, Idle
    <3>5. Built'
      <4>1. Left(p)' = 0
        BY <3>1 DEF Left
      <4>2. BuiltIn(p)'
        BY <4>1 DEF BuiltIn, Packed
      <4> QED
        BY <3>1, <4>2, OthersBuilt
    <3>6. OutputsCoherent'
      BY <3>1 DEF OutputsCoherent, Coherent
    <3> QED
      BY <3>2, <3>3, <3>4, <3>5, <3>6
  <2>3. ASSUME NEW p \in Procs, RootStage(p) PROVE IInv'
    <3>1. /\ Advance(p) /\ ~Idle(p) /\ \E s \in RootStages : At(p, s)
          /\ UNCHANGED <<clone, listed, pending, spec, staged, srpm, shared>>
      BY <2>3 DEF RootStage, At
    <3>2. /\ Left(p) \in 9..14 \/ (Left(p) = 4 /\ kind[p] = "rpms")
      BY <3>1, Place
    <3>3. TypeOK' /\ Aligned' /\ Running' /\ Left(p)' = Left(p) - 1 /\ kind' = kind
          /\ \A q \in Procs : q # p => todo'[q] = todo[q]
      BY <3>1, Advancing DEF TypeOK, shared
    <3>4. Built'
      <4>1. Left(p)' \in 8..13 \/ (Left(p)' = 3 /\ kind'[p] = "rpms" /\ Left(p) = 4)
        BY <3>2, <3>3
      <4>2. BuiltIn(p)'
        BY <3>1, <4>1 DEF Built, BuiltIn, Packed
      <4> QED
        BY <3>1, <3>3, <4>2, OthersBuilt
    <3>5. OutputsCoherent'
      BY <3>1 DEF OutputsCoherent, Coherent, shared
    <3> QED
      BY <3>3, <3>4, <3>5
  <2>4. ASSUME NEW p \in Procs, Clone(p) PROVE IInv'
    <3>1. /\ Advance(p) /\ ~Idle(p) /\ At(p, "git-clone")
          /\ UNCHANGED <<listed, pending, spec, staged, srpm, shared>>
      BY <2>4 DEF Clone, At
    <3>2. clone' \in [Procs -> Trees \cup {Nothing}] /\ clone'[p] \in Trees
          /\ \A q \in Procs : q # p => clone'[q] = clone[q]
      <4>1. PICK r \in Revs : clone' = [clone EXCEPT ![p] = [rev |-> r, patches |-> {}]]
        BY <2>4 DEF Clone
      <4>2. [rev |-> r, patches |-> {}] \in Trees
        BY DEF Trees
      <4> QED
        BY <4>1, <4>2 DEF TypeOK
    <3>3. TypeOK' /\ Aligned' /\ Running' /\ Left(p)' = Left(p) - 1 /\ kind' = kind
          /\ \A q \in Procs : q # p => todo'[q] = todo[q]
      BY <3>1, <3>2, Advancing DEF TypeOK, shared
    <3>4. Built'
      <4>1. Left(p)' = 7
        BY <3>1, <3>3, Place
      <4>2. BuiltIn(p)'
        BY <3>2, <4>1 DEF BuiltIn, Packed
      <4> QED
        BY <3>1, <3>2, <3>3, <4>2, OthersBuilt
    <3>5. OutputsCoherent'
      BY <3>1 DEF OutputsCoherent, Coherent, shared
    <3> QED
      BY <3>3, <3>4, <3>5
  <2>5. ASSUME NEW p \in Procs, LoadPatches(p) PROVE IInv'
    <3>1. UNCHANGED <<kind, todo, rc, osDef, clone, spec, staged, srpm, shared>>
      BY <2>5 DEF LoadPatches
    <3>2. TypeOK'
      BY <2>5 DEF LoadPatches, TypeOK, shared
    <3> QED
      BY <3>1, <3>2 DEF Aligned, Left, Running, Idle, Built, BuiltIn, Packed, OutputsCoherent, Coherent,
                        StagesOf, Prep, shared
  <2>6. ASSUME NEW p \in Procs, ApplyPatch(p) PROVE IInv'
    <3>1. /\ ~Idle(p) /\ At(p, "git-apply-patches")
          /\ UNCHANGED <<kind, todo, rc, osDef, listed, spec, staged, srpm, shared>>
      BY <2>6 DEF ApplyPatch, At
    <3>2. Left(p) = 7 /\ clone[p] \in Trees
      <4>1. Left(p) = 7
        BY <3>1, Place
      <4> QED
        BY <4>1, DiskAt
    <3>3. /\ clone' \in [Procs -> Trees \cup {Nothing}] /\ clone'[p] \in Trees
          /\ \A q \in Procs : q # p => clone'[q] = clone[q]
          /\ pending' \in [Procs -> SUBSET Patches]
      <4>1. PICK x \in pending[p] :
               /\ pending' = [pending EXCEPT ![p] = @ \ {x}]
               /\ clone' = [clone EXCEPT ![p] = [rev |-> @.rev, patches |-> @.patches \cup {x}]]
        BY <2>6 DEF ApplyPatch
      <4>2. [rev |-> clone[p].rev, patches |-> clone[p].patches \cup {x}] \in Trees
        BY <3>2 DEF Trees, TypeOK
      <4> QED
        BY <4>1, <4>2 DEF TypeOK
    <3>4. TypeOK'
      <4>1. /\ UNCHANGED <<kind, todo, rc, osDef, listed, spec, staged, srpm, out, sidecar, lapsed,
                            gitcfg, generated, runs, edits>>
            /\ clone' \in [Procs -> Trees \cup {Nothing}] /\ pending' \in [Procs -> SUBSET Patches]
        BY <3>1, <3>3 DEF shared
      <4> QED
        BY <4>1 DEF TypeOK
    <3>5. Built'
      <4>1. Left(p)' = 7
        BY <3>1, <3>2 DEF Left
      <4>2. BuiltIn(p)'
        BY <3>3, <4>1 DEF BuiltIn, Packed
      <4> QED
        BY <3>1, <3>3, <4>2, OthersBuilt DEF shared
    <3> QED
      BY <3>1, <3>4, <3>5 DEF Aligned, Left, Running, Idle, OutputsCoherent, Coherent, StagesOf,
                              Prep, shared
  <2>7. ASSUME NEW p \in Procs, PatchesApplied(p) PROVE IInv'
    <3>1. /\ Advance(p) /\ ~Idle(p) /\ At(p, "git-apply-patches")
          /\ UNCHANGED <<clone, listed, pending, spec, staged, srpm, shared>>
      BY <2>7 DEF PatchesApplied, At
    <3>2. TypeOK' /\ Aligned' /\ Running' /\ Left(p)' = Left(p) - 1 /\ kind' = kind
          /\ \A q \in Procs : q # p => todo'[q] = todo[q]
      BY <3>1, Advancing DEF TypeOK, shared
    <3>3. Built'
      <4>1. Left(p) = 7 /\ Left(p)' = 6
        BY <3>1, <3>2, Place
      <4>2. BuiltIn(p)'
        BY <3>1, <4>1, DiskAt DEF BuiltIn, Packed
      <4> QED
        BY <3>1, <3>2, <4>2, OthersBuilt
    <3>4. OutputsCoherent'
      BY <3>1 DEF OutputsCoherent, Coherent, shared
    <3> QED
      BY <3>2, <3>3, <3>4
  <2>8. ASSUME NEW p \in Procs, Configure(p) PROVE IInv'
    <3>1. /\ Advance(p) /\ ~Idle(p) /\ At(p, "git-configure")
          /\ UNCHANGED <<clone, listed, pending, staged, srpm, shared>>
          /\ spec' = [spec EXCEPT ![p] = clone[p]]
      BY <2>8 DEF Configure, At
    <3>2. /\ spec' \in [Procs -> Trees \cup {Nothing}] /\ spec'[p] = clone[p]
          /\ \A q \in Procs : q # p => spec'[q] = spec[q]
      BY <3>1 DEF TypeOK
    <3>3. TypeOK' /\ Aligned' /\ Running' /\ Left(p)' = Left(p) - 1 /\ kind' = kind
          /\ \A q \in Procs : q # p => todo'[q] = todo[q]
      BY <3>1, <3>2, Advancing DEF TypeOK, shared
    <3>4. Built'
      <4>1. Left(p) = 6 /\ Left(p)' = 5
        BY <3>1, <3>3, Place
      <4>2. BuiltIn(p)'
        BY <3>1, <3>2, <4>1, DiskAt DEF BuiltIn, Packed
      <4> QED
        BY <3>1, <3>2, <3>3, <4>2, OthersBuilt
    <3>5. OutputsCoherent'
      BY <3>1 DEF OutputsCoherent, Coherent, shared
    <3> QED
      BY <3>3, <3>4, <3>5
  <2>9. ASSUME NEW p \in Procs, Stage(p) PROVE IInv'
    <3>1. /\ Advance(p) /\ ~Idle(p) /\ At(p, "git-stage")
          /\ UNCHANGED <<clone, listed, pending, spec, srpm, shared>>
          /\ staged' = [staged EXCEPT ![p] = [spec |-> spec[p], tar |-> clone[p]]]
      BY <2>9 DEF Stage, At
    <3>2. Left(p) = 5 /\ clone[p] \in Trees /\ spec[p] = clone[p]
      <4>1. Left(p) = 5
        BY <3>1, Place
      <4> QED
        BY <4>1, DiskAt
    <3>3. /\ staged' \in [Procs -> Staged \cup {Nothing}]
          /\ staged'[p] = [spec |-> clone[p], tar |-> clone[p]]
          /\ \A q \in Procs : q # p => staged'[q] = staged[q]
      <4>1. [spec |-> spec[p], tar |-> clone[p]] \in Staged
        BY <3>2 DEF Staged
      <4> HIDE DEF Staged
      <4> QED
        BY <3>1, <3>2, <4>1 DEF TypeOK
    <3>4. TypeOK' /\ Aligned' /\ Running' /\ Left(p)' = Left(p) - 1 /\ kind' = kind
          /\ \A q \in Procs : q # p => todo'[q] = todo[q]
      BY <3>1, <3>3, Advancing DEF TypeOK, shared
    <3>5. Built'
      <4>1. Left(p)' = 4 /\ ~Packed(p)'
        BY <3>2, <3>4 DEF Packed
      <4>2. BuiltIn(p)'
        BY <3>1, <3>2, <3>3, <4>1 DEF BuiltIn
      <4> QED
        BY <3>1, <3>3, <3>4, <4>2, OthersBuilt
    <3>6. OutputsCoherent'
      BY <3>1 DEF OutputsCoherent, Coherent, shared
    <3> QED
      BY <3>4, <3>5, <3>6
  <2>10. ASSUME NEW p \in Procs, RPMBuild(p) PROVE IInv'
    <3>1. /\ Advance(p) /\ ~Idle(p) /\ At(p, "rpmbuild")
          /\ UNCHANGED <<clone, listed, pending, spec, staged, shared>>
          /\ srpm' = [srpm EXCEPT ![p] = [spec |-> staged[p].spec, tar |-> staged[p].tar,
                                         define |-> osDef[p] /\ DefineEL]]
      BY <2>10 DEF RPMBuild, At
    <3>2. /\ (Left(p) = 4 /\ kind[p] = "src") \/ (Left(p) = 3 /\ kind[p] = "rpms")
          /\ clone[p] \in Trees /\ spec[p] = clone[p]
          /\ staged[p] = [spec |-> clone[p], tar |-> clone[p]]
      <4>1. (Left(p) = 4 /\ kind[p] = "src") \/ (Left(p) = 3 /\ kind[p] = "rpms")
        BY <3>1, Place
      <4>2. Left(p) \in 1..7 /\ Left(p) \in 1..5 /\ Left(p) \in 1..4
        BY <4>1
      <4> QED
        BY <4>1, <4>2 DEF Built, BuiltIn
    <3>3. /\ srpm' \in [Procs -> SrcRPMs \cup {Nothing}] /\ srpm'[p] \in SrcRPMs
          /\ srpm'[p].spec = clone[p] /\ srpm'[p].tar = clone[p]
          /\ \A q \in Procs : q # p => srpm'[q] = srpm[q]
      <4> DEFINE d == osDef[p] /\ DefineEL
                 s == [spec |-> clone[p], tar |-> clone[p], define |-> d]
      <4>1. d \in BOOLEAN
        BY FlagsAssumption DEF TypeOK
      <4>2. srpm' = [srpm EXCEPT ![p] = s]
        <5>1. staged[p].spec = clone[p] /\ staged[p].tar = clone[p]
          BY <3>2
        <5> QED
          BY <3>1, <5>1
      <4> HIDE DEF d
      <4>3. s \in SrcRPMs /\ s.spec = clone[p] /\ s.tar = clone[p]
        BY <3>2, <4>1 DEF SrcRPMs
      <4> HIDE DEF s
      <4> QED
        BY <4>2, <4>3 DEF TypeOK
    <3>4. TypeOK' /\ Aligned' /\ Running' /\ Left(p)' = Left(p) - 1 /\ kind' = kind
          /\ \A q \in Procs : q # p => todo'[q] = todo[q]
      BY <3>1, <3>3, Advancing DEF TypeOK, shared
    <3>5. Built'
      <4>1. Left(p)' \in 2..3 /\ (Left(p)' = 3 => kind[p] = "src")
        BY <3>2, <3>4
      <4>2. BuiltIn(p)'
        BY <3>1, <3>2, <3>3, <4>1 DEF BuiltIn
      <4> QED
        BY <3>1, <3>3, <3>4, <4>2, OthersBuilt
    <3>6. OutputsCoherent'
      BY <3>1 DEF OutputsCoherent, Coherent, shared
    <3> QED
      BY <3>4, <3>5, <3>6
  <2>11. ASSUME NEW p \in Procs, Collect(p) PROVE IInv'
    <3>1. /\ Advance(p) /\ ~Idle(p) /\ At(p, "collect")
          /\ UNCHANGED <<clone, listed, pending, spec, staged, srpm, sidecar, lapsed, gitcfg,
                         generated, runs, edits>>
          /\ out' = WithOutput(p, FALSE)
      BY <2>11 DEF Collect, At
    <3>2. Packed(p) /\ Left(p) \in 1..3 /\ FALSE \in BOOLEAN
      BY <3>1, Place DEF Packed
    <3> QED
      BY <3>1, <3>2, CopyKeeps
  <2>12. ASSUME NEW p \in Procs, CopyDone(p) PROVE IInv'
    <3>1. /\ Advance(p) /\ ~Idle(p) /\ At(p, "copy")
          /\ UNCHANGED <<clone, listed, pending, spec, staged, srpm, sidecar, lapsed, gitcfg,
                         generated, runs, edits>>
          /\ out' = WithOutput(p, TRUE)
      BY <2>12 DEF CopyDone, At
    <3>2. Packed(p) /\ Left(p) \in 1..3 /\ TRUE \in BOOLEAN
      BY <3>1, Place DEF Packed
    <3> QED
      BY <3>1, <3>2, CopyKeeps
  <2>13. ASSUME NEW p \in Procs, WriteConfigSidecar(p) PROVE IInv'
    <3>1. /\ Advance(p) /\ ~Idle(p) /\ At(p, "sidecar")
          /\ UNCHANGED <<clone, listed, pending, spec, staged, srpm, out, gitcfg, generated,
                         runs, edits>>
          /\ sidecar' = [rev |-> clone[p].rev, patches |-> gitcfg] /\ lapsed' = FALSE
      BY <2>13 DEF WriteConfigSidecar, At
    <3>2. Left(p) = 1 /\ clone[p] \in Trees
      <4>1. Left(p) = 1
        BY <3>1, Place
      <4> QED
        BY <4>1, DiskAt
    <3>3. sidecar' \in Trees
      BY <3>1, <3>2 DEF Trees, TypeOK
    <3>4. TypeOK' /\ Aligned' /\ Running' /\ Left(p)' = Left(p) - 1 /\ kind' = kind
          /\ \A q \in Procs : q # p => todo'[q] = todo[q]
      BY <3>1, <3>3, Advancing DEF TypeOK
    <3>5. Built'
      <4>1. Left(p)' = 0
        BY <3>2, <3>4
      <4> QED
        <5>1. BuiltIn(p)'
          BY <4>1 DEF BuiltIn, Packed
        <5> QED
          BY <3>1, <3>4, <5>1, OthersBuilt
    <3>6. OutputsCoherent'
      BY <3>1 DEF OutputsCoherent, Coherent
    <3> QED
      BY <3>4, <3>5, <3>6
  <2>14. CASE GenerateBuildOneConfig
    <3>1. UNCHANGED <<kind, todo, rc, inside, out, sidecar, lapsed, gitcfg, runs, edits>>
      BY <2>14 DEF GenerateBuildOneConfig
    <3>2. generated' \in Generated \cup {Nothing}
      <4>1. PICK s \in out["src"] : 
               generated' = [srpm |-> s, annotations |-> sidecar, lapsed |-> lapsed]
        BY <2>14 DEF GenerateBuildOneConfig
      <4> QED
        BY <4>1 DEF TypeOK, Kinds, Generated
    <3> QED
      BY <3>1, <3>2 DEF TypeOK, Aligned, Left, Running, Idle, Built, BuiltIn, Packed, OutputsCoherent,
                        Coherent, StagesOf, Prep, inside
  <2>15. CASE Edit
    <3>1. UNCHANGED <<kind, todo, rc, inside, out, sidecar, lapsed, generated, runs>>
      BY <2>15 DEF Edit
    <3>2. TypeOK'
      BY <2>15, <3>1, BoundsAssumption DEF Edit, TypeOK, inside
    <3> QED
      BY <3>1, <3>2 DEF Aligned, Left, Running, Idle, Built, BuiltIn, Packed, OutputsCoherent,
                        Coherent, StagesOf, Prep, inside
  <2>16. CASE UNCHANGED vars
    BY <2>16 DEF vars, inside, shared, TypeOK, Aligned, Left, Running, Idle, Built, BuiltIn, Packed,
                 OutputsCoherent, Coherent, StagesOf, Prep
  <2> QED
    BY <2>1, <2>2, <2>3, <2>4, <2>5, <2>6, <2>7, <2>8, <2>9, <2>10, <2>11, <2>12, <2>13, <2>14,
       <2>15, <2>16 DEF Next, Step
<1> QED
  BY <1>1, <1>2, PTL DEF Spec

\* The files of every container are of the types their readers expect: a stage that
\* reads the tree, the spec or the sources finds them there (gitsteps.go:1163-1175).
THEOREM TypeCorrect == Spec => []TypeOK
BY Invariance, PTL DEF IInv

\* No src.rpm in an output directory mixes two trees, whatever overlaps, dies or is
\* edited while it is made (gitsteps.go:253-257).
THEOREM OutputsAreCoherent == Spec => []OutputsCoherent
BY Invariance, PTL DEF IInv

-----------------------------------------------------------------------------
(* What the sidecar says, when runs are calm. *)

\* While one calm run is under way no other is.
LEMMA OnlyOne ==
    ASSUME TypeOK, Alone, NEW p \in Procs, ~Idle(p), NEW q \in Procs, q # p
    PROVE  Idle(q) /\ Left(q) = 0
BY DEF Alone, Idle, Left

\* A step of the only run: what holds of it holds of all.
LEMMA CalmStep ==
    ASSUME TypeOK, Alone, NEW p \in Procs, ~Idle(p),
           \A q \in Procs : q # p => todo'[q] = todo[q],
           PatchedIn(p)', CollectedIn(p)'
    PROVE  /\ Alone' /\ \A q \in Procs : PatchedIn(q)' /\ CollectedIn(q)'
           /\ (\E q \in Procs : Labelling(q)) <=> Labelling(p)
           /\ (\E q \in Procs : Labelling(q)') <=> Labelling(p)'
<1>1. ASSUME NEW q \in Procs, q # p
      PROVE  Idle(q)' /\ Left(q)' = 0 /\ ~Labelling(q) /\ ~Labelling(q)'
  <2>1. Idle(q) /\ Left(q) = 0 /\ todo'[q] = todo[q]
    BY <1>1, OnlyOne
  <2> QED
    BY <2>1 DEF Idle, Left, Labelling
<1>2. Alone'
  BY <1>1 DEF Alone
<1>3. ASSUME NEW q \in Procs PROVE PatchedIn(q)' /\ CollectedIn(q)'
  <2>1. CASE q # p
    BY <1>1, <2>1 DEF PatchedIn, CollectedIn
  <2> QED
    BY <2>1
<1>4. (\E q \in Procs : Labelling(q)) <=> Labelling(p)
  BY <1>1
<1>5. (\E q \in Procs : Labelling(q)') <=> Labelling(p)'
  BY <1>1
<1> QED
  BY <1>2, <1>3, <1>4, <1>5

\* What the sidecar is about to say is true of the src.rpm just collected.
LEMMA LabelIsTrue ==
    ASSUME IInv, CalmInv, NEW p \in Procs, Left(p) = 1, kind[p] = "src"
    PROVE  /\ Made(p) \in out["src"]
           /\ [rev |-> clone[p].rev, patches |-> gitcfg] = srpm[p].tar
           /\ srpm[p].tar.patches = gitcfg
<1>1. Made(p) \in out["src"]
  BY DEF CalmInv, CollectedIn
<1>2. srpm[p].tar = clone[p] /\ clone[p] \in Trees
  <2>1. BuiltIn(p) /\ Packed(p) /\ 1 \in 1..7
    BY DEF IInv, Built, Packed
  <2> QED
    BY <2>1 DEF BuiltIn
<1>3. clone[p].patches = gitcfg
  <2>1. PatchedIn(p) /\ 1 \in 1..6
    BY DEF CalmInv
  <2> QED
    BY <2>1 DEF PatchedIn
<1> QED
  BY <1>1, <1>2, <1>3 DEF Trees

\* The invariant of calm runs.
LEMMA CalmInvariance ==
    ASSUME Calm
    PROVE  Spec => []CalmInv
<1>1. Init => CalmInv
  <2> SUFFICES ASSUME Init PROVE CalmInv
    OBVIOUS
  <2>1. \A p \in Procs : todo[p] = <<>> /\ Left(p) = 0
    BY DEF Init, Left
  <2>2. out["src"] = {} /\ generated = Nothing
    BY DEF Init, Kinds
  <2>3. IsFiniteSet({})
    BY FS_EmptySet
  <2> QED
    BY <2>1, <2>2, <2>3 DEF CalmInv, Alone, Idle, PatchedIn, CollectedIn, Labelling, Described,
                            AnnotationsTrue
<1>2. IInv /\ CalmInv /\ [Next]_vars => CalmInv'
  <2> SUFFICES ASSUME IInv, CalmInv, [Next]_vars PROVE CalmInv'
    OBVIOUS
  <2> USE DEF IInv, CalmInv
  <2>1. ASSUME NEW p \in Procs, NEW k \in Kinds, Launch(p, k) PROVE CalmInv'
    <3>1. /\ \A q \in Procs : Idle(q)
          /\ UNCHANGED <<out, sidecar, lapsed, gitcfg, generated, edits>>
      BY <2>1 DEF Launch
    <3>2. /\ todo'[p] = StagesOf(k) /\ ~listed'[p]
          /\ \A q \in Procs : q # p => todo'[q] = todo[q]
      BY <2>1 DEF Launch, TypeOK
    <3>3. /\ Left(p)' = 14
          /\ \A q \in Procs : Left(q) = 0 /\ (q # p => Left(q)' = 0 /\ Idle(q)')
      BY <3>1, <3>2, Stages DEF Left, Idle
    <3>4. Alone'
      BY <3>3 DEF Alone
    <3>5. \A q \in Procs : PatchedIn(q)' /\ CollectedIn(q)'
      <4>1. PatchedIn(p)' /\ CollectedIn(p)'
        BY <3>2, <3>3 DEF PatchedIn, CollectedIn, Labelling
      <4>2. ASSUME NEW q \in Procs, q # p PROVE PatchedIn(q)' /\ CollectedIn(q)'
        BY <3>3, <4>2 DEF PatchedIn, CollectedIn, Labelling
      <4> QED
        BY <4>1, <4>2
    <3>6. ~ \E q \in Procs : Labelling(q)
      BY <3>3 DEF Labelling
    <3>7. IsFiniteSet(out'["src"]) /\ Described' /\ AnnotationsTrue'
      BY <3>1, <3>6 DEF Described, AnnotationsTrue
    <3> QED
      BY <3>4, <3>5, <3>7
  <2>2. ASSUME NEW p \in Procs, Fail(p) PROVE CalmInv'
    <3>1. /\ ~Idle(p) /\ todo'[p] = <<>>
          /\ \A q \in Procs : q # p => todo'[q] = todo[q]
          /\ UNCHANGED <<out, gitcfg, generated, kind>>
          /\ lapsed' = (lapsed \/ (kind[p] = "src" /\ (At(p, "copy") \/ At(p, "sidecar"))))
          /\ sidecar' = sidecar \/ At(p, "sidecar")
      BY <2>2 DEF Fail, TypeOK
    <3>2. Left(p)' = 0 /\ (Labelling(p) => lapsed') /\ (sidecar' = sidecar \/ lapsed')
      <4>1. Left(p)' = 0
        BY <3>1 DEF Left
      <4>2. Labelling(p) => At(p, "copy") \/ At(p, "sidecar")
        BY <3>1, Place DEF Labelling
      <4>3. At(p, "sidecar") => kind[p] = "src"
        BY <3>1, Place
      <4> QED
        BY <3>1, <4>1, <4>2, <4>3 DEF Labelling
    <3>3. PatchedIn(p)' /\ CollectedIn(p)'
      BY <3>2 DEF PatchedIn, CollectedIn
    <3>4. /\ Alone' /\ (\A q \in Procs : PatchedIn(q)' /\ CollectedIn(q)')
          /\ (\E q \in Procs : Labelling(q)) <=> Labelling(p)
      BY <3>1, <3>2, <3>3, CalmStep
    <3>5. Described'
      BY <3>1, <3>2, <3>4 DEF Described
    <3>6. IsFiniteSet(out'["src"]) /\ AnnotationsTrue'
      BY <3>1 DEF AnnotationsTrue
    <3> QED
      BY <3>4, <3>5, <3>6
  <2>3. ASSUME NEW p \in Procs, RootStage(p) \/ Configure(p) \/ Stage(p) \/ RPMBuild(p)
        PROVE  CalmInv'
    <3>1. /\ ~Idle(p) /\ Advance(p) /\ UNCHANGED <<clone, listed, pending, shared>>
          /\ \/ \E s \in RootStages : At(p, s)
             \/ At(p, "git-configure") \/ At(p, "git-stage") \/ At(p, "rpmbuild")
      BY <2>3 DEF RootStage, Configure, Stage, RPMBuild, At
    <3>2. /\ Left(p)' = Left(p) - 1 /\ kind' = kind
          /\ \A q \in Procs : q # p => todo'[q] = todo[q]
      BY <3>1, Advancing
    <3>3. \/ Left(p) \in 9..14 /\ Left(p)' \in 8..13
          \/ Left(p) \in {4, 5, 6} /\ Left(p)' \in {3, 4, 5}
          \/ Left(p) = 3 /\ Left(p)' = 2 /\ kind[p] = "rpms"
      BY <3>1, <3>2, Place
    <3>4. ~Labelling(p) /\ ~Labelling(p)'
      BY <3>2, <3>3 DEF Labelling
    <3>5. PatchedIn(p)'
      <4>1. CASE Left(p) \in 9..14 /\ Left(p)' \in 8..13
        BY <3>1, <4>1 DEF PatchedIn
      <4>2. CASE Left(p) \in 3..6 /\ Left(p)' \in 2..5
        BY <3>1, <4>2 DEF PatchedIn, shared
      <4> QED
        BY <3>3, <4>1, <4>2
    <3>6. /\ Alone' /\ (\A q \in Procs : PatchedIn(q)' /\ CollectedIn(q)')
          /\ ~ \E q \in Procs : Labelling(q)
      BY <3>1, <3>2, <3>3, <3>4, <3>5, CalmStep DEF CollectedIn
    <3>7. IsFiniteSet(out'["src"]) /\ Described' /\ AnnotationsTrue'
      BY <3>1, <3>6 DEF Described, AnnotationsTrue, shared
    <3> QED
      BY <3>6, <3>7
  <2>4. ASSUME NEW p \in Procs, Clone(p) PROVE CalmInv'
    <3>1. /\ ~Idle(p) /\ Advance(p) /\ At(p, "git-clone") /\ UNCHANGED <<listed, pending, shared>>
      BY <2>4 DEF Clone, At
    <3>2. /\ Left(p) = 8 /\ Left(p)' = 7
          /\ \A q \in Procs : q # p => todo'[q] = todo[q]
      <4>1. Left(p) = 8 /\ Left(p)' = Left(p) - 1
        BY <3>1, Advancing, Place
      <4> QED
        BY <3>1, <4>1, Advancing
    <3>3. ~listed'[p] /\ clone'[p].patches = {}
      <4>1. PICK r \in Revs : clone' = [clone EXCEPT ![p] = [rev |-> r, patches |-> {}]]
        BY <2>4 DEF Clone
      <4>2. clone'[p] = [rev |-> r, patches |-> {}]
        BY <4>1 DEF TypeOK
      <4> QED
        BY <3>1, <3>2, <4>2 DEF PatchedIn
    <3>4. PatchedIn(p)' /\ CollectedIn(p)' /\ ~Labelling(p)
      BY <3>2, <3>3 DEF PatchedIn, CollectedIn, Labelling
    <3>5. /\ Alone' /\ (\A q \in Procs : PatchedIn(q)' /\ CollectedIn(q)')
          /\ ~ \E q \in Procs : Labelling(q)
      BY <3>1, <3>2, <3>4, CalmStep
    <3>6. IsFiniteSet(out'["src"]) /\ Described' /\ AnnotationsTrue'
      BY <3>1, <3>5 DEF Described, AnnotationsTrue, shared
    <3> QED
      BY <3>5, <3>6
  <2>5. ASSUME NEW p \in Procs, LoadPatches(p) \/ ApplyPatch(p) PROVE CalmInv'
    <3>1. /\ ~Idle(p) /\ At(p, "git-apply-patches") /\ UNCHANGED <<kind, todo, shared>>
      BY <2>5 DEF LoadPatches, ApplyPatch, At
    <3>2. Left(p) = 7 /\ Left(p)' = 7 /\ ~Labelling(p) /\ ~Labelling(p)'
      <4>1. Left(p) = 7
        BY <3>1, Place
      <4> QED
        BY <3>1, <4>1 DEF Left, Labelling
    <3>3. listed'[p] /\ clone'[p].patches \cup pending'[p] = gitcfg
      <4>1. CASE LoadPatches(p)
        <5>1. ~listed[p] /\ listed'[p] /\ pending'[p] = gitcfg /\ clone' = clone
          BY <4>1 DEF LoadPatches, TypeOK
        <5>2. clone[p].patches = {}
          BY <3>2, <5>1 DEF PatchedIn
        <5> QED
          BY <5>1, <5>2
      <4>2. CASE ApplyPatch(p)
        <5>1. PICK x \in pending[p] :
                 /\ pending' = [pending EXCEPT ![p] = @ \ {x}]
                 /\ clone' = [clone EXCEPT ![p] = [rev |-> @.rev, patches |-> @.patches \cup {x}]]
          BY <4>2 DEF ApplyPatch
        <5>2. clone'[p] = [rev |-> clone[p].rev, patches |-> clone[p].patches \cup {x}]
          BY <5>1 DEF TypeOK
        <5>3. clone'[p].patches = clone[p].patches \cup {x} /\ pending'[p] = pending[p] \ {x}
          BY <5>1, <5>2 DEF TypeOK
        <5>4. listed[p] /\ listed' = listed
          BY <4>2 DEF ApplyPatch
        <5>5. clone[p].patches \cup pending[p] = gitcfg
          BY <3>2, <5>4 DEF PatchedIn
        <5>6. (clone[p].patches \cup {x}) \cup (pending[p] \ {x}) = clone[p].patches \cup pending[p]
          BY <5>1
        <5> QED
          BY <5>3, <5>4, <5>5, <5>6
      <4> QED
        BY <2>5, <4>1, <4>2
    <3>4. PatchedIn(p)' /\ CollectedIn(p)'
      BY <3>1, <3>2, <3>3 DEF PatchedIn, CollectedIn, shared
    <3>5. /\ Alone' /\ (\A q \in Procs : PatchedIn(q)' /\ CollectedIn(q)')
          /\ ~ \E q \in Procs : Labelling(q)
      BY <3>1, <3>2, <3>4, CalmStep
    <3>6. IsFiniteSet(out'["src"]) /\ Described' /\ AnnotationsTrue'
      BY <3>1, <3>5 DEF Described, AnnotationsTrue, shared
    <3> QED
      BY <3>5, <3>6
  <2>6. ASSUME NEW p \in Procs, PatchesApplied(p) PROVE CalmInv'
    <3>1. /\ ~Idle(p) /\ Advance(p) /\ At(p, "git-apply-patches") /\ listed[p] /\ pending[p] = {}
          /\ UNCHANGED <<clone, listed, pending, shared>>
      BY <2>6 DEF PatchesApplied, At
    <3>2. /\ Left(p) = 7 /\ Left(p)' = 6
          /\ \A q \in Procs : q # p => todo'[q] = todo[q]
      <4>1. Left(p) = 7 /\ Left(p)' = Left(p) - 1
        BY <3>1, Advancing, Place
      <4> QED
        BY <3>1, <4>1, Advancing
    <3>3. clone[p].patches = gitcfg
      <4>1. clone[p].patches \cup {} = gitcfg
        BY <3>1, <3>2 DEF PatchedIn
      <4> QED
        BY <4>1
    <3>4. PatchedIn(p)' /\ CollectedIn(p)' /\ ~Labelling(p)
      BY <3>1, <3>2, <3>3 DEF PatchedIn, CollectedIn, Labelling, shared
    <3>5. /\ Alone' /\ (\A q \in Procs : PatchedIn(q)' /\ CollectedIn(q)')
          /\ ~ \E q \in Procs : Labelling(q)
      BY <3>1, <3>2, <3>4, CalmStep
    <3>6. IsFiniteSet(out'["src"]) /\ Described' /\ AnnotationsTrue'
      BY <3>1, <3>5 DEF Described, AnnotationsTrue, shared
    <3> QED
      BY <3>5, <3>6
  <2>7. ASSUME NEW p \in Procs, NEW w \in BOOLEAN, (Collect(p) /\ ~w) \/ (CopyDone(p) /\ w)
        PROVE  CalmInv'
    <3>1. /\ ~Idle(p) /\ Advance(p) /\ out' = WithOutput(p, w)
          /\ (At(p, "collect") /\ ~w) \/ (At(p, "copy") /\ w)
          /\ UNCHANGED <<clone, listed, pending, srpm, sidecar, lapsed, gitcfg, generated>>
      BY <2>7 DEF Collect, CopyDone, At
    <3>2. /\ kind' = kind /\ \A q \in Procs : q # p => todo'[q] = todo[q]
      BY <3>1, Advancing
    <3>3. \/ kind[p] = "src" /\ Left(p) = 3 /\ Left(p)' = 2
          \/ kind[p] = "src" /\ Left(p) = 2 /\ Left(p)' = 1 /\ w
          \/ kind[p] = "rpms" /\ Left(p) = 2 /\ Left(p)' = 1
          \/ kind[p] = "rpms" /\ Left(p) = 1 /\ Left(p)' = 0
      BY <3>1, Place, Advancing
    <3>4. /\ kind[p] = "src" => out'["src"] =
                {s \in out["src"] : Release(s.of) # Release(srpm[p])}
                   \cup {[of |-> srpm[p], whole |-> w]}
          /\ kind[p] = "rpms" => out'["src"] = out["src"]
      BY <3>1 DEF TypeOK, Kinds, WithOutput, OutputSubdir
    <3>5. (Labelling(p) => kind[p] = "src") /\ (Labelling(p)' <=> kind[p] = "src")
      BY <3>2, <3>3 DEF Labelling
    <3>6. PatchedIn(p)'
      BY <3>1, <3>3 DEF PatchedIn
    <3>7. CollectedIn(p)'
      <4>1. CASE kind[p] = "src" /\ Left(p)' = 1
        <5>1. w = TRUE /\ Made(p)' = [of |-> srpm[p], whole |-> TRUE]
          BY <3>1, <3>3, <4>1 DEF Made
        <5> QED
          BY <3>4, <4>1, <5>1 DEF CollectedIn
      <4> QED
        BY <3>2, <4>1 DEF CollectedIn
    <3>8. /\ Alone' /\ (\A q \in Procs : PatchedIn(q)' /\ CollectedIn(q)')
          /\ (\E q \in Procs : Labelling(q)) <=> Labelling(p)
          /\ (\E q \in Procs : Labelling(q)') <=> Labelling(p)'
      BY <3>1, <3>2, <3>6, <3>7, CalmStep
    <3>9. Described'
      <4>1. CASE kind[p] = "src"
        BY <3>5, <3>8, <4>1 DEF Described
      <4>2. CASE kind[p] = "rpms"
        BY <3>1, <3>4, <3>5, <3>8, <4>2 DEF Described
      <4> QED
        BY <3>3, <4>1, <4>2
    <3>10. IsFiniteSet(out'["src"])
      <4>1. CASE kind[p] = "src"
        <5>1. IsFiniteSet({s \in out["src"] : Release(s.of) # Release(srpm[p])})
          BY FS_Subset
        <5> DEFINE e == [of |-> srpm[p], whole |-> w]
                   kept == {s \in out["src"] : Release(s.of) # Release(srpm[p])}
        <5>2. out'["src"] = kept \cup {e}
          BY <3>4, <4>1
        <5> HIDE DEF e, kept
        <5>3. IsFiniteSet(kept \cup {e})
          BY <5>1, FS_AddElement DEF kept
        <5> QED
          BY <5>2, <5>3
      <4> QED
        BY <3>3, <3>4, <4>1
    <3>11. AnnotationsTrue'
      BY <3>1 DEF AnnotationsTrue
    <3> QED
      BY <3>8, <3>9, <3>10, <3>11
  <2>8. ASSUME NEW p \in Procs, WriteConfigSidecar(p) PROVE CalmInv'
    <3>1. /\ ~Idle(p) /\ Advance(p) /\ At(p, "sidecar")
          /\ UNCHANGED <<clone, listed, pending, srpm, out, gitcfg, generated>>
          /\ sidecar' = [rev |-> clone[p].rev, patches |-> gitcfg]
      BY <2>8 DEF WriteConfigSidecar, At
    <3>2. /\ Left(p) = 1 /\ kind[p] = "src" /\ Left(p)' = 0
          /\ \A q \in Procs : q # p => todo'[q] = todo[q]
      <4>1. Left(p) = 1 /\ kind[p] = "src" /\ Left(p)' = Left(p) - 1
        BY <3>1, Advancing, Place
      <4> QED
        BY <3>1, <4>1, Advancing
    <3>3. Made(p) \in out["src"] /\ sidecar' = srpm[p].tar
      BY <3>1, <3>2, LabelIsTrue
    <3>4. PatchedIn(p)' /\ CollectedIn(p)'
      BY <3>2 DEF PatchedIn, CollectedIn, Labelling
    <3>5. Alone' /\ \A q \in Procs : PatchedIn(q)' /\ CollectedIn(q)'
      BY <3>1, <3>2, <3>4, CalmStep
    <3>6. IsFiniteSet(out'["src"]) /\ Described' /\ AnnotationsTrue'
      BY <3>1, <3>3 DEF Described, AnnotationsTrue, Made
    <3> QED
      BY <3>5, <3>6
  <2>9. CASE GenerateBuildOneConfig
    <3>1. /\ \A p \in Procs : Idle(p)
          /\ Cardinality(out["src"]) = 1
          /\ UNCHANGED <<kind, todo, listed, pending, clone, srpm, out, sidecar, lapsed, gitcfg>>
      BY <2>9 DEF GenerateBuildOneConfig, inside
    <3>2. PICK s \in out["src"] : 
             generated' = [srpm |-> s, annotations |-> sidecar, lapsed |-> lapsed]
      BY <2>9 DEF GenerateBuildOneConfig
    <3>3. \A t \in out["src"] : t = s
      <4>1. PICK e : out["src"] = {e}
        BY <3>1, FS_Singleton
      <4> QED
        BY <4>1
    <3>4. ~ \E p \in Procs : Labelling(p)
      BY <3>1 DEF Labelling, Left, Idle
    <3>5. lapsed \/ (s.whole /\ sidecar = s.of.tar)
      BY <3>2, <3>3, <3>4 DEF Described
    <3>6. AnnotationsTrue'
      BY <3>2, <3>5 DEF AnnotationsTrue
    <3> QED
      BY <3>1, <3>6 DEF Alone, Idle, PatchedIn, CollectedIn, Labelling, Made, Left, Described
  <2>10. CASE Edit
    <3>1. /\ \A p \in Procs : Idle(p)
          /\ UNCHANGED <<kind, todo, listed, pending, clone, srpm, out, sidecar, lapsed, generated>>
      BY <2>10 DEF Edit, inside
    <3>2. \A p \in Procs : Left(p)' = 0
      BY <3>1 DEF Left, Idle
    <3>3. \A p \in Procs : PatchedIn(p)' /\ CollectedIn(p)'
      BY <3>2 DEF PatchedIn, CollectedIn, Labelling
    <3> QED
      BY <3>1, <3>3 DEF Alone, Idle, Labelling, Left, Described, AnnotationsTrue
  <2>11. CASE UNCHANGED vars
    BY <2>11 DEF vars, inside, shared, Alone, Idle, PatchedIn, CollectedIn, Labelling, Made, Left,
                 Described, AnnotationsTrue
  <2> QED
    BY <2>1, <2>2, <2>3, <2>4, <2>5, <2>6, <2>7, <2>8, <2>9, <2>10, <2>11 DEF Next, Step
<1> QED
  BY <1>1, <1>2, Invariance, PTL DEF Spec

\* In calm runs a generated config points at a whole src.rpm and its annotations name the
\* commit and the patches of that one, unless the last git-build-src-rpm run that reached cp
\* was cut off there or in writing the sidecar (gitsteps.go:948-949).
THEOREM AnnotationsAreTrue ==
    ASSUME Calm
    PROVE  Spec => []AnnotationsTrue
BY CalmInvariance, PTL DEF CalmInv

\* A calm git-build-src-rpm run ends with 0 only when its src.rpm, made with the
\* configured patches, and its sidecar are in the output directory (gitsteps.go:613-637).
THEOREM SrcRunsLeaveOutput ==
    ASSUME Calm
    PROVE  Spec => SrcRunMeansOutput
<1>1. IInv /\ CalmInv /\ [Next]_vars =>
         [\A p \in Procs : ~Idle(p) /\ kind[p] = "src" /\ rc'[p] = "ok" =>
             /\ [of |-> srpm[p], whole |-> TRUE] \in out'["src"]
             /\ sidecar' = srpm[p].tar
             /\ srpm[p].tar.patches = gitcfg]_vars
  <2> SUFFICES ASSUME IInv, CalmInv, Next, NEW p \in Procs, ~Idle(p), kind[p] = "src",
                      rc'[p] = "ok"
               PROVE  /\ [of |-> srpm[p], whole |-> TRUE] \in out'["src"]
                      /\ sidecar' = srpm[p].tar
                      /\ srpm[p].tar.patches = gitcfg
    OBVIOUS
  <2> USE DEF IInv, CalmInv
  <2>1. rc[p] = "none"
    BY DEF Running
  <2>2. PICK q \in Procs : Advance(q) /\ ~Idle(q) /\ Step(q)
    <3>1. ASSUME NEW q \in Procs, NEW k \in Kinds, Launch(q, k) PROVE FALSE
      BY <2>1, <3>1 DEF Launch, TypeOK
    <3>2. ASSUME NEW q \in Procs, Fail(q) PROVE FALSE
      BY <2>1, <3>2 DEF Fail, TypeOK
    <3>3. ASSUME NEW q \in Procs, LoadPatches(q) \/ ApplyPatch(q) PROVE FALSE
      BY <2>1, <3>3 DEF LoadPatches, ApplyPatch
    <3>4. ~GenerateBuildOneConfig /\ ~Edit
      BY <2>1 DEF GenerateBuildOneConfig, Edit
    <3>5. PICK q \in Procs : Step(q)
      BY <3>1, <3>2, <3>4 DEF Next
    <3>6. ~LoadPatches(q) /\ ~ApplyPatch(q)
      BY <3>3
    <3>7. Advance(q) /\ ~Idle(q)
      BY <3>5, <3>6 DEF Step, RootStage, Clone, PatchesApplied, Configure, Stage, RPMBuild,
                        Collect, CopyDone, WriteConfigSidecar, At
    <3> QED
      BY <3>5, <3>7
  <2>3. q = p /\ Left(p) = 1
    <3>1. q = p
      BY <2>1, <2>2, Advancing
    <3> QED
      BY <2>2, <3>1, Advancing
  <2>4. At(p, "sidecar")
    BY <2>3, Place
  <2>5. WriteConfigSidecar(p)
    <3>1. Head(todo[p]) = "sidecar"
      BY <2>4 DEF At
    <3> QED
      BY <2>2, <2>3, <3>1 DEF Step, RootStage, RootStages, Clone, LoadPatches, ApplyPatch,
            PatchesApplied, Configure, Stage, RPMBuild, Collect, CopyDone, At
  <2>6. sidecar' = [rev |-> clone[p].rev, patches |-> gitcfg] /\ out' = out
    BY <2>5 DEF WriteConfigSidecar
  <2> QED
    BY <2>3, <2>6, LabelIsTrue DEF Made
<1> QED
  BY <1>1, Invariance, CalmInvariance, PTL DEF Spec, SrcRunMeansOutput
=============================================================================
