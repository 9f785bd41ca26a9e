---------------------------- MODULE OSPrepProofs ----------------------------
(***************************************************************************)
(* What the root stages promise, for any toolsets, packages and            *)
(* repositories and however often stages are run by hand.  A complete      *)
(* command has always the rest of its stages to run (Aligned), so what is  *)
(* not among them is done (ReposDone, FixDone); inside SetupRepos the      *)
(* calls made so far tell what is defined and enabled (Called).  Links of  *)
(* a toolset are its package's or fix-annobin's, and those lead to the     *)
(* plugin unless an update moved it (OwnFiles, OwnLinks); so when no alias *)
(* is absent (AllMade), gcc finds the plugin under each.                   *)
(***************************************************************************)
EXTENDS OSPrep, SequenceTheorems, WellFoundedInduction, TLAPS

Stages == Steps \cup {"configure"}

\* A complete command has still to run the last of its stages.
Aligned ==
    cmd \in Orchestrators =>
        LET full == StagesOf(cmd)
        IN  /\ Len(todo) <= Len(full)
            /\ \A i \in 1..Len(todo) : todo[i] = full[Len(full) - Len(todo) + i]

\* A stage that a complete command has been through.
Past(s) == cmd \in Orchestrators /\ ~Idle /\ s \notin Range(todo)

\* What the calls before the next one have brought.
Called ==
    At("setup-repos") =>
        /\ call > 1 => "config-manager" \in tools
        /\ \A i \in DOMAIN epelPackages : i + 1 < call => Defines[epelPackages[i]] \subseteq defined
        /\ \A i \in DOMAIN Enable : Len(epelPackages) + i + 1 < call => Enable[i] \in enabled

ImageRepos == BaseRepos \subseteq defined /\ OnRepos \subseteq enabled
ReposDone == Past("setup-repos") => Available
PackagesDone == Past("install-packages") => Listed \subseteq Installed
FixDone == Past("fix-annobin") => Installed \subseteq fixed \cup late

\* What a package has is in the directory as it laid it down.
OwnFiles == \A t \in Toolsets : \A n \in Names : version[t][n] # Absent => dir[t][n] = version[t][n]

\* What no package has there is a link that fix-annobin made.
OwnLinks ==
    \A t \in Toolsets \ moved : \A n \in Names :
        version[t][n] = Absent /\ dir[t][n] # Absent => Resolves(dir[t], n)

\* fix-annobin has left no alias out.
AllMade == \A t \in fixed : \A a \in Range(aliases) : dir[t][a] # Absent

IInv == /\ TypeOK /\ Aligned /\ Called /\ ImageRepos /\ ReposDone /\ PackagesDone /\ FixDone
        /\ OwnFiles /\ OwnLinks /\ AllMade
-----------------------------------------------------------------------------
(* The operators. *)

\* The least of some naturals.
LEMMA MinIs ==
    ASSUME NEW S \in SUBSET Nat, S # {}
    PROVE  Min(S) \in S /\ \A n \in S : Min(S) <= n
<1> DEFINE R == OpToRel(<, Nat)
<1>1. IsWellFoundedOn(R, Nat)
  BY NatLessThanWellFounded
<1>2. PICK m \in S : \A n \in S : <<n, m>> \notin R
  <2> HIDE DEF R
  <2> QED
    BY <1>1, WFMin
<1>3. \A n \in S : ~(n < m)
  BY <1>2 DEF OpToRel
<1>4. \A n \in S : m <= n
  BY <1>3
<1> QED
  BY <1>4 DEF Min

\* The names, one by one.
LEMMA NamesAre ==
    /\ Range(aliases) = {"annobin.so", "annobin.so.0.0.0", "gcc-annobin.so", "gcc-annobin.so.0.0.0"}
    /\ Range(realNames) = {"gts-annobin.so.0.0.0", "annobin.so.0.0.0", "annobin.so"}
    /\ DOMAIN aliases = 1..4 /\ DOMAIN realNames = 1..3
    /\ Names = Range(aliases) \cup Range(realNames)
    /\ Absent \notin Names /\ Regular \notin Names /\ Absent # Regular
BY DEF Range, aliases, realNames, Names, Absent, Regular

\* RealObj is a regular file, if there is one that may be the plugin.
LEMMA RealObjIs ==
    ASSUME NEW d \in Dirs
    PROVE  /\ RealObj(d) # Absent => RealObj(d) \in Range(realNames) /\ d[RealObj(d)] = Regular
           /\ (\E n \in Range(realNames) : d[n] = Regular) => RealObj(d) # Absent
<1> DEFINE I == {i \in 1..Len(realNames) : d[realNames[i]] = Regular}
<1>0. I # {} => Min(I) \in I
  <2>1. I \in SUBSET Nat
    OBVIOUS
  <2> HIDE DEF I
  <2> QED
    BY <2>1, MinIs
<1>1. RealObj(d) = IF I # {} THEN realNames[Min(I)] ELSE Absent
  <2>2. SelectInSeq(realNames, LAMBDA n : d[n] = Regular) = IF I # {} THEN Min(I) ELSE 0
    BY DEF SelectInSeq
  <2> QED
    BY <1>0, <2>2 DEF RealObj
<1>2. Len(realNames) = 3
  BY DEF realNames
<1>3. CASE I = {}
  BY <1>1, <1>2, <1>3, NamesAre DEF Range
<1>4. CASE I # {}
  <2>1. Min(I) \in I
    BY <1>0, <1>4
  <2>2. realNames[Min(I)] \in Range(realNames) /\ d[realNames[Min(I)]] = Regular
    BY <2>1, <1>2, NamesAre DEF Range
  <2> QED
    BY <1>1, <1>4, <2>2, NamesAre
<1> QED
  BY <1>3, <1>4
\* What has a version has the plugin.
LEMMA LayoutInstalled ==
    ASSUME NEW d \in Layouts
    PROVE  d \in Dirs /\ d # NoVersion /\ \E n \in Range(realNames) : d[n] = Regular
BY LayoutsAssumption, NamesAre DEF NoVersion, Empty

\* The next alias to make is one that is missing.
LEMMA NextAlias ==
    ASSUME NEW S \in SUBSET Range(aliases), S # {}
    PROVE  aliases[SelectInSeq(aliases, LAMBDA n : n \in S)] \in S
<1> DEFINE I == {i \in 1..Len(aliases) : aliases[i] \in S}
<1>1. Len(aliases) = 4
  BY DEF aliases
<1>2. I # {}
  BY <1>1, NamesAre DEF Range
<1>3. Min(I) \in I
  <2>1. I \in SUBSET Nat
    OBVIOUS
  <2> HIDE DEF I
  <2> QED
    BY <1>2, <2>1, MinIs
<1>4. SelectInSeq(aliases, LAMBDA n : n \in S) = Min(I)
  BY <1>2 DEF SelectInSeq
<1> QED
  BY <1>3, <1>4

\* The directory that fix-annobin is at, and the link that it makes there.
LEMMA NextLink ==
    ASSUME TypeOK, Symlink
    PROVE  \E t \in Installed : \E a \in Range(aliases) :
              /\ dir[t][a] = Absent
              /\ RealObj(dir[t]) \in Range(realNames) /\ dir[t][RealObj(dir[t])] = Regular
              /\ dir' = [dir EXCEPT ![t][a] = RealObj(dir[t])]
<1> DEFINE t == Min(Unfinished)
           a == aliases[SelectInSeq(aliases, LAMBDA n : n \in Missing(dir[t]))]
<1>1. Unfinished # {} /\ Unfinished \in SUBSET Nat
  BY ToolsetsAssumption DEF Symlink, Unfinished, Installed
<1>2. t \in Unfinished
  BY <1>1, MinIs
<1>3. t \in Installed /\ Missing(dir[t]) # {} /\ dir[t] \in Dirs
  BY <1>2 DEF Unfinished, Installed, TypeOK
<1>4. a \in Missing(dir[t])
  <2>1. Missing(dir[t]) \in SUBSET Range(aliases)
    BY DEF Missing
  <2> HIDE DEF t
  <2> QED
    BY <1>3, <2>1, NextAlias
<1>5. a \in Range(aliases) /\ dir[t][a] = Absent /\ RealObj(dir[t]) # Absent
  BY <1>4 DEF Missing
<1>6. RealObj(dir[t]) \in Range(realNames) /\ dir[t][RealObj(dir[t])] = Regular
  BY <1>3, <1>5, RealObjIs
<1>7. dir' = [dir EXCEPT ![t][a] = RealObj(dir[t])]
  BY DEF Symlink
<1> QED
  BY <1>3, <1>5, <1>6, <1>7

\* What a package does to a directory.
LEMMA UnpackIs ==
    ASSUME NEW d \in Dirs, NEW old \in Dirs, NEW new \in Dirs
    PROVE  /\ Unpack(d, old, new) \in Dirs
           /\ \A n \in Names : new[n] # Absent => Unpack(d, old, new)[n] = new[n]
           /\ \A n \in Names : new[n] = Absent => Unpack(d, old, new)[n] \in {Absent, d[n]}
BY DEF Unpack, Dirs

\* A toolset that yum brings is as it was, or is of another version, with its files
\* laid down and to be fixed; if it is not moved, the links that were left lead on.
LEMMA Brought ==
    ASSUME TypeOK, NEW ts \in SUBSET Toolsets, Bring(ts)
    PROVE  /\ version' \in [Toolsets -> Layouts \cup {NoVersion}]
           /\ dir' \in [Toolsets -> Dirs]
           /\ moved \subseteq moved' /\ moved' \subseteq Toolsets
           /\ fixed' \subseteq fixed
           /\ \A t \in ts : version'[t] \in Layouts
           /\ \A t \in Toolsets :
                 \/ /\ version'[t] = version[t] /\ dir'[t] = dir[t]
                    /\ t \in fixed => t \in fixed'
                 \/ /\ t \in ts /\ t \notin fixed' /\ version'[t] \in Layouts
                    /\ version'[t] # version[t]
                    /\ dir'[t] = Unpack(dir[t], version[t], version'[t])
                    /\ t \notin moved' => \A n \in Names :
                          version'[t][n] = Absent /\ dir'[t][n] \in Names => Resolves(dir'[t], n)
<1>1. PICK new \in [ts -> Layouts] :
        LET changed == {t \in ts : new[t] # version[t]}
        IN  /\ version' = [t \in Toolsets |-> IF t \in changed THEN new[t] ELSE version[t]]
            /\ dir' = [t \in Toolsets |-> IF t \in changed THEN Unpack(dir[t], version[t], new[t])
                                                           ELSE dir[t]]
            /\ fixed' = fixed \ changed
            /\ moved' = moved \cup {t \in changed : \E n \in Names :
                                        /\ new[t][n] = Absent
                                        /\ dir'[t][n] \in Names /\ ~Resolves(dir'[t], n)}
  BY DEF Bring
<1> DEFINE changed == {t \in ts : new[t] # version[t]}
           lost == {t \in changed : \E n \in Names :
                      /\ new[t][n] = Absent
                      /\ dir'[t][n] \in Names /\ ~Resolves(dir'[t], n)}
<1>2. /\ version' = [t \in Toolsets |-> IF t \in changed THEN new[t] ELSE version[t]]
      /\ dir' = [t \in Toolsets |-> IF t \in changed THEN Unpack(dir[t], version[t], new[t])
                                                     ELSE dir[t]]
      /\ fixed' = fixed \ changed
      /\ moved' = moved \cup lost
  BY <1>1
<1>3. changed \subseteq ts /\ \A t \in changed : new[t] \in Layouts
  OBVIOUS
<1>4. lost \subseteq changed
  OBVIOUS
<1>5. \A t \in Toolsets : dir[t] \in Dirs /\ version[t] \in Dirs
  BY LayoutsAssumption DEF TypeOK, NoVersion, Empty, Dirs
<1>6. \A t \in changed : Unpack(dir[t], version[t], new[t]) \in Dirs
  <2> SUFFICES ASSUME NEW t \in changed PROVE Unpack(dir[t], version[t], new[t]) \in Dirs
    OBVIOUS
  <2>1. dir[t] \in Dirs /\ version[t] \in Dirs /\ new[t] \in Dirs
    BY <1>3, <1>5, LayoutInstalled
  <2> HIDE DEF changed
  <2> QED
    BY <2>1, UnpackIs
<1>7. \A t \in changed \ lost : \A n \in Names :
         new[t][n] = Absent /\ dir'[t][n] \in Names => Resolves(dir'[t], n)
  OBVIOUS
<1>8. \A t \in ts \ changed : version[t] = new[t]
  OBVIOUS
<1>9. \A t \in ts : new[t] \in Layouts
  OBVIOUS
<1> HIDE DEF changed, lost
<1>a. \A t \in changed : new[t] # version[t]
  BY DEF changed
<1>10. \A t \in changed : /\ version'[t] = new[t] /\ t \notin fixed' /\ t \in ts
                          /\ version'[t] # version[t]
                          /\ dir'[t] = Unpack(dir[t], version[t], new[t])
  BY <1>2, <1>3, <1>a
<1>11. \A t \in Toolsets \ changed : /\ version'[t] = version[t] /\ dir'[t] = dir[t]
                                     /\ t \in fixed => t \in fixed'
  BY <1>2
<1>12. version' \in [Toolsets -> Layouts \cup {NoVersion}]
  BY <1>2, <1>3 DEF TypeOK
<1>13. dir' \in [Toolsets -> Dirs]
  BY <1>2, <1>5, <1>6
<1>14. moved' \subseteq Toolsets
  BY <1>2, <1>3, <1>4 DEF TypeOK
<1>15. \A t \in ts : version'[t] \in Layouts
  BY <1>8, <1>9, <1>10, <1>11
<1>16. \A t \in changed : t \notin moved' => \A n \in Names :
          version'[t][n] = Absent /\ dir'[t][n] \in Names => Resolves(dir'[t], n)
  BY <1>2, <1>7, <1>10
<1> QED
  BY <1>2, <1>3, <1>10, <1>11, <1>12, <1>13, <1>14, <1>15, <1>16
\* The commands of SetupRepos: the tool, the EPEL packages, what is enabled.
LEMMA CallsAre ==
    /\ Len(epelPackages) \in Nat /\ DOMAIN epelPackages = 1..Len(epelPackages)
    /\ Len(Enable) \in Nat /\ DOMAIN Enable = 1..Len(Enable)
    /\ Len(Calls) = 1 + Len(epelPackages) + Len(Enable) /\ DOMAIN Calls = 1..Len(Calls)
    /\ Calls[1] = [op |-> "install-tool", name |-> "config-manager"]
    /\ \A i \in DOMAIN epelPackages : Calls[i + 1] = [op |-> "install", name |-> epelPackages[i]]
    /\ \A i \in DOMAIN Enable :
          Calls[Len(epelPackages) + i + 1] = [op |-> "enable", name |-> Enable[i]]
<1> DEFINE E == Len(epelPackages)
           N == Len(Enable)
           a == [op |-> "install-tool", name |-> "config-manager"]
           A == <<a>>
           B == [i \in DOMAIN epelPackages |-> [op |-> "install", name |-> epelPackages[i]]]
           C == [i \in DOMAIN Enable |-> [op |-> "enable", name |-> Enable[i]]]
           R == [op : {"install-tool", "install", "enable"}, name : STRING \cup {"config-manager"}]
<1>1. E \in Nat /\ N \in Nat /\ DOMAIN epelPackages = 1..E /\ DOMAIN Enable = 1..N
  BY ReposAssumption
<1>2. A \in Seq(R) /\ Len(A) = 1 /\ A[1] = a
  <2>1. a \in R
    OBVIOUS
  <2> HIDE DEF a, R
  <2> QED
    BY <2>1
<1>3. B \in Seq(R) /\ Len(B) = E
  <2>1. \A i \in 1..E : epelPackages[i] \in STRING
    BY <1>1, ReposAssumption
  <2> QED
    BY <1>1, <2>1
<1>4. C \in Seq(R) /\ Len(C) = N
  <2>1. \A i \in 1..N : Enable[i] \in STRING
    BY <1>1, ReposAssumption
  <2> QED
    BY <1>1, <2>1
<1>5. \A i \in 1..E : B[i] = [op |-> "install", name |-> epelPackages[i]]
  BY <1>1
<1>6. \A i \in 1..N : C[i] = [op |-> "enable", name |-> Enable[i]]
  BY <1>1
<1>7. Calls = (A \o B) \o C
  BY DEF Calls
<1> HIDE DEF A, B, C, E, N, R
<1>8. /\ A \o B \in Seq(R) /\ Len(A \o B) = 1 + E
      /\ \A i \in 1..1 + E : (A \o B)[i] = IF i <= 1 THEN A[i] ELSE B[i - 1]
  <2>1. A \o B \in Seq(R) /\ Len(A \o B) = Len(A) + Len(B)
    BY <1>2, <1>3, ConcatProperties
  <2>2. \A i \in 1..Len(A) + Len(B) : (A \o B)[i] = IF i <= Len(A) THEN A[i] ELSE B[i - Len(A)]
    BY <1>2, <1>3, ConcatProperties
  <2> QED
    BY <1>2, <1>3, <2>1, <2>2
<1>9. /\ Calls \in Seq(R) /\ Len(Calls) = 1 + E + N
      /\ \A i \in 1..1 + E + N : Calls[i] = IF i <= 1 + E THEN (A \o B)[i] ELSE C[i - (1 + E)]
  <2> DEFINE D == A \o B
  <2>1. D \in Seq(R)
    BY <1>8
  <2> HIDE DEF D
  <2>2. D \o C \in Seq(R) /\ Len(D \o C) = Len(D) + Len(C)
    BY <1>4, <2>1, ConcatProperties
  <2>3. \A i \in 1..Len(D) + Len(C) : (D \o C)[i] = IF i <= Len(D) THEN D[i] ELSE C[i - Len(D)]
    BY <1>4, <2>1, ConcatProperties
  <2>4. Len(D) = 1 + E /\ Calls = D \o C /\ D = A \o B
    BY <1>7, <1>8 DEF D
  <2> QED
    BY <1>4, <2>2, <2>3, <2>4
<1>10. Calls[1] = a
  <2>1. 1 \in 1..1 + E + N /\ 1 <= 1 + E /\ 1 \in 1..1 + E
    BY <1>1
  <2>2. Calls[1] = (A \o B)[1] /\ (A \o B)[1] = A[1]
    BY <1>8, <1>9, <2>1
  <2> QED
    BY <1>2, <2>2
<1>11. ASSUME NEW i \in 1..E PROVE Calls[i + 1] = B[i]
  <2>1. i + 1 \in 1..1 + E /\ ~(i + 1 <= 1) /\ (i + 1) - 1 = i /\ i + 1 \in 1..1 + E + N
    BY <1>1
  <2>2. i + 1 <= 1 + E
    BY <1>1
  <2>3. Calls[i + 1] = (A \o B)[i + 1]
    BY <1>9, <2>1, <2>2, Zenon
  <2>4. (A \o B)[i + 1] = B[(i + 1) - 1]
    BY <1>8, <2>1, Zenon
  <2> QED
    BY <2>1, <2>3, <2>4, Zenon
<1>12. ASSUME NEW i \in 1..N PROVE Calls[E + i + 1] = C[i]
  <2>1. E + i + 1 \in 1..1 + E + N /\ ~(E + i + 1 <= 1 + E) /\ (E + i + 1) - (1 + E) = i
    BY <1>1
  <2> QED
    BY <1>9, <2>1, Zenon
<1>13. DOMAIN Calls = 1..Len(Calls)
  BY <1>9
<1> QED
  BY <1>1, <1>5, <1>6, <1>9, <1>10, <1>11, <1>12, <1>13 DEF E, N

\* A call is one of the three.
LEMMA CallIs ==
    ASSUME NEW k \in DOMAIN Calls
    PROVE  \/ k = 1 /\ Calls[k] = [op |-> "install-tool", name |-> "config-manager"]
           \/ \E i \in DOMAIN epelPackages :
                 k = i + 1 /\ Calls[k] = [op |-> "install", name |-> epelPackages[i]]
           \/ \E i \in DOMAIN Enable :
                 k = Len(epelPackages) + i + 1 /\ Calls[k] = [op |-> "enable", name |-> Enable[i]]
<1>1. CASE k = 1
  BY <1>1, CallsAre
<1>2. CASE k \in 2..Len(epelPackages) + 1
  <2>1. k - 1 \in 1..Len(epelPackages) /\ k = (k - 1) + 1
    BY <1>2, CallsAre
  <2> QED
    BY <2>1, CallsAre
<1>3. CASE k > Len(epelPackages) + 1
  <2> DEFINE i == k - Len(epelPackages) - 1
  <2>1. i \in 1..Len(Enable) /\ k = Len(epelPackages) + i + 1
    BY <1>3, CallsAre
  <2> HIDE DEF i
  <2> QED
    BY <2>1, CallsAre
<1> QED
  BY <1>1, <1>2, <1>3, CallsAre

-----------------------------------------------------------------------------
(* The stages. *)

\* The stages.
LEMMA StepsAre ==
    Steps = {"refresh", "setup-repos", "install-packages", "fix-annobin", "os-tweaks",
             "install-builddeps", "rpmbuild"}
<1>1. DOMAIN RunStages = 1..7
  BY DEF RunStages
<1>2. ASSUME NEW s PROVE s \in Steps <=> \E i \in 1..7 : RunStages[i] = s
  BY <1>1 DEF Steps, Range
<1> QED
  BY <1>2 DEF RunStages

\* The git build of all RPMs goes on where that of the source RPM ends.
LEMMA AllRPMsStages ==
    /\ AllRPMsBuild \in Seq(Stages) /\ Len(AllRPMsBuild) = 7
    /\ \A i \in 1..5 : AllRPMsBuild[i] = SrcRPMBuild[i]
    /\ AllRPMsBuild[6] = "install-builddeps" /\ AllRPMsBuild[7] = "rpmbuild"
<1> DEFINE s == SrcRPMBuild
           t == <<"install-builddeps", "rpmbuild">>
<1>1. /\ s \in Seq(Stages) /\ Len(s) = 5
  BY StepsAre DEF SrcRPMBuild, Stages
<1>2. t \in Seq(Stages) /\ Len(t) = 2 /\ t[1] = "install-builddeps" /\ t[2] = "rpmbuild"
  BY StepsAre DEF Stages
<1>3. AllRPMsBuild = s \o t
  BY DEF AllRPMsBuild
<1> HIDE DEF s, t
<1>4. /\ s \o t \in Seq(Stages) /\ Len(s \o t) = 7
      /\ \A i \in 1..7 : (s \o t)[i] = IF i <= 5 THEN s[i] ELSE t[i - 5]
  <2>1. s \o t \in Seq(Stages) /\ Len(s \o t) = Len(s) + Len(t)
    BY <1>1, <1>2, ConcatProperties
  <2>2. \A i \in 1..Len(s) + Len(t) : (s \o t)[i] = IF i <= Len(s) THEN s[i] ELSE t[i - Len(s)]
    BY <1>1, <1>2, ConcatProperties
  <2> QED
    BY <1>1, <1>2, <2>1, <2>2
<1>5. 6 - 5 = 1 /\ 7 - 5 = 2 /\ ~(6 <= 5) /\ ~(7 <= 5) /\ 6 \in 1..7 /\ 7 \in 1..7
  OBVIOUS
<1>6. \A i \in 1..5 : i \in 1..7 /\ i <= 5
  OBVIOUS
<1> QED
  BY <1>2, <1>3, <1>4, <1>5, <1>6 DEF s

\* A command begins with stages to run.
LEMMA CommandStages ==
    ASSUME NEW c \in Steps \cup Orchestrators
    PROVE  StagesOf(c) \in Seq(Stages) /\ StagesOf(c) # <<>>
<1>1. RunStages \in Seq(Stages) /\ SrcRPMBuild \in Seq(Stages) /\ AllRPMsBuild \in Seq(Stages)
  BY StepsAre, AllRPMsStages DEF Stages, RunStages, SrcRPMBuild
<1>2. RunStages # <<>> /\ SrcRPMBuild # <<>> /\ AllRPMsBuild # <<>>
  BY AllRPMsStages DEF RunStages, SrcRPMBuild
<1>3. c \in Steps => <<c>> \in Seq(Stages) /\ <<c>> # <<>>
  BY DEF Stages
<1> QED
  BY <1>1, <1>2, <1>3 DEF StagesOf, Orchestrators

\* The current stage is one of them, and more may follow.
LEMMA Current ==
    ASSUME TypeOK, ~Idle
    PROVE  /\ Head(todo) \in Stages /\ Tail(todo) \in Seq(Stages)
           /\ Len(todo) \in Nat \ {0} /\ Len(Tail(todo)) = Len(todo) - 1
           /\ Head(todo) = todo[1]
           /\ \A i \in 1..Len(todo) - 1 : Tail(todo)[i] = todo[i + 1]
           /\ Range(todo) = {Head(todo)} \cup Range(Tail(todo))
<1>1. todo \in Seq(Stages) /\ todo # <<>>
  BY DEF TypeOK, Idle, Stages
<1>2. /\ Head(todo) \in Stages /\ Tail(todo) \in Seq(Stages)
      /\ Len(todo) \in Nat \ {0} /\ Len(Tail(todo)) = Len(todo) - 1
      /\ Head(todo) = todo[1]
      /\ \A i \in 1..Len(todo) - 1 : Tail(todo)[i] = todo[i + 1]
  BY <1>1, HeadTailProperties
<1>3. ASSUME NEW s PROVE s \in Range(todo) <=> s \in {Head(todo)} \cup Range(Tail(todo))
  <2>1. s \in Range(todo) <=> \E i \in 1..Len(todo) : todo[i] = s
    BY <1>1 DEF Range
  <2>2. s \in Range(Tail(todo)) <=> \E i \in 1..Len(todo) - 1 : todo[i + 1] = s
    <3>1. DOMAIN Tail(todo) = 1..Len(todo) - 1
      BY <1>2
    <3> QED
      BY <1>2, <3>1 DEF Range
  <2>3. \A i \in 2..Len(todo) : i - 1 \in 1..Len(todo) - 1 /\ (i - 1) + 1 = i
    BY <1>2
  <2> QED
    BY <1>2, <2>1, <2>2, <2>3
<1> QED
  BY <1>2, <1>3
\* A complete command has all its stages to run from one of them on.
LEMMA Remaining ==
    ASSUME TypeOK, Aligned, cmd \in Orchestrators, ~Idle
    PROVE  \E k \in 1..Len(StagesOf(cmd)) :
              /\ Head(todo) = StagesOf(cmd)[k]
              /\ Range(todo) = {StagesOf(cmd)[j] : j \in k..Len(StagesOf(cmd))}
              /\ Range(Tail(todo)) = {StagesOf(cmd)[j] : j \in k + 1..Len(StagesOf(cmd))}
<1> DEFINE full == StagesOf(cmd)
           k == Len(full) - Len(todo) + 1
<1>1. full \in Seq(Stages) /\ Len(full) \in Nat
  BY CommandStages
<1>2. Len(todo) <= Len(full) /\ \A i \in 1..Len(todo) : todo[i] = full[Len(full) - Len(todo) + i]
  BY DEF Aligned
<1> HIDE DEF full
<1>3. k \in 1..Len(full) /\ Len(todo) = Len(full) - k + 1
  BY <1>1, <1>2, Current
<1>4. \A j \in k..Len(full) : j - k + 1 \in 1..Len(todo) /\ todo[j - k + 1] = full[j]
  BY <1>1, <1>2, <1>3
<1>5. \A i \in 1..Len(todo) : k - 1 + i \in k..Len(full) /\ todo[i] = full[k - 1 + i]
  BY <1>1, <1>2, <1>3
<1>6. Head(todo) = full[k]
  BY <1>2, <1>3, Current
<1>7. ASSUME NEW s PROVE s \in Range(todo) <=> \E j \in k..Len(full) : full[j] = s
  <2>1. s \in Range(todo) <=> \E i \in 1..Len(todo) : todo[i] = s
    BY DEF Range, TypeOK
  <2> HIDE DEF k
  <2> QED
    BY <2>1, <1>4, <1>5
<1>8. ASSUME NEW s PROVE s \in Range(Tail(todo)) <=> \E j \in k + 1..Len(full) : full[j] = s
  <2>1. s \in Range(Tail(todo)) <=> \E i \in 1..Len(todo) - 1 : todo[i + 1] = s
    <3>1. DOMAIN Tail(todo) = 1..Len(todo) - 1
      BY Current
    <3> QED
      BY <3>1, Current DEF Range
  <2>2. ASSUME NEW i \in 1..Len(todo) - 1
        PROVE  k + i \in k + 1..Len(full) /\ todo[i + 1] = full[k + i]
    <3>1. i + 1 \in 1..Len(todo) /\ k - 1 + (i + 1) = k + i /\ k + i >= k + 1
      BY <1>3, Current
    <3>2. k - 1 + (i + 1) \in k..Len(full) /\ todo[i + 1] = full[k - 1 + (i + 1)]
      BY <1>5, <3>1
    <3> QED
      BY <1>1, <1>3, <3>1, <3>2
  <2>3. ASSUME NEW j \in k + 1..Len(full)
        PROVE  j - k \in 1..Len(todo) - 1 /\ todo[(j - k) + 1] = full[j]
    <3>1. j \in k..Len(full) /\ j - k + 1 = (j - k) + 1
      BY <1>1, <1>3
    <3> QED
      BY <1>1, <1>3, <1>4, <3>1
  <2> QED
    BY <2>1, <2>2, <2>3
<1>9. Range(todo) = {full[j] : j \in k..Len(full)} /\ Range(Tail(todo)) = {full[j] : j \in k + 1..Len(full)}
  BY <1>7, <1>8
<1> QED
  BY <1>3, <1>6, <1>9 DEF full

\* What is behind and what ahead of a complete command at some of its stages.
LEMMA Place ==
    ASSUME TypeOK, Aligned, cmd \in Orchestrators, ~Idle
    PROVE  /\ At("refresh") \/ At("install-packages") => "fix-annobin" \in Range(Tail(todo))
           /\ At("install-packages") \/ At("install-builddeps") => "setup-repos" \notin Range(todo)
           /\ At("configure") \/ At("rpmbuild") =>
                 "fix-annobin" \notin Range(todo) /\ "install-packages" \notin Range(todo)
<1> PICK k \in 1..Len(StagesOf(cmd)) :
              /\ Head(todo) = StagesOf(cmd)[k]
              /\ Range(todo) = {StagesOf(cmd)[j] : j \in k..Len(StagesOf(cmd))}
              /\ Range(Tail(todo)) = {StagesOf(cmd)[j] : j \in k + 1..Len(StagesOf(cmd))}
  BY Remaining
<1>1. CASE cmd = "run"
  BY <1>1 DEF StagesOf, RunStages, At
<1>2. CASE cmd = "git-src-rpm-build"
  BY <1>2 DEF StagesOf, SrcRPMBuild, At
<1>3. CASE cmd = "git-all-rpms-build"
  <2>1. /\ AllRPMsBuild[1] = "setup-repos" /\ AllRPMsBuild[2] = "refresh"
        /\ AllRPMsBuild[3] = "install-packages" /\ AllRPMsBuild[4] = "fix-annobin"
        /\ AllRPMsBuild[5] = "configure" /\ AllRPMsBuild[6] = "install-builddeps"
        /\ AllRPMsBuild[7] = "rpmbuild" /\ Len(AllRPMsBuild) = 7
    BY AllRPMsStages DEF SrcRPMBuild
  <2>2. StagesOf(cmd) = AllRPMsBuild
    BY <1>3 DEF StagesOf
  <2>3. /\ Head(todo) = AllRPMsBuild[k] /\ k \in 1..7
        /\ Range(todo) = {AllRPMsBuild[j] : j \in k..7}
        /\ Range(Tail(todo)) = {AllRPMsBuild[j] : j \in k + 1..7}
    BY <2>1, <2>2
  <2>4. At("refresh") \/ At("install-packages") => k \in {2, 3}
    BY <2>1, <2>3 DEF At
  <2>5. At("install-packages") \/ At("install-builddeps") => k \in {3, 6}
    BY <2>1, <2>3 DEF At
  <2>6. At("configure") \/ At("rpmbuild") => k \in {5, 7}
    BY <2>1, <2>3 DEF At
  <2>7. k \in {2, 3} => 4 \in k + 1..7
    OBVIOUS
  <2>8. k \in {3, 6} => \A j \in k..7 : j \in 3..7
    OBVIOUS
  <2>9. k \in {5, 7} => \A j \in k..7 : j \in 5..7
    OBVIOUS
  <2>10. \A j \in 3..7 : AllRPMsBuild[j] # "setup-repos"
    BY <2>1
  <2>11. \A j \in 5..7 : AllRPMsBuild[j] # "fix-annobin" /\ AllRPMsBuild[j] # "install-packages"
    BY <2>1
  <2> QED
    BY <2>1, <2>3, <2>4, <2>5, <2>6, <2>7, <2>8, <2>9, <2>10, <2>11
<1> QED
  BY <1>1, <1>2, <1>3 DEF Orchestrators

-----------------------------------------------------------------------------
(* Types. *)

\* At first nothing is there but what the image brings.
LEMMA InitTyped == Init => TypeOK
<1> SUFFICES ASSUME Init PROVE TypeOK
  OBVIOUS
<1>1. call \in 1..Len(epelPackages) + Len(Enable) + 2
  BY CallsAre DEF Init
<1>2. version \in [Toolsets -> Layouts \cup {NoVersion}] /\ dir \in [Toolsets -> Dirs]
  BY DEF Init, Empty, Dirs
<1>3. defined \subseteq BaseRepos \cup Range(Enable) /\ enabled \subseteq defined
  BY ReposAssumption DEF Init
<1>4. commands \in 0..MaxCommands
  BY MaxCommandsAssumption DEF Init
<1> QED
  BY <1>1, <1>2, <1>3, <1>4 DEF Init, TypeOK

\* The flow keeps its type in every step.
LEMMA FlowTyped ==
    ASSUME TypeOK, Next
    PROVE  /\ cmd' \in Steps \cup Orchestrators \cup {"none"}
           /\ todo' \in Seq(Stages)
           /\ call' \in 1..Len(epelPackages) + Len(Enable) + 2
           /\ commands' \in 0..MaxCommands
<1>1. 1 \in 1..Len(epelPackages) + Len(Enable) + 2
  BY CallsAre
<1>2. ASSUME NEW c \in Steps \cup Orchestrators, Start(c)
      PROVE  /\ cmd' \in Steps \cup Orchestrators /\ todo' \in Seq(Stages) /\ call' = 1
             /\ commands' \in 0..MaxCommands
  BY <1>2, CommandStages, MaxCommandsAssumption DEF Start, TypeOK
<1>3. CASE ~Idle /\ Advance
  BY <1>1, <1>3, Current DEF Advance, TypeOK
<1>4. CASE Fail
  <2>1. todo' \in Seq(Stages)
    BY <1>4 DEF Fail
  <2> QED
    BY <1>1, <1>4, <2>1 DEF Fail, TypeOK
<1>5. CASE SetupCall
  <2>1. call + 1 \in 1..Len(epelPackages) + Len(Enable) + 2
    BY <1>5, CallsAre DEF SetupCall
  <2> QED
    BY <1>5, <2>1 DEF SetupCall, flow, TypeOK, Stages
<1>6. CASE Symlink
  BY <1>6 DEF Symlink, flow, TypeOK, Stages
<1>7. CASE Refresh
  <2>1. 2 \in 1..Len(epelPackages) + Len(Enable) + 2
    BY CallsAre
  <2>2. CASE call' = 2 /\ UNCHANGED flow
    BY <2>1, <2>2 DEF flow, TypeOK, Stages
  <2>3. CASE Advance
    BY <1>3, <1>7, <2>3 DEF Refresh, At
  <2> QED
    BY <1>7, <2>2, <2>3 DEF Refresh, flow
<1>8. CASE SetupReposEnds \/ InstallPackages \/ InstallBuildDeps \/ FixAnnobinEnds \/ Other
  <2>1. ~Idle /\ Advance
    BY <1>8 DEF SetupReposEnds, InstallPackages, InstallBuildDeps, FixAnnobinEnds, Other, At
  <2> QED
    BY <1>3, <2>1
<1> QED
  BY <1>1, <1>2, <1>4, <1>5, <1>6, <1>7, <1>8 DEF Next

\* The repositories keep their type: what is enabled is defined.
LEMMA ReposTyped ==
    ASSUME TypeOK, Next
    PROVE  /\ tools' \subseteq {"config-manager", "base"}
           /\ defined' \subseteq BaseRepos \cup Range(Enable) /\ enabled' \subseteq defined'
<1>1. CASE SetupCall
  <2>1. call \in DOMAIN Calls /\ CanCall(Calls[call])
    BY <1>1 DEF SetupCall
  <2>2. CASE Calls[call] = [op |-> "install-tool", name |-> "config-manager"]
    BY <1>1, <2>2 DEF SetupCall, TypeOK
  <2>3. ASSUME NEW i \in DOMAIN epelPackages,
               Calls[call] = [op |-> "install", name |-> epelPackages[i]]
        PROVE  /\ tools' \subseteq {"config-manager", "base"}
               /\ defined' \subseteq BaseRepos \cup Range(Enable) /\ enabled' \subseteq defined'
    <3>1. Defines[epelPackages[i]] \subseteq BaseRepos \cup Range(Enable)
      BY ReposAssumption DEF Range
    <3> QED
      BY <1>1, <2>3, <3>1 DEF SetupCall, TypeOK
  <2>4. ASSUME NEW i \in DOMAIN Enable, Calls[call] = [op |-> "enable", name |-> Enable[i]]
        PROVE  /\ tools' \subseteq {"config-manager", "base"}
               /\ defined' \subseteq BaseRepos \cup Range(Enable) /\ enabled' \subseteq defined'
    BY <1>1, <2>1, <2>4 DEF SetupCall, CanCall, TypeOK
  <2> QED
    BY <2>1, <2>2, <2>3, <2>4, CallIs
<1>2. CASE Refresh
  BY <1>2 DEF Refresh, TypeOK
<1>3. CASE ~SetupCall /\ ~Refresh
  <2>1. UNCHANGED repos
    BY <1>3 DEF Next, Start, SetupReposEnds, InstallPackages, InstallBuildDeps, Symlink,
                FixAnnobinEnds, Other, Fail
  <2> QED
    BY <2>1 DEF repos, TypeOK
<1> QED
  BY <1>1, <1>2, <1>3

\* The toolsets keep their type.
LEMMA PluginsTyped ==
    ASSUME TypeOK, Next
    PROVE  /\ version' \in [Toolsets -> Layouts \cup {NoVersion}]
           /\ dir' \in [Toolsets -> Dirs]
           /\ fixed' \subseteq {t \in Toolsets : version'[t] # NoVersion} /\ moved' \subseteq Toolsets /\ late' \subseteq Toolsets
<1>1. ASSUME NEW ts \in SUBSET Toolsets, Bring(ts), late' \subseteq Toolsets
      PROVE  /\ version' \in [Toolsets -> Layouts \cup {NoVersion}]
             /\ dir' \in [Toolsets -> Dirs]
             /\ fixed' \subseteq {t \in Toolsets : version'[t] # NoVersion} /\ moved' \subseteq Toolsets /\ late' \subseteq Toolsets
  <2>1. \A t \in fixed' : t \in Toolsets /\ version'[t] # NoVersion
    BY <1>1, Brought, LayoutInstalled DEF TypeOK
  <2> QED
    BY <1>1, <2>1, Brought
<1>5. CASE UNCHANGED plugins
  BY <1>5 DEF plugins, TypeOK
<1>2. CASE Refresh \/ InstallPackages \/ InstallBuildDeps
  <2>1. Installed \in SUBSET Toolsets /\ Listed \in SUBSET Toolsets /\ Required \in SUBSET Toolsets
    BY ToolsetsAssumption DEF Installed
  <2>2. late' \subseteq Toolsets
    BY <1>2, <2>1 DEF Refresh, InstallPackages, InstallBuildDeps, plugins, TypeOK
  <2> QED
    BY <1>1, <1>2, <1>5, <2>1, <2>2 DEF Refresh, InstallPackages, InstallBuildDeps
<1>3. CASE Symlink
  <2>1. PICK t \in Installed, a \in Range(aliases) :
           /\ RealObj(dir[t]) \in Range(realNames)
           /\ dir' = [dir EXCEPT ![t][a] = RealObj(dir[t])]
    BY <1>3, NextLink
  <2>2. t \in Toolsets /\ a \in Names /\ RealObj(dir[t]) \in Names
    BY <2>1, NamesAre DEF Installed
  <2>3. dir' \in [Toolsets -> Dirs]
    BY <2>1, <2>2 DEF TypeOK, Dirs
  <2> QED
    BY <1>3, <2>3 DEF Symlink, TypeOK
<1>4. CASE FixAnnobinEnds
  BY <1>4 DEF FixAnnobinEnds, Installed, TypeOK
<1>6. (\E c \in Steps \cup Orchestrators : Start(c)) \/ SetupCall \/ SetupReposEnds \/ Other \/ Fail
         => UNCHANGED plugins
  BY DEF Start, SetupCall, SetupReposEnds, Other, Fail
<1> QED
  BY <1>2, <1>3, <1>4, <1>5, <1>6 DEF Next

\* Every step keeps the types.
LEMMA TypeStep == TypeOK /\ [Next]_vars => TypeOK'
<1>1. ASSUME TypeOK, Next PROVE TypeOK'
  BY <1>1, FlowTyped, ReposTyped, PluginsTyped DEF TypeOK, Stages
<1>2. ASSUME TypeOK, UNCHANGED vars PROVE TypeOK'
  BY <1>2 DEF TypeOK, vars, flow, repos, plugins
<1> QED
  BY <1>1, <1>2

\* What a container has keeps its types, in any order of commands: TypeOK.
THEOREM TypeCorrect == Spec => []TypeOK
BY InitTyped, TypeStep, PTL DEF Spec
-----------------------------------------------------------------------------
(* The stages of a complete command. *)

\* A step starts a command, ends its stage, stays in it, or fails.
LEMMA Moves ==
    ASSUME Next
    PROVE  \/ \E c \in Steps \cup Orchestrators : Start(c)
           \/ ~Idle /\ Advance
           \/ ~Idle /\ UNCHANGED flow
           \/ Fail
BY DEF Next, Refresh, SetupCall, SetupReposEnds, InstallPackages, InstallBuildDeps,
       Symlink, FixAnnobinEnds, Other, At

\* A complete command goes on to its next stage, or ends.
LEMMA AlignedStep == TypeOK /\ Aligned /\ [Next]_vars => Aligned'
<1> SUFFICES ASSUME TypeOK, Aligned, [Next]_vars, cmd' \in Orchestrators
             PROVE  /\ Len(todo') <= Len(StagesOf(cmd'))
                    /\ \A i \in 1..Len(todo') :
                          todo'[i] = StagesOf(cmd')[Len(StagesOf(cmd')) - Len(todo') + i]
  BY DEF Aligned
<1>1. ASSUME NEW c \in Steps \cup Orchestrators, Start(c) PROVE todo' = StagesOf(cmd')
  BY <1>1 DEF Start
<1>2. StagesOf(cmd') \in Seq(Stages)
  BY CommandStages
<1>3. CASE todo' = StagesOf(cmd')
  BY <1>2, <1>3
<1>4. CASE ~Idle /\ Advance
  <2>1. cmd' = cmd /\ todo' = Tail(todo) /\ Len(todo') = Len(todo) - 1 /\ Len(todo) \in Nat
    BY <1>4, Current DEF Advance
  <2>2. /\ Len(todo) <= Len(StagesOf(cmd)) /\ Len(StagesOf(cmd)) \in Nat
        /\ \A i \in 1..Len(todo) : todo[i] = StagesOf(cmd)[Len(StagesOf(cmd)) - Len(todo) + i]
    BY <1>2, <2>1 DEF Aligned
  <2>3. ASSUME NEW i \in 1..Len(todo')
        PROVE  todo'[i] = StagesOf(cmd)[Len(StagesOf(cmd)) - Len(todo') + i]
    <3>1. i + 1 \in 1..Len(todo) /\ i \in 1..Len(todo) - 1
      BY <2>1
    <3>2. Tail(todo)[i] = todo[i + 1]
      BY <1>4, <3>1, Current
    <3>3. Len(StagesOf(cmd)) - Len(todo) + (i + 1) = Len(StagesOf(cmd)) - Len(todo') + i
      <4>1. ASSUME NEW L \in Nat, NEW n \in Nat, NEW m \in Nat, m = n - 1
            PROVE  L - n + (i + 1) = L - m + i
        BY <2>1, <4>1
      <4>2. Len(todo') \in Nat
        BY <2>1, <1>4, Current
      <4> QED
        BY <2>1, <2>2, <4>1, <4>2
    <3> QED
      BY <2>1, <2>2, <3>1, <3>2, <3>3
  <2>4. StagesOf(cmd') = StagesOf(cmd)
    BY <2>1
  <2>5. Len(todo') <= Len(StagesOf(cmd))
    BY <2>1, <2>2
  <2> QED
    BY <2>3, <2>4, <2>5
<1>5. CASE Fail
  BY <1>2, <1>5 DEF Fail
<1>6. CASE UNCHANGED flow
  BY <1>6 DEF flow, Aligned
<1> QED
  BY <1>1, <1>3, <1>4, <1>5, <1>6, Moves DEF vars

\* A stage that is past now was past before, or is the one that ended.
LEMMA PastBefore ==
    ASSUME TypeOK, [Next]_vars, NEW s \in {"setup-repos", "install-packages", "fix-annobin"}, Past(s)'
    PROVE  \/ Past(s) /\ cmd \in Orchestrators
           \/ At(s) /\ Advance
<1>0. cmd' \in Orchestrators /\ todo' # <<>> /\ s \notin Range(todo')
  BY DEF Past, Idle
<1>1. ASSUME NEW c \in Steps \cup Orchestrators, Start(c) PROVE FALSE
  <2>1. c \in Orchestrators /\ todo' = StagesOf(c)
    BY <1>0, <1>1 DEF Start
  <2>2. s \in Range(RunStages) /\ s \in Range(SrcRPMBuild)
    <3>1. DOMAIN RunStages = 1..7 /\ DOMAIN SrcRPMBuild = 1..5
      BY DEF RunStages, SrcRPMBuild
    <3>2. RunStages[2] = "setup-repos" /\ RunStages[3] = "install-packages" /\ RunStages[4] = "fix-annobin"
      BY DEF RunStages
    <3>3. SrcRPMBuild[1] = "setup-repos" /\ SrcRPMBuild[3] = "install-packages" /\ SrcRPMBuild[4] = "fix-annobin"
      BY DEF SrcRPMBuild
    <3> QED
      BY <3>1, <3>2, <3>3 DEF Range
  <2>3. s \in Range(AllRPMsBuild)
    <3>1. PICK i \in 1..5 : SrcRPMBuild[i] = s
      BY <2>2 DEF Range, SrcRPMBuild
    <3>2. i \in DOMAIN AllRPMsBuild /\ AllRPMsBuild[i] = s
      BY <3>1, AllRPMsStages
    <3> QED
      BY <3>2 DEF Range
  <2> QED
    BY <1>0, <2>1, <2>2, <2>3 DEF StagesOf, Orchestrators
<1>2. CASE ~Idle /\ Advance
  <2>1. todo' = Tail(todo) /\ cmd' = cmd /\ Range(todo) = {Head(todo)} \cup Range(Tail(todo))
    BY <1>2, Current DEF Advance
  <2> QED
    BY <1>0, <1>2, <2>1 DEF Past, At
<1>3. CASE Fail
  BY <1>0, <1>3 DEF Fail
<1>4. CASE UNCHANGED flow
  BY <1>0, <1>4 DEF flow, Past, Idle
<1> QED
  BY <1>1, <1>2, <1>3, <1>4, Moves DEF vars

-----------------------------------------------------------------------------
(* The repositories. *)

\* Repositories stay as they are, or get more.
LEMMA ReposGrow ==
    ASSUME TypeOK, [Next]_vars
    PROVE  tools \subseteq tools' /\ defined \subseteq defined' /\ enabled \subseteq enabled'
<1>1. CASE SetupCall
  BY <1>1 DEF SetupCall
<1>2. CASE ~SetupCall
  BY <1>2 DEF Next, Start, Refresh, SetupReposEnds, InstallPackages, InstallBuildDeps, Symlink,
              FixAnnobinEnds, Other, Fail, repos, vars
<1> QED
  BY <1>1, <1>2

\* Each call adds what the later ones need.
LEMMA CalledStep == TypeOK /\ Called /\ [Next]_vars => Called'
<1> SUFFICES ASSUME TypeOK, Called, [Next]_vars, At("setup-repos")'
             PROVE  Called'
  BY DEF Called
<1>1. CASE call' = 1
  <2>1. \A i \in DOMAIN epelPackages : ~(i + 1 < 1)
    BY CallsAre
  <2>2. \A i \in DOMAIN Enable : ~(Len(epelPackages) + i + 1 < 1)
    BY CallsAre
  <2> QED
    BY <1>1, <2>1, <2>2 DEF Called
<1>2. CASE SetupCall
  <2> SUFFICES ASSUME SetupCall
               PROVE  /\ "config-manager" \in tools'
                      /\ \A i \in DOMAIN epelPackages :
                            i + 1 < call + 1 => Defines[epelPackages[i]] \subseteq defined'
                      /\ \A i \in DOMAIN Enable :
                            Len(epelPackages) + i + 1 < call + 1 => Enable[i] \in enabled'
    BY <1>2 DEF Called, SetupCall
  <2>1. /\ call \in DOMAIN Calls /\ call \in Nat \ {0}
        /\ call > 1 => "config-manager" \in tools
        /\ \A i \in DOMAIN epelPackages : i + 1 < call => Defines[epelPackages[i]] \subseteq defined
        /\ \A i \in DOMAIN Enable : Len(epelPackages) + i + 1 < call => Enable[i] \in enabled
    BY CallsAre DEF SetupCall, Called, TypeOK
  <2>2. call = 1 => "config-manager" \in tools'
    BY CallsAre DEF SetupCall
  <2>3. ASSUME NEW i \in DOMAIN epelPackages, i + 1 < call + 1
        PROVE  Defines[epelPackages[i]] \subseteq defined'
    <3>1. CASE i + 1 = call
      <4>1. Calls[call] = [op |-> "install", name |-> epelPackages[i]]
        BY <3>1, CallsAre
      <4> QED
        BY <4>1 DEF SetupCall
    <3>2. CASE i + 1 < call
      BY <2>1, <3>2, ReposGrow
    <3> QED
      BY <2>1, <2>3, <3>1, <3>2, CallsAre
  <2>4. ASSUME NEW i \in DOMAIN Enable, Len(epelPackages) + i + 1 < call + 1
        PROVE  Enable[i] \in enabled'
    <3>1. CASE Len(epelPackages) + i + 1 = call
      <4>1. Calls[call] = [op |-> "enable", name |-> Enable[i]]
        BY <3>1, CallsAre
      <4> QED
        BY <4>1 DEF SetupCall
    <3>2. CASE Len(epelPackages) + i + 1 < call
      BY <2>1, <3>2, ReposGrow
    <3>3. i \in Nat /\ Len(epelPackages) \in Nat /\ call \in Nat
      BY <2>1, CallsAre
    <3> QED
      BY <2>4, <3>1, <3>2, <3>3
  <2> QED
    BY <2>1, <2>2, <2>3, <2>4, ReposGrow
<1>3. CASE Refresh
  <2>1. ~At("setup-repos")
    BY <1>3 DEF Refresh, At
  <2>2. todo' # todo
    BY <2>1 DEF At, Idle
  <2> QED
    BY <1>1, <1>3, <2>2 DEF Refresh, Advance, flow
<1>4. CASE ~SetupCall /\ ~Refresh /\ call' # 1
  <2>1. UNCHANGED <<flow, call>>
    BY <1>4 DEF Next, Start, SetupReposEnds, InstallPackages, InstallBuildDeps, Symlink,
                FixAnnobinEnds, Other, Fail, Advance, vars
  <2>2. At("setup-repos") /\ call' = call
    BY <2>1 DEF At, Idle, flow
  <2> QED
    BY <2>2, ReposGrow DEF Called
<1> QED
  BY <1>1, <1>2, <1>3, <1>4

\* The image's own repositories are there at all times.
LEMMA ImageStep == TypeOK /\ ImageRepos /\ [Next]_vars => ImageRepos'
BY ReposGrow DEF ImageRepos

\* SetupRepos ends with every repository the packages come from enabled.
LEMMA ReposDoneStep == TypeOK /\ Called /\ ImageRepos /\ ReposDone /\ [Next]_vars => ReposDone'
<1> SUFFICES ASSUME TypeOK, Called, ImageRepos, ReposDone, [Next]_vars, Past("setup-repos")'
             PROVE  From \subseteq enabled'
  BY DEF ReposDone, Available
<1>1. CASE Past("setup-repos")
  BY <1>1, ReposGrow DEF ReposDone, Available
<1>2. CASE At("setup-repos") /\ Advance
  <2>0. todo' # todo /\ todo' # <<>> /\ ~Idle
    BY <1>2, Current DEF Advance, Past, Idle, At
  <2>1. SetupReposEnds
    BY <1>2, <2>0 DEF Next, vars, flow, Start, Refresh, SetupCall, InstallPackages, InstallBuildDeps, Symlink,
                FixAnnobinEnds, Other, Fail, At, Past, Idle
  <2>2. call = 2 + Len(epelPackages) + Len(Enable)
    BY <2>1, CallsAre DEF SetupReposEnds
  <2>3. ASSUME NEW r \in Range(Enable) PROVE r \in enabled
    <3>1. PICK i \in DOMAIN Enable : r = Enable[i]
      BY DEF Range
    <3>2. Len(epelPackages) + i + 1 < call
      BY <2>2, CallsAre
    <3> QED
      BY <1>2, <3>1, <3>2 DEF Called
  <2> QED
    BY <2>3, ReposGrow, ReposAssumption DEF ImageRepos
<1> QED
  BY <1>1, <1>2, PastBefore
-----------------------------------------------------------------------------
(* The toolsets. *)

\* What a step does to the toolsets: yum brings some, a link is made, or they are fixed.
LEMMA PluginSteps ==
    ASSUME [Next]_vars
    PROVE  \/ At("refresh") /\ Bring(Installed) /\ late' = late
           \/ At("install-packages") /\ Bring(Listed) /\ late' = late
           \/ /\ At("install-builddeps") /\ Bring(Required)
              /\ late' = late \cup {t \in Required : version'[t] # version[t]}
           \/ Symlink
           \/ FixAnnobinEnds
           \/ UNCHANGED plugins
BY DEF Next, Start, Refresh, SetupCall, SetupReposEnds, InstallPackages, InstallBuildDeps, Other,
       Fail, plugins, vars

\* The toolsets yum is asked for.
LEMMA ToolsetsAre ==
    Installed \in SUBSET Toolsets /\ Listed \in SUBSET Toolsets /\ Required \in SUBSET Toolsets
BY ToolsetsAssumption DEF Installed

\* No toolset is taken away, and what yum is asked for is there.
LEMMA InstalledGrow ==
    ASSUME TypeOK, [Next]_vars
    PROVE  /\ Installed \subseteq Installed'
           /\ Bring(Listed) => Listed \subseteq Installed'
           /\ Bring(Required) => Installed' \subseteq Installed \cup Required
<1>1. ASSUME NEW ts \in SUBSET Toolsets, Bring(ts)
      PROVE  /\ Installed \subseteq Installed' /\ ts \subseteq Installed'
             /\ Installed' \subseteq Installed \cup ts
  <2>1. \A t \in Toolsets : version'[t] = version[t] \/ (t \in ts /\ version'[t] \in Layouts)
    BY <1>1, Brought
  <2>2. \A t \in ts : version'[t] \in Layouts
    BY <1>1, Brought
  <2>3. \A d \in Layouts : d # NoVersion
    BY LayoutInstalled
  <2> QED
    BY <2>1, <2>2, <2>3 DEF Installed
<1>2. ASSUME Symlink \/ FixAnnobinEnds \/ UNCHANGED plugins
      PROVE  Installed \subseteq Installed'
  BY <1>2 DEF Symlink, FixAnnobinEnds, plugins, Installed
<1>3. Installed \subseteq Installed'
  BY <1>1, <1>2, PluginSteps, ToolsetsAre
<1> QED
  BY <1>1, <1>3, ToolsetsAre

\* InstallPackages brings the toolsets of the list.
LEMMA PackagesDoneStep == TypeOK /\ PackagesDone /\ [Next]_vars => PackagesDone'
<1> SUFFICES ASSUME TypeOK, PackagesDone, [Next]_vars, Past("install-packages")'
             PROVE  Listed \subseteq Installed'
  BY DEF PackagesDone
<1>1. CASE Past("install-packages")
  BY <1>1, InstalledGrow DEF PackagesDone
<1>2. CASE At("install-packages") /\ Advance
  <2>0. todo' # todo /\ todo' # <<>> /\ ~Idle
    BY <1>2, Current DEF Advance, Past, Idle, At
  <2>1. InstallPackages
    BY <1>2, <2>0 DEF Next, vars, flow, Start, Refresh, SetupCall, SetupReposEnds, InstallBuildDeps,
                      Symlink, FixAnnobinEnds, Other, Fail, At, Past, Idle
  <2> QED
    BY <2>1, InstalledGrow DEF InstallPackages
<1> QED
  BY <1>1, <1>2, PastBefore

\* When a complete command is past fix-annobin, only install-builddeps brings toolsets.
LEMMA FixDoneStep == TypeOK /\ Aligned /\ FixDone /\ [Next]_vars => FixDone'
<1> SUFFICES ASSUME TypeOK, Aligned, FixDone, [Next]_vars, Past("fix-annobin")',
                    NEW t \in Installed'
             PROVE  t \in fixed' \cup late'
  BY DEF FixDone
<1>1. CASE At("fix-annobin") /\ Advance
  <2>0. todo' # todo /\ todo' # <<>> /\ ~Idle
    BY <1>1, Current DEF Advance, Past, Idle, At
  <2>1. FixAnnobinEnds
    BY <1>1, <2>0 DEF Next, vars, flow, Start, Refresh, SetupCall, SetupReposEnds, InstallPackages,
                      InstallBuildDeps, Symlink, Other, Fail, At, Past, Idle
  <2> QED
    BY <2>1 DEF FixAnnobinEnds, Installed
<1>2. CASE Past("fix-annobin") /\ cmd \in Orchestrators
  <2>1. Installed \subseteq fixed \cup late
    BY <1>2 DEF FixDone
  <2>2. ~At("refresh") /\ ~At("install-packages")
    <3>1. ~Idle /\ "fix-annobin" \notin Range(todo)
      BY <1>2 DEF Past
    <3> QED
      BY <1>2, <3>1, Place, Current
  <2>3. CASE Bring(Required) /\ late' = late \cup {u \in Required : version'[u] # version[u]}
    <3>1. CASE version'[t] = version[t]
      <4>1. t \in Installed /\ t \in Toolsets
        BY <3>1 DEF Installed
      <4>2. t \in fixed => t \in fixed'
        BY <2>3, <3>1, <4>1, Brought, ToolsetsAre
      <4> QED
        BY <2>1, <2>3, <4>1, <4>2
    <3>2. CASE version'[t] # version[t]
      <4>1. t \in Required
        BY <2>3, <3>2, Brought, ToolsetsAre DEF Installed
      <4> QED
        BY <2>3, <3>2, <4>1
    <3> QED
      BY <3>1, <3>2
  <2>4. CASE Symlink \/ UNCHANGED plugins
    BY <2>1, <2>4 DEF Symlink, plugins, Installed
  <2>5. CASE FixAnnobinEnds
    BY <2>5 DEF FixAnnobinEnds, Installed
  <2> QED
    BY <2>2, <2>3, <2>4, <2>5, PluginSteps
<1> QED
  BY <1>1, <1>2, PastBefore

-----------------------------------------------------------------------------
(* The plugin directories. *)

\* A link that is made where nothing was takes no way away.
LEMMA ResolvesStays ==
    ASSUME NEW d \in Dirs, NEW a \in Names, d[a] = Absent, NEW x \in Names,
           NEW n \in Names, Resolves(d, n)
    PROVE  Resolves([d EXCEPT ![a] = x], n)
<1> DEFINE e == [d EXCEPT ![a] = x]
<1> SUFFICES ASSUME NEW S \in SUBSET Names, n \in S, Closed(e, S)
             PROVE  \E m \in S : e[m] = Regular
  BY DEF Resolves
<1>1. \A m \in Names \ {a} : e[m] = d[m]
  BY DEF Dirs
<1>2. Closed(d, S)
  BY <1>1, NamesAre DEF Closed
<1>3. PICK m \in S : d[m] = Regular
  BY <1>2 DEF Resolves
<1> QED
  BY <1>1, <1>3, NamesAre

\* And it leads to the file that it names.
LEMMA LinkResolves ==
    ASSUME NEW d \in Dirs, NEW a \in Names, d[a] = Absent, NEW x \in Names, d[x] = Regular
    PROVE  Resolves([d EXCEPT ![a] = x], a)
<1> DEFINE e == [d EXCEPT ![a] = x]
<1> SUFFICES ASSUME NEW S \in SUBSET Names, a \in S, Closed(e, S)
             PROVE  \E m \in S : e[m] = Regular
  BY DEF Resolves
<1>1. e[a] = x /\ e[x] = Regular
  BY NamesAre DEF Dirs
<1>2. x \in S
  BY <1>1 DEF Closed
<1> QED
  BY <1>1, <1>2

\* A file resolves.
LEMMA FileResolves ==
    ASSUME NEW d \in Dirs, NEW n \in Names, d[n] = Regular PROVE Resolves(d, n)
BY DEF Resolves

\* The files of a package stay as they were laid down.
LEMMA OwnFilesStep == TypeOK /\ OwnFiles /\ [Next]_vars => OwnFiles'
<1> SUFFICES ASSUME TypeOK, OwnFiles, [Next]_vars, NEW t \in Toolsets, NEW n \in Names,
                    version'[t][n] # Absent
             PROVE  dir'[t][n] = version'[t][n]
  BY DEF OwnFiles
<1>1. ASSUME NEW ts \in SUBSET Toolsets, Bring(ts) PROVE dir'[t][n] = version'[t][n]
  <2>1. CASE version'[t] = version[t] /\ dir'[t] = dir[t]
    BY <2>1 DEF OwnFiles
  <2>2. CASE version'[t] \in Layouts /\ dir'[t] = Unpack(dir[t], version[t], version'[t])
    BY <2>2 DEF Unpack
  <2> QED
    BY <1>1, <2>1, <2>2, Brought
<1>2. CASE Symlink
  <2>1. PICK u \in Installed, a \in Range(aliases) :
           dir[u][a] = Absent /\ dir' = [dir EXCEPT ![u][a] = RealObj(dir[u])]
    BY <1>2, NextLink
  <2>2. version' = version /\ dir[t][n] = version[t][n]
    BY <1>2 DEF Symlink, OwnFiles
  <2>3. ~(t = u /\ n = a)
    BY <2>1, <2>2
  <2> QED
    BY <2>1, <2>2, <2>3 DEF TypeOK, Dirs
<1>3. CASE FixAnnobinEnds \/ UNCHANGED plugins
  BY <1>3 DEF FixAnnobinEnds, plugins, OwnFiles
<1> QED
  BY <1>1, <1>2, <1>3, PluginSteps, ToolsetsAre

\* The links of fix-annobin lead to the plugin, unless an update moved it.
LEMMA OwnLinksStep == TypeOK /\ OwnLinks /\ [Next]_vars => OwnLinks'
<1> SUFFICES ASSUME TypeOK, OwnLinks, [Next]_vars, NEW t \in Toolsets \ moved', NEW n \in Names,
                    version'[t][n] = Absent, dir'[t][n] # Absent
             PROVE  Resolves(dir'[t], n)
  BY DEF OwnLinks
<1>1. ASSUME NEW ts \in SUBSET Toolsets, Bring(ts) PROVE Resolves(dir'[t], n)
  <2>1. t \notin moved /\ dir' \in [Toolsets -> Dirs]
    BY <1>1, Brought
  <2>2. CASE version'[t] = version[t] /\ dir'[t] = dir[t]
    BY <2>1, <2>2 DEF OwnLinks
  <2>3. CASE \A m \in Names : version'[t][m] = Absent /\ dir'[t][m] \in Names => Resolves(dir'[t], m)
    <3>1. dir'[t] \in Dirs
      BY <2>1
    <3>2. dir'[t][n] \in Names \cup {Regular}
      BY <3>1 DEF Dirs
    <3> QED
      BY <2>3, <3>1, <3>2, FileResolves
  <2> QED
    BY <1>1, <2>2, <2>3, Brought
<1>2. CASE Symlink
  <2>1. PICK u \in Installed, a \in Range(aliases) :
           /\ dir[u][a] = Absent
           /\ RealObj(dir[u]) \in Range(realNames) /\ dir[u][RealObj(dir[u])] = Regular
           /\ dir' = [dir EXCEPT ![u][a] = RealObj(dir[u])]
    BY <1>2, NextLink
  <2>2. version' = version /\ moved' = moved /\ u \in Toolsets /\ dir[u] \in Dirs
        /\ a \in Names /\ RealObj(dir[u]) \in Names
    BY <1>2, <2>1, NamesAre DEF Symlink, TypeOK, Installed
  <2>3. CASE t # u
    <3>1. dir'[t] = dir[t]
      BY <2>1, <2>3 DEF TypeOK
    <3> QED
      BY <2>2, <3>1 DEF OwnLinks
  <2>4. CASE t = u
    <3>1. dir'[t] = [dir[t] EXCEPT ![a] = RealObj(dir[t])]
      BY <2>1, <2>2, <2>4 DEF TypeOK
    <3>2. CASE n = a
      BY <2>1, <2>2, <2>4, <3>1, <3>2, LinkResolves
    <3>3. CASE n # a
      <4>1. dir'[t][n] = dir[t][n]
        BY <2>2, <2>4, <3>1, <3>3 DEF Dirs
      <4>2. Resolves(dir[t], n)
        BY <2>2, <4>1 DEF OwnLinks
      <4> QED
        BY <2>1, <2>2, <2>4, <3>1, <4>2, ResolvesStays
    <3> QED
      BY <3>2, <3>3
  <2> QED
    BY <2>3, <2>4
<1>3. CASE FixAnnobinEnds \/ UNCHANGED plugins
  BY <1>3 DEF FixAnnobinEnds, plugins, OwnLinks
<1> QED
  BY <1>1, <1>2, <1>3, PluginSteps, ToolsetsAre

\* A toolset that is installed has a file for RealObj to find.
LEMMA InstalledHasPlugin ==
    ASSUME TypeOK, OwnFiles, NEW t \in Installed
    PROVE  RealObj(dir[t]) # Absent
<1>1. t \in Toolsets /\ version[t] \in Layouts /\ dir[t] \in Dirs
  BY DEF Installed, TypeOK
<1>2. PICK n \in Range(realNames) : version[t][n] = Regular
  BY <1>1, LayoutInstalled
<1>3. dir[t][n] = Regular
  BY <1>1, <1>2, NamesAre DEF OwnFiles
<1> QED
  BY <1>1, <1>2, <1>3, RealObjIs

\* fix-annobin ends when no alias is left to be made, and none goes away.
LEMMA AllMadeStep == TypeOK /\ OwnFiles /\ AllMade /\ [Next]_vars => AllMade'
<1> SUFFICES ASSUME TypeOK, OwnFiles, AllMade, [Next]_vars, NEW t \in fixed', NEW a \in Range(aliases)
             PROVE  dir'[t][a] # Absent
  BY DEF AllMade
<1>1. ASSUME NEW ts \in SUBSET Toolsets, Bring(ts) PROVE dir'[t][a] # Absent
  <2>1. t \in fixed /\ t \in Toolsets
    BY <1>1, Brought DEF TypeOK
  <2>2. dir'[t] = dir[t]
    BY <1>1, <2>1, Brought
  <2> QED
    BY <2>1, <2>2 DEF AllMade
<1>2. CASE Symlink
  <2>1. PICK u \in Installed, b \in Range(aliases) :
           /\ RealObj(dir[u]) \in Range(realNames)
           /\ dir' = [dir EXCEPT ![u][b] = RealObj(dir[u])]
    BY <1>2, NextLink
  <2>2. t \in fixed /\ t \in Toolsets /\ a \in Names /\ dir[t] \in Dirs /\ dir[t][a] # Absent
    BY <1>2, NamesAre DEF Symlink, AllMade, TypeOK
  <2>3. dir'[t][a] \in {dir[t][a], RealObj(dir[u])}
    BY <2>1, <2>2 DEF TypeOK, Dirs
  <2> QED
    BY <2>1, <2>2, <2>3, NamesAre
<1>3. CASE FixAnnobinEnds
  <2>1. t \in Installed /\ Missing(dir[t]) = {} /\ dir' = dir
    BY <1>3 DEF FixAnnobinEnds, Unfinished
  <2>2. RealObj(dir[t]) # Absent
    BY <2>1, InstalledHasPlugin
  <2> QED
    BY <2>1, <2>2 DEF Missing
<1>4. CASE UNCHANGED plugins
  BY <1>4 DEF plugins, AllMade
<1> QED
  BY <1>1, <1>2, <1>3, <1>4, PluginSteps, ToolsetsAre

\* With every alias made, each leads to the plugin, along the package's links or
\* fix-annobin's.
LEMMA FixedFound ==
    ASSUME TypeOK, OwnFiles, OwnLinks, AllMade, NEW t \in fixed \ moved
    PROVE  PluginFound(t)
<1> DEFINE d == dir[t]
           v == version[t]
           w == [m \in Names |-> IF v[m] = Absent /\ m \in Range(aliases) THEN Regular ELSE v[m]]
<1>1. t \in Toolsets /\ v \in Layouts /\ d \in Dirs /\ v \in Dirs
  BY LayoutInstalled DEF TypeOK
<1>2. \A a \in Range(aliases) : d[a] # Absent
  BY DEF AllMade
<1>3. \A n \in Names : v[n] # Absent => d[n] = v[n]
  BY <1>1 DEF OwnFiles
<1>4. \A n \in Names : v[n] = Absent /\ d[n] # Absent => Resolves(d, n)
  BY <1>1 DEF OwnLinks
<1>5. \A n \in Names : v[n] \in Names => Resolves(w, n)
  BY <1>1, LayoutsAssumption
<1>6. \A n \in Names : v[n] # Absent \/ n \notin Range(aliases) => w[n] = v[n]
  OBVIOUS
<1>7. \A n \in Names : v[n] \in {Absent, Regular} \cup Names
  BY <1>1 DEF Dirs
<1> HIDE DEF d, v, w
<1> SUFFICES ASSUME NEW a \in Range(aliases) PROVE Resolves(d, a)
  BY DEF PluginFound, d
<1>8. a \in Names
  BY NamesAre
<1>9. CASE v[a] = Absent
  BY <1>2, <1>4, <1>8, <1>9
<1>10. CASE v[a] = Regular
  BY <1>1, <1>3, <1>8, <1>10, NamesAre, FileResolves
<1>11. CASE v[a] \in Names
  <2> SUFFICES ASSUME NEW S \in SUBSET Names, a \in S, Closed(d, S)
               PROVE  \E n \in S : d[n] = Regular
    BY DEF Resolves
  <2>1. Closed(w, S)
    <3> SUFFICES ASSUME NEW n \in S, w[n] \in Names PROVE w[n] \in S
      BY DEF Closed
    <3>1. w[n] = v[n] /\ v[n] # Absent
      BY <1>6, NamesAre DEF w
    <3> QED
      BY <1>3, <3>1 DEF Closed
  <2>2. PICK n \in S : w[n] = Regular
    BY <1>5, <1>8, <1>11, <2>1 DEF Resolves
  <2>3. CASE v[n] # Absent
    BY <1>3, <1>6, <2>2, <2>3
  <2>4. CASE v[n] = Absent
    <3>1. n \in Range(aliases)
      BY <1>6, <2>2, <2>4, NamesAre
    <3>2. Resolves(d, n)
      BY <1>2, <1>4, <2>4, <3>1
    <3> QED
      BY <3>2 DEF Resolves
  <2> QED
    BY <2>3, <2>4
<1> QED
  BY <1>7, <1>8, <1>9, <1>10, <1>11

-----------------------------------------------------------------------------
(* The theorems. *)

\* Nothing is installed at first.
LEMMA InitInv == Init => IInv
<1> SUFFICES ASSUME Init PROVE IInv
  OBVIOUS
<1>1. cmd \notin Orchestrators /\ Idle
  BY DEF Init, Orchestrators, Idle
<1>2. \A t \in Toolsets, n \in Names : version[t][n] = Absent /\ dir[t][n] = Absent
  BY DEF Init, NoVersion, Empty
<1>3. ImageRepos
  BY DEF Init, ImageRepos
<1>4. OwnFiles /\ OwnLinks /\ AllMade
  BY <1>2 DEF Init, OwnFiles, OwnLinks, AllMade
<1> QED
  BY <1>1, <1>3, <1>4, InitTyped
     DEF IInv, Aligned, Called, ReposDone, PackagesDone, FixDone, Past, At

\* All of it holds in every state: what the later theorems rest on.
THEOREM Invariance == Spec => []IInv
<1>1. IInv /\ [Next]_vars => IInv'
  BY TypeStep, AlignedStep, CalledStep, ImageStep, ReposDoneStep, PackagesDoneStep, FixDoneStep,
     OwnFilesStep, OwnLinksStep, AllMadeStep DEF IInv
<1> QED
  BY <1>1, InitInv, PTL DEF Spec

\* No complete run comes to a command of yum that must fail, whatever ran before it in
\* the container: NeverStuck (osprep.go:93-127, steps.go:376-390, gitsteps.go:218-234).
THEOREM RunsNeverStuck == Spec => []NeverStuck
<1>1. ASSUME IInv, cmd \in Orchestrators, At("setup-repos"), call \in DOMAIN Calls
      PROVE  CanCall(Calls[call])
  <2> SUFFICES ASSUME NEW i \in DOMAIN Enable, call = Len(epelPackages) + i + 1,
                      Calls[call] = [op |-> "enable", name |-> Enable[i]]
               PROVE  "config-manager" \in tools /\ Enable[i] \in defined
    BY <1>1, CallIs DEF CanCall
  <2>1. call > 1 /\ \A j \in DOMAIN epelPackages : j + 1 < call
    BY CallsAre
  <2>2. "config-manager" \in tools /\ \A j \in DOMAIN epelPackages : Defines[epelPackages[j]] \subseteq defined
    BY <1>1, <2>1 DEF IInv, Called
  <2>3. UNION Range(Defines) \subseteq defined
    BY <2>2, ReposAssumption DEF Range
  <2>4. Enable[i] \in BaseRepos \cup UNION Range(Defines)
    BY ReposAssumption DEF Range
  <2> QED
    BY <1>1, <2>2, <2>3, <2>4 DEF IInv, ImageRepos
<1>2. ASSUME IInv, cmd \in Orchestrators, At("install-packages") \/ At("install-builddeps")
      PROVE  Available
  <2>1. ~Idle /\ "setup-repos" \notin Range(todo)
    BY <1>2, Place DEF IInv, At
  <2> QED
    BY <1>2, <2>1 DEF IInv, ReposDone, Past
<1>3. IInv => NeverStuck
  BY <1>1, <1>2 DEF NeverStuck
<1> QED
  BY <1>3, Invariance, PTL

\* After fix-annobin gcc finds the plugin under every alias, whatever the packages ship
\* and wherever an earlier fix-annobin failed, but for toolsets with a link that leads
\* nowhere: AliasesResolve (osprep.go:141-199).
THEOREM AliasesFound == Spec => []AliasesResolve
<1>1. IInv => AliasesResolve
  BY FixedFound DEF IInv, AliasesResolve
<1> QED
  BY <1>1, Invariance, PTL

\* When cmake or rpmbuild of a complete run starts, gcc finds the plugin of every toolset
\* in the package list, but for those that install-builddeps changed in this run and those
\* with a link that leads nowhere: ListedFixed (osprep.go:144-149, gitsteps.go:233-244).
THEOREM ListedFound == Spec => []ListedFixed
<1>1. ASSUME IInv, cmd \in Orchestrators, At("configure") \/ At("rpmbuild"),
             NEW t \in Listed \ (late \cup moved)
      PROVE  PluginFound(t)
  <2>1. Past("fix-annobin") /\ Past("install-packages")
    BY <1>1, Place DEF IInv, At, Past
  <2>2. t \in Installed /\ Installed \subseteq fixed \cup late
    BY <1>1, <2>1 DEF IInv, PackagesDone, FixDone
  <2> QED
    BY <1>1, <2>2, FixedFound DEF IInv
<1>2. IInv => ListedFixed
  BY <1>1 DEF ListedFixed
<1> QED
  BY <1>2, Invariance, PTL
=============================================================================
