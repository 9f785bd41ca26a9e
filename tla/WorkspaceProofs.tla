--------------------------- MODULE WorkspaceProofs ---------------------------
(***************************************************************************)
(* Why a run is refused a directory that is there only for the reasons the *)
(* properties name, for any runs of any kinds, overlapping and dying       *)
(* anywhere.  But for setup only CreateUser makes a directory as root: an  *)
(* orchestrator's log directory is there already, made by its launcher     *)
(* (Plans).  So a directory that root owns is on its way to chown or       *)
(* stray (RootOnly), or is one above it that was made along the way; and   *)
(* what is above build-one's own does not lock it out, for they are there  *)
(* by then (LogAbove, BuiltFirst).                                         *)
(***************************************************************************)
EXTENDS Workspace, SequenceTheorems, TLAPS

BuildOneKinds == {"build-one", "setup", "debug"}
BuildOneOwn == {"SRPMS", "log/build-one", "built/build-one"}

\* What an access of a run of kind k is to.
Regular(k, a) ==
    /\ a.op = "user" => a.dir \notin {"log", "built"}
    /\ a.op = "user" /\ k \in BuildOneKinds => a.dir \in BuildOneOwn
    /\ a.op \in {"own", "chown"} => a.dir \in BuildOneOwn \cup {"built"}
    /\ a.op = "root" /\ k = "setup" => a.dir = "log/build-one"

\* In the accesses to come a log directory is root's only after it was the user's, but
\* for setup, which begins with its log.
Planned(k, s) ==
    \A i \in 1..Len(s) :
        /\ Regular(k, s[i])
        /\ i > 1 => s[i].op # "chown" /\ (s[i].op = "root" => s[i - 1] = Op("user", s[i].dir))

Plans ==
    \A p \in Procs : /\ Planned(kind[p], todo[p])
                     /\ (At(p, "root") /\ kind[p] # "setup") \/ At(p, "chown") =>
                           owner[Dir(p)] # "absent"

\* CreateUser has been through built/build-one before a build is collected there.
MadeFirst(s) ==
    \A i \in 1..Len(s) : s[i].op = "user" /\ s[i].dir = "built/build-one" =>
        \E j \in 1..(i - 1) : s[j].op \in {"own", "chown"} /\ s[j].dir = "built/build-one"
BuiltFirst == owner["built/build-one"] # "absent" \/ \A p \in Procs : MadeFirst(todo[p])

\* Nothing is made without what is above it.
ParentsMade == \A d \in Dirs : owner[d] # "absent" => Parent[d] = "/data" \/ owner[Parent[d]] # "absent"

\* A log/ that root made has build-one's own log in it.
LogAbove == owner["log"] = "root" => owner["log/build-one"] # "absent"

RootOnly == \A d \in Dirs \ {"log", "built"} : owner[d] = "root" => d \in stray \cup Pending

IInv == Plans /\ BuiltFirst /\ ParentsMade /\ LogAbove /\ RootOnly

-----------------------------------------------------------------------------
(* Types. *)

\* An access is of the type of accesses.
LEMMA OpTyped == ASSUME NEW d \in Dirs
                 PROVE  /\ \A op \in {"root", "own", "chown", "user"} : Op(op, d) \in Ops
                        /\ Perhaps(d) \in Ops
BY DEF Op, Perhaps, Ops

\* Each kind of run has a sequence of them, and is not done when it begins.
LEMMA AccessesTyped == \A k \in AllKinds : Accesses(k) \in Seq(Ops) /\ Accesses(k) # <<>>
<1>1. \A op \in {"root", "own", "user"} : \A d \in Dirs : Op(op, d) \in Ops /\ Perhaps(d) \in Ops
  BY OpTyped
<1>2. /\ {"SRPMS", "boost-cache", "built", "log/build-one", "built/build-one"} \subseteq Dirs
      /\ {"log/git-build-src-rpm", "built/git-build-src-rpm"} \subseteq Dirs
      /\ {"log/git-build-rpms", "built/git-build-rpms"} \subseteq Dirs
  BY DEF Dirs, LogDirs, BuiltDirs
<1> HIDE DEF Op, Perhaps, Ops, Dirs
<1>3. Accesses("build-one") \in Seq(Ops) /\ Accesses("build-one") # <<>>
  BY <1>1, <1>2 DEF Accesses
<1>4. Accesses("setup") \in Seq(Ops) /\ Accesses("setup") # <<>>
  BY <1>1, <1>2 DEF Accesses
<1>5. Accesses("debug") \in Seq(Ops) /\ Accesses("debug") # <<>>
  BY <1>1, <1>2 DEF Accesses
<1>6. \A k \in {"git-build-src-rpm", "git-build-rpms"} : Accesses(k) \in Seq(Ops) /\ Accesses(k) # <<>>
  BY <1>1, <1>2 DEF Accesses
<1> QED
  BY <1>3, <1>4, <1>5, <1>6 DEF AllKinds

\* The run's next access, and what is left after it.
LEMMA NextAccess ==
    ASSUME TypeOK, NEW p \in Procs, ~Idle(p)
    PROVE  /\ todo[p] \in Seq(Ops) /\ todo[p] # <<>>
           /\ Head(todo[p]) \in Ops /\ Dir(p) \in Dirs /\ Tail(todo[p]) \in Seq(Ops)
           /\ 1 \in 1..Len(todo[p])
<1>1. todo[p] \in Seq(Ops) /\ todo[p] # <<>>
  BY DEF TypeOK, Idle
<1>2. Head(todo[p]) \in Ops /\ Tail(todo[p]) \in Seq(Ops) /\ 1 \in 1..Len(todo[p])
  BY <1>1
<1> QED
  BY <1>1, <1>2 DEF Dir, Ops

\* Every step keeps the types.
LEMMA TypeStep == TypeOK /\ [Next]_vars => TypeOK'
<1> SUFFICES ASSUME TypeOK, [Next]_vars PROVE TypeOK'
  OBVIOUS
<1> USE DEF TypeOK
<1>1. \A p \in Procs : ~Idle(p) => /\ Head(todo[p]) \in Ops /\ Dir(p) \in Dirs
                                   /\ Tail(todo[p]) \in Seq(Ops) /\ 1 \in 1..Len(todo[p])
  BY NextAccess
<1>2. ASSUME NEW p \in Procs, ~Idle(p), Proceed(p)
      PROVE  /\ todo' \in [Procs -> Seq(Ops)]
             /\ rc' \in [Procs -> {"none", "ok", "denied", "killed"}]
  BY <1>1, <1>2 DEF Proceed
<1>3. ASSUME NEW d, NEW u \in {"root", "user"}
      PROVE  MkdirAll(d, u) \in [Dirs -> {"absent", "root", "user"}]
  BY DEF MkdirAll
<1>4. ASSUME NEW p \in Procs, NEW k \in Kinds, Start(p, k) PROVE TypeOK'
  BY <1>4, AccessesTyped, KindsAssumption, MaxRunsAssumption DEF Start
<1>5. ASSUME NEW p \in Procs, RootMkdir(p) PROVE TypeOK'
  BY <1>2, <1>3, <1>5 DEF RootMkdir, Logged, Path, At
<1>6. ASSUME NEW p \in Procs, SkipDir(p) PROVE TypeOK'
  BY <1>1, <1>2, <1>6 DEF SkipDir, At
<1>7. ASSUME NEW p \in Procs, CreateDir(p) PROVE TypeOK'
  <2>1. [todo[p] EXCEPT ![1] = Op("chown", Dir(p))] \in Seq(Ops)
    BY <1>1, <1>7, OpTyped, ExceptSeq DEF CreateDir, At
  <2> QED
    BY <1>3, <1>7, <2>1 DEF CreateDir
<1>8. ASSUME NEW p \in Procs, Chown(p) PROVE TypeOK'
  BY <1>1, <1>2, <1>8 DEF Chown, At
<1>9. ASSUME NEW p \in Procs, UserMkdir(p) PROVE TypeOK'
  BY <1>2, <1>3, <1>9 DEF UserMkdir, At
<1>10. ASSUME NEW p \in Procs, NotNeeded(p) PROVE TypeOK'
  BY <1>2, <1>10 DEF NotNeeded, At
<1>11. ASSUME NEW p \in Procs, Denied(p) \/ Kill(p) PROVE TypeOK'
  <2>1. <<>> \in Seq(Ops)
    BY EmptySeq
  <2> QED
    BY <1>11, <2>1 DEF Denied, Kill, Path
<1>12. CASE UNCHANGED vars
  BY <1>12 DEF vars
<1> QED
  BY <1>4, <1>5, <1>6, <1>7, <1>8, <1>9, <1>10, <1>11, <1>12 DEF Next

\* The state has its type in every run, whatever runs overlap: TypeOK.
THEOREM TypeCorrect == Spec => []TypeOK
<1>1. Init => TypeOK
  BY MaxRunsAssumption DEF Init, TypeOK, AllKinds
<1> QED
  BY <1>1, TypeStep, PTL DEF Spec

-----------------------------------------------------------------------------
(* What the runs have still to do. *)

\* A plan that has a log directory as root second, if at all.
LEMMA PlannedIf ==
    ASSUME NEW k, NEW s, NEW n \in Nat, Len(s) = n,
           \A i \in 1..n : Regular(k, s[i]) /\ s[i].op # "chown" /\ (s[i].op = "root" => i = 2),
           s[2].op = "root" => s[1] = Op("user", s[2].dir)
    PROVE  Planned(k, s)
<1> SUFFICES ASSUME NEW i \in 1..n, i > 1, s[i].op = "root" PROVE s[i - 1] = Op("user", s[i].dir)
  BY DEF Planned
<1>1. i = 2
  OBVIOUS
<1> QED
  BY <1>1

\* What a run is going to do, when it begins.
LEMMA AccessesPlanned ==
    ASSUME NEW k \in AllKinds
    PROVE  /\ Planned(k, Accesses(k)) /\ MadeFirst(Accesses(k))
           /\ Head(Accesses(k)).op # "chown" /\ (Head(Accesses(k)).op = "root" => k = "setup")
<1> DEFINE s == Accesses(k)
           Fits(n) == /\ Len(s) = n
                      /\ Head(s).op # "chown" /\ (Head(s).op = "root" => k = "setup")
                      /\ \A i \in 1..n : /\ Regular(k, s[i])
                                         /\ s[i].op # "chown" /\ (s[i].op = "root" => i = 2)
                      /\ s[2].op = "root" => s[1] = Op("user", s[2].dir)
<1> USE DEF BuildOneKinds, BuildOneOwn
<1>1. CASE k = "build-one"
  <2>1. Fits(8)
    <3>1. \A i \in 1..8 : Regular(k, s[i])
      BY <1>1 DEF Accesses, Regular, Op, Perhaps
    <3>2. \A i \in 1..8 : s[i].op # "chown" /\ (s[i].op = "root" => i = 2)
      BY <1>1 DEF Accesses, Op, Perhaps
    <3>3. Len(s) = 8 /\ Head(s) = Op("user", "log/build-one")
      BY <1>1 DEF Accesses
    <3>4. s[1] = Op("user", "log/build-one") /\ s[2] = Op("root", "log/build-one")
      BY <1>1 DEF Accesses
    <3> HIDE DEF s
    <3>5. Head(s).op \notin {"root", "chown"} /\ s[1] = Op("user", s[2].dir)
      BY <3>3, <3>4 DEF Op
    <3> QED
      BY <3>1, <3>2, <3>3, <3>5
  <2>2. MadeFirst(s)
    <3>1. \A i \in 1..8 : s[i] = Op("user", "built/build-one") => i = 8
      BY <1>1 DEF Accesses, Op, Perhaps
    <3>2. s[5] = Op("own", "built/build-one")
      BY <1>1 DEF Accesses
    <3>3. \A i \in 1..8 : s[i].op = "user" /\ s[i].dir = "built/build-one" => i = 8
      BY <1>1 DEF Accesses, Op, Perhaps
    <3> HIDE DEF s
    <3>4. 5 \in 1..(8 - 1) /\ s[5].op = "own" /\ s[5].dir = "built/build-one"
      BY <3>2 DEF Op
    <3> QED
      BY <2>1, <3>3, <3>4 DEF MadeFirst
  <2> HIDE DEF s
  <2>3. Planned(k, s)
    BY <2>1, PlannedIf
  <2> QED
    BY <2>1, <2>2, <2>3 DEF s
<1>2. CASE k = "debug"
  <2>1. Fits(5)
    BY <1>2 DEF Accesses, Regular, Op, Perhaps
  <2>2. MadeFirst(s)
    <3>1. s[3] = Op("own", "built/build-one")
      BY <1>2 DEF Accesses
    <3>2. \A i \in 1..5 : s[i].op = "user" /\ s[i].dir = "built/build-one" => i = 5
      BY <1>2 DEF Accesses, Op, Perhaps
    <3> HIDE DEF s
    <3>3. 3 \in 1..(5 - 1) /\ s[3].op = "own" /\ s[3].dir = "built/build-one"
      BY <3>1 DEF Op
    <3> QED
      BY <2>1, <3>2, <3>3 DEF MadeFirst
  <2> HIDE DEF s
  <2>3. Planned(k, s)
    BY <2>1, PlannedIf
  <2> QED
    BY <2>1, <2>2, <2>3 DEF s
<1>3. CASE k \in {"git-build-src-rpm", "git-build-rpms"}
  <2>1. Fits(6)
    BY <1>3 DEF Accesses, Regular, Op, Perhaps
  <2>2. MadeFirst(s)
    <3>1. \A i \in 1..6 : s[i].dir # "built/build-one"
      BY <1>3 DEF Accesses, Op, Perhaps
    <3> HIDE DEF s
    <3> QED
      BY <2>1, <3>1 DEF MadeFirst
  <2> HIDE DEF s
  <2>3. Planned(k, s)
    BY <2>1, PlannedIf
  <2> QED
    BY <2>1, <2>2, <2>3 DEF s
<1>4. CASE k = "setup"
  <2>1. Len(s) = 7 /\ Head(s) = Op("root", "log/build-one")
    BY <1>4 DEF Accesses
  <2>2. \A i \in 1..7 : Regular(k, s[i])
    BY <1>4 DEF Accesses, Regular, Op, Perhaps
  <2>3. \A i \in 1..7 : s[i].op # "chown" /\ (s[i].op = "root" => i = 1)
    BY <1>4 DEF Accesses, Op, Perhaps
  <2>4. s[4] = Op("own", "built/build-one")
    BY <1>4 DEF Accesses
  <2>5. \A i \in 1..7 : s[i].op = "user" /\ s[i].dir = "built/build-one" => i = 7
    BY <1>4 DEF Accesses, Op, Perhaps
  <2> HIDE DEF s
  <2>6. 4 \in 1..(7 - 1) /\ s[4].op = "own" /\ s[4].dir = "built/build-one"
    BY <2>4 DEF Op
  <2>7. MadeFirst(s)
    BY <2>1, <2>5, <2>6 DEF MadeFirst
  <2>8. Planned(k, s)
    BY <2>1, <2>2, <2>3 DEF Planned
  <2>9. Head(s).op = "root"
    BY <2>1 DEF Op
  <2> QED
    BY <1>4, <2>7, <2>8, <2>9 DEF s
<1> QED
  BY <1>1, <1>2, <1>3, <1>4 DEF AllKinds

\* What is left of a plan is a plan, with a log directory next only if the user made it.
LEMMA PlanGoesOn ==
    ASSUME NEW k, NEW s \in Seq(Ops), s # <<>>, Planned(k, s)
    PROVE  /\ Planned(k, Tail(s))
           /\ Regular(k, Head(s))
           /\ Tail(s) # <<>> => /\ Head(Tail(s)).op # "chown"
                                /\ Head(Tail(s)).op = "root" => Head(s) = Op("user", Head(Tail(s)).dir)
<1>1. /\ Len(s) \in Nat /\ Len(s) >= 1 /\ Len(Tail(s)) = Len(s) - 1
      /\ \A i \in 1..Len(Tail(s)) : Tail(s)[i] = s[i + 1]
      /\ Head(s) = s[1]
  OBVIOUS
<1>2. ASSUME NEW i \in 1..Len(Tail(s))
      PROVE  /\ Regular(k, Tail(s)[i])
             /\ Tail(s)[i].op # "chown"
             /\ Tail(s)[i].op = "root" => s[i] = Op("user", Tail(s)[i].dir)
             /\ i > 1 => s[i] = Tail(s)[i - 1]
  <2>1. i + 1 \in 1..Len(s) /\ i + 1 > 1 /\ (i + 1) - 1 = i /\ Tail(s)[i] = s[i + 1]
    BY <1>1
  <2>2. i > 1 => s[i] = Tail(s)[i - 1]
    BY <1>1
  <2> QED
    BY <2>1, <2>2 DEF Planned
<1>3. Planned(k, Tail(s))
  BY <1>2 DEF Planned
<1>4. Regular(k, Head(s))
  BY <1>1 DEF Planned
<1>5. Tail(s) # <<>> => Head(Tail(s)) = Tail(s)[1] /\ 1 \in 1..Len(Tail(s))
  OBVIOUS
<1> QED
  BY <1>1, <1>2, <1>3, <1>4, <1>5

\* Once CreateUser has been through built/build-one it is there, and until then it is
\* still to come.
LEMMA FirstGoesOn ==
    ASSUME NEW s \in Seq(Ops), s # <<>>, MadeFirst(s)
    PROVE  \/ Head(s).op \in {"own", "chown"} /\ Head(s).dir = "built/build-one"
           \/ MadeFirst(Tail(s))
<1> SUFFICES ASSUME ~(Head(s).op \in {"own", "chown"} /\ Head(s).dir = "built/build-one"),
                    NEW i \in 1..Len(Tail(s)), Tail(s)[i].op = "user",
                    Tail(s)[i].dir = "built/build-one"
             PROVE  \E j \in 1..(i - 1) : /\ Tail(s)[j].op \in {"own", "chown"}
                                          /\ Tail(s)[j].dir = "built/build-one"
  BY DEF MadeFirst
<1>1. /\ Len(s) \in Nat /\ Len(s) >= 1 /\ Len(Tail(s)) = Len(s) - 1
      /\ \A j \in 1..Len(Tail(s)) : Tail(s)[j] = s[j + 1]
      /\ Head(s) = s[1]
  OBVIOUS
<1>2. i + 1 \in 1..Len(s) /\ (i + 1) - 1 = i
  BY <1>1
<1>3. PICK j \in 1..i : s[j].op \in {"own", "chown"} /\ s[j].dir = "built/build-one"
  BY <1>1, <1>2 DEF MadeFirst
<1>4. j # 1
  BY <1>1, <1>3
<1>5. j - 1 \in 1..(i - 1) /\ j - 1 \in 1..Len(Tail(s)) /\ (j - 1) + 1 = j
  BY <1>1, <1>4
<1>6. Tail(s)[j - 1] = s[j]
  BY <1>1, <1>5
<1> QED
  BY <1>3, <1>5, <1>6

-----------------------------------------------------------------------------
(* Who owns what. *)

\* A directory that is made stays, with what is above it.
LEMMA Made ==
    ASSUME TypeOK, ParentsMade, NEW d \in Dirs, NEW u \in {"root", "user"}, owner' = MkdirAll(d, u)
    PROVE  /\ ParentsMade'
           /\ owner'[d] # "absent"
           /\ \A e \in Dirs : owner[e] # "absent" => owner'[e] = owner[e]
           /\ \A e \in Dirs : owner'[e] # owner[e] => owner'[e] = u /\ e \in {d, Parent[d]}
           /\ owner[d] # "absent" => owner' = owner
<1>1. \A e \in Dirs : owner'[e] = IF owner[e] = "absent" /\ e \in {d, Parent[d]} THEN u ELSE owner[e]
  BY DEF MkdirAll, Path
<1>2. \A e \in Dirs : Parent[e] = "/data" \/ Parent[e] \in {"log", "built"}
  BY DEF Parent
<1>3. {"log", "built"} \subseteq Dirs /\ Parent["log"] = "/data" /\ Parent["built"] = "/data"
      /\ "/data" \notin Dirs
  BY DEF Parent, Dirs, LogDirs, BuiltDirs
<1>4. ParentsMade'
  BY <1>1, <1>2, <1>3 DEF ParentsMade
<1>5. owner[d] # "absent" => owner' = owner
  <2> SUFFICES ASSUME owner[d] # "absent" PROVE owner' = owner
    OBVIOUS
  <2>1. \A e \in Dirs : owner'[e] = owner[e]
    BY <1>1, <1>2, <1>3 DEF ParentsMade
  <2>2. DOMAIN owner' = Dirs /\ DOMAIN owner = Dirs /\ owner' = [e \in Dirs |-> owner'[e]]
        /\ owner = [e \in Dirs |-> owner[e]]
    BY DEF TypeOK, MkdirAll
  <2> QED
    BY <2>1, <2>2
<1> QED
  BY <1>1, <1>4, <1>5

\* Nothing is made at first, and nobody is under way.
LEMMA InitOrderly == Init => IInv
BY DEF Init, IInv, Plans, Planned, BuiltFirst, MadeFirst, ParentsMade, LogAbove, RootOnly,
       Idle, At, Dirs, LogDirs, BuiltDirs

\* Where the directories lie.
LEMMA Tree ==
    /\ BuildOneOwn \subseteq Dirs \ {"log", "built"} /\ {"log", "built"} \subseteq Dirs
    /\ Parent["SRPMS"] = "/data" /\ Parent["log/build-one"] = "log"
    /\ Parent["built/build-one"] = "built" /\ Parent["log"] = "/data" /\ Parent["built"] = "/data"
    /\ \A d \in Dirs : Parent[d] \in {"log", "built", "/data"}
    /\ "/data" \notin Dirs
BY DEF BuildOneOwn, Dirs, LogDirs, BuiltDirs, Parent

\* Who is refused, and why.
LEMMA WhyRefused ==
    ASSUME TypeOK, IInv, NEW p \in Procs, At(p, "user"), ~Allowed(Dir(p))
    PROVE  \/ owner[Dir(p)] = "root" /\ Dir(p) \in stray \cup Pending
           \/ /\ kind[p] \notin BuildOneKinds
              /\ owner[Dir(p)] = "absent" /\ owner[Parent[Dir(p)]] = "root"
<1> USE DEF IInv
<1>1. ~Idle(p) /\ Head(todo[p]).op = "user" /\ Dir(p) = Head(todo[p]).dir
      /\ todo[p] \in Seq(Ops) /\ todo[p] # <<>> /\ Head(todo[p]) = todo[p][1]
      /\ Dir(p) \in Dirs /\ 1 \in 1..Len(todo[p])
  BY NextAccess DEF At, Dir
<1>2. Regular(kind[p], Head(todo[p]))
  BY <1>1 DEF Plans, Planned
<1>3. Dir(p) \in Dirs \ {"log", "built"}
  BY <1>1, <1>2 DEF Regular
<1>4. owner[Dir(p)] \in {"absent", "root"}
  BY <1>1 DEF Allowed, TypeOK
<1>5. CASE owner[Dir(p)] = "root"
  BY <1>3, <1>5 DEF RootOnly
<1>6. CASE owner[Dir(p)] = "absent"
  <2>1. Parent[Dir(p)] # "/data" /\ owner[Parent[Dir(p)]] = "root"
    BY <1>6 DEF Allowed, OwnerOf
  <2>2. ASSUME kind[p] \in BuildOneKinds PROVE FALSE
    <3>1. Dir(p) \in BuildOneOwn
      BY <1>1, <1>2, <2>2 DEF Regular
    <3>2. Dir(p) # "SRPMS"
      BY <2>1, Tree
    <3>3. Dir(p) # "log/build-one"
      BY <1>6, <2>1, Tree DEF LogAbove
    <3>4. Dir(p) # "built/build-one"
      <4>1. MadeFirst(todo[p]) => ~(todo[p][1].op = "user" /\ todo[p][1].dir = "built/build-one")
        <5>1. \A j : j \notin 1..(1 - 1)
          OBVIOUS
        <5> QED
          BY <1>1, <5>1 DEF MadeFirst
      <4> QED
        BY <1>1, <1>6, <4>1 DEF BuiltFirst
    <3> QED
      BY <3>1, <3>2, <3>3, <3>4 DEF BuildOneOwn
  <2> QED
    BY <1>6, <2>1, <2>2
<1> QED
  BY <1>4, <1>5, <1>6

\* The steps that go on to the run's next access.
LEMMA PlansGoOn ==
    ASSUME TypeOK, Plans, NEW p \in Procs, ~Idle(p), Proceed(p), kind' = kind,
           owner'[Dir(p)] # "absent" \/ Head(todo[p]).may,
           \A d \in Dirs : owner[d] # "absent" => owner'[d] # "absent"
    PROVE  Plans'
<1> SUFFICES ASSUME NEW q \in Procs
             PROVE  /\ Planned(kind[q], todo[q])'
                    /\ ((At(q, "root") /\ kind[q] # "setup") \/ At(q, "chown") =>
                           owner[Dir(q)] # "absent")'
  BY DEF Plans
<1>1. CASE q = p
  <2>1. todo'[p] = Tail(todo[p]) /\ kind'[p] = kind[p] /\ todo[p] \in Seq(Ops) /\ todo[p] # <<>>
    BY DEF Proceed, TypeOK, Idle
  <2>2. Planned(kind[p], todo[p])
    BY DEF Plans
  <2>3. Planned(kind[p], todo'[p])
    BY <2>1, <2>2, PlanGoesOn
  <2>4. ASSUME todo'[p] # <<>>, Head(todo'[p]).op = "root"
        PROVE  owner'[Head(todo'[p]).dir] # "absent"
    <3>1. Head(todo[p]) = Op("user", Head(todo'[p]).dir)
      BY <2>1, <2>2, <2>4, PlanGoesOn
    <3> QED
      BY <3>1 DEF Dir, Op
  <2>5. todo'[p] # <<>> => Head(todo'[p]).op # "chown"
    BY <2>1, <2>2, PlanGoesOn
  <2> QED
    BY <1>1, <2>1, <2>3, <2>4, <2>5 DEF Planned, Regular, At, Idle, Dir
<1>2. CASE q # p
  <2>1. todo'[q] = todo[q] /\ todo[q] \in Seq(Ops)
    BY <1>2 DEF Proceed, TypeOK
  <2>2. At(q, "root") \/ At(q, "chown") => Dir(q) \in Dirs
    BY NextAccess DEF At
  <2> QED
    BY <1>2, <2>1, <2>2 DEF Plans, Planned, Regular, At, Idle, Dir
<1> QED
  BY <1>1, <1>2

\* They leave built/build-one made, or still to be made first.
LEMMA FirstStep ==
    ASSUME TypeOK, BuiltFirst, NEW p \in Procs, ~Idle(p), Proceed(p),
           Head(todo[p]).op \in {"own", "chown"} => owner'[Dir(p)] # "absent",
           \A d \in Dirs : owner[d] # "absent" => owner'[d] # "absent"
    PROVE  BuiltFirst'
<1>1. "built/build-one" \in Dirs
  BY Tree DEF BuildOneOwn
<1> SUFFICES ASSUME owner'["built/build-one"] = "absent", NEW q \in Procs
             PROVE  MadeFirst(todo'[q])
  BY DEF BuiltFirst, MadeFirst
<1>2. MadeFirst(todo[q])
  BY <1>1 DEF BuiltFirst
<1>3. CASE q = p
  <2>1. todo'[p] = Tail(todo[p]) /\ todo[p] \in Seq(Ops) /\ todo[p] # <<>>
    BY DEF Proceed, TypeOK, Idle
  <2>2. ~(Head(todo[p]).op \in {"own", "chown"} /\ Head(todo[p]).dir = "built/build-one")
    BY DEF Dir
  <2> QED
    BY <1>2, <1>3, <2>1, <2>2, FirstGoesOn
<1>4. CASE q # p
  BY <1>2, <1>4 DEF Proceed, TypeOK
<1> QED
  BY <1>3, <1>4

\* A run that goes on from an access other than chown leaves what is pending.
LEMMA PendingStays ==
    ASSUME TypeOK, NEW p \in Procs, ~At(p, "chown"),
           \A q \in Procs : q # p => todo'[q] = todo[q]
    PROVE  Pending \subseteq Pending'
<1> SUFFICES ASSUME NEW q \in Procs, At(q, "chown") PROVE At(q, "chown")' /\ Dir(q)' = Dir(q)
  BY DEF Pending
<1>1. todo'[q] = todo[q]
  OBVIOUS
<1> QED
  BY <1>1 DEF At, Idle, Dir

\* Each step of a run keeps the invariant.
LEMMA OrderlyStep ==
    ASSUME TypeOK, IInv, [Next]_vars
    PROVE  IInv'
<1> USE DEF IInv
<1>1. ASSUME NEW p \in Procs, NEW k \in Kinds, Start(p, k) PROVE IInv'
  <2>1. /\ Idle(p) /\ todo'[p] = Accesses(k) /\ kind'[p] = k
        /\ \A q \in Procs : q # p => todo'[q] = todo[q] /\ kind'[q] = kind[q]
        /\ owner' = owner /\ stray' = stray
    BY <1>1 DEF Start, TypeOK
  <2>2. /\ Planned(k, Accesses(k)) /\ MadeFirst(Accesses(k))
        /\ Head(Accesses(k)).op # "chown" /\ (Head(Accesses(k)).op = "root" => k = "setup")
    BY KindsAssumption, AccessesPlanned
  <2>3. Plans'
    <3> SUFFICES ASSUME NEW q \in Procs
                 PROVE  /\ Planned(kind[q], todo[q])'
                        /\ ((At(q, "root") /\ kind[q] # "setup") \/ At(q, "chown") =>
                               owner[Dir(q)] # "absent")'
      BY DEF Plans
    <3>1. CASE q = p
      BY <2>1, <2>2, <3>1 DEF Planned, Regular, At
    <3>2. CASE q # p
      BY <2>1, <3>2 DEF Plans, Planned, Regular, At, Idle, Dir
    <3> QED
      BY <3>1, <3>2
  <2>4. BuiltFirst'
    BY <2>1, <2>2 DEF BuiltFirst, MadeFirst
  <2>5. Pending \subseteq Pending'
    BY <2>1, PendingStays DEF At
  <2> QED
    BY <2>1, <2>3, <2>4, <2>5 DEF ParentsMade, LogAbove, RootOnly
<1>2. ASSUME NEW p \in Procs, SkipDir(p) \/ NotNeeded(p) PROVE IInv'
  <2>1. /\ ~Idle(p) /\ ~At(p, "chown") /\ Proceed(p) /\ kind' = kind
        /\ owner' = owner /\ stray' = stray
        /\ owner'[Dir(p)] # "absent" \/ (Head(todo[p]).may /\ Head(todo[p]).op = "user")
    BY <1>2 DEF SkipDir, NotNeeded, At
  <2>2. Pending \subseteq Pending'
    BY <2>1, PendingStays DEF Proceed, TypeOK
  <2>3. Plans' /\ BuiltFirst'
    BY <2>1, PlansGoOn, FirstStep
  <2> QED
    BY <2>1, <2>2, <2>3 DEF ParentsMade, LogAbove, RootOnly
<1>3. ASSUME NEW p \in Procs, RootMkdir(p) PROVE IInv'
  <2> DEFINE d == Dir(p)
  <2>1. /\ ~Idle(p) /\ At(p, "root") /\ ~At(p, "chown") /\ Proceed(p) /\ kind' = kind /\ d \in Dirs
        /\ owner' = MkdirAll(d, "root") /\ stray' = stray \cup Logged(p)
    BY <1>3, NextAccess DEF RootMkdir, At
  <2>2. /\ ParentsMade' /\ owner'[d] # "absent"
        /\ \A e \in Dirs : owner[e] # "absent" => owner'[e] = owner[e]
        /\ \A e \in Dirs : owner'[e] # owner[e] => owner'[e] = "root" /\ e \in {d, Parent[d]}
        /\ owner[d] # "absent" => owner' = owner
    BY <2>1, Made
  <2>3. Pending \subseteq Pending'
    BY <2>1, PendingStays DEF Proceed, TypeOK
  <2>4. Plans' /\ BuiltFirst'
    BY <2>1, <2>2, PlansGoOn, FirstStep
  <2>5. CASE owner[d] # "absent"
    BY <2>1, <2>2, <2>3, <2>4, <2>5 DEF ParentsMade, LogAbove, RootOnly
  <2>6. CASE owner[d] = "absent"
    <3>1. kind[p] = "setup" /\ d = "log/build-one"
      <4>1. kind[p] = "setup"
        BY <2>1, <2>6 DEF Plans
      <4>2. Regular(kind[p], Head(todo[p]))
        BY <2>1, NextAccess, PlanGoesOn DEF Plans
      <4> QED
        BY <2>1, <4>1, <4>2 DEF Regular, At, Dir
    <3>2. LogAbove'
      BY <2>2, <3>1 DEF LogAbove
    <3>3. RootOnly'
      <4> SUFFICES ASSUME NEW e \in Dirs \ {"log", "built"}, owner'[e] = "root"
                   PROVE  e \in stray' \cup Pending'
        BY DEF RootOnly
      <4>1. CASE owner'[e] = owner[e]
        BY <2>1, <2>3, <4>1 DEF RootOnly
      <4>2. CASE owner'[e] # owner[e]
        <5>1. owner[e] = "absent" /\ e \in Path(d)
          BY <2>2, <4>2 DEF TypeOK, Path
        <5> QED
          BY <2>1, <3>1, <5>1 DEF Logged
      <4> QED
        BY <4>1, <4>2
    <3> QED
      BY <2>2, <2>4, <3>2, <3>3
  <2> QED
    BY <2>5, <2>6
<1>4. ASSUME NEW p \in Procs, CreateDir(p) PROVE IInv'
  <2> DEFINE d == Dir(p)
  <2>1. ~Idle(p) /\ ~At(p, "chown") /\ At(p, "own") /\ kind' = kind
        /\ owner' = MkdirAll(d, "root") /\ stray' = stray
        /\ todo' = [todo EXCEPT ![p] = [todo[p] EXCEPT ![1] = Op("chown", d)]]
        /\ owner[d] = "absent"
    BY <1>4 DEF CreateDir, At
  <2>2. /\ todo[p] \in Seq(Ops) /\ 1 \in 1..Len(todo[p]) /\ d \in Dirs
        /\ Op("chown", d) \in Ops /\ Head(todo[p]) = todo[p][1]
    BY <2>1, NextAccess, OpTyped
  <2>3. \A q \in Procs : q # p => todo'[q] = todo[q]
    BY <2>1 DEF TypeOK
  <2>4. /\ ParentsMade' /\ owner'[d] # "absent"
        /\ \A e \in Dirs : owner[e] # "absent" => owner'[e] = owner[e]
        /\ \A e \in Dirs : owner'[e] # owner[e] => owner'[e] = "root" /\ e \in {d, Parent[d]}
    BY <2>1, <2>2, Made
  <2>5. /\ todo'[p] # <<>> /\ Len(todo'[p]) = Len(todo[p])
        /\ \A j \in 1..Len(todo[p]) : todo'[p][j] = IF j = 1 THEN Op("chown", d) ELSE todo[p][j]
        /\ Head(todo'[p]) = Op("chown", d)
    <3> DEFINE s == [todo[p] EXCEPT ![1] = Op("chown", d)]
    <3>1. /\ s \in Seq(Ops) /\ Len(s) = Len(todo[p])
          /\ \A j \in 1..Len(todo[p]) : s[j] = IF j = 1 THEN Op("chown", d) ELSE todo[p][j]
      BY <2>2, ExceptSeq
    <3>2. todo'[p] = s
      BY <2>1 DEF TypeOK
    <3> HIDE DEF s
    <3>3. s # <<>> /\ Head(s) = s[1]
      BY <2>2, <3>1
    <3> QED
      BY <2>2, <3>1, <3>2, <3>3
  <2>6. At(p, "chown")' /\ Dir(p)' = d
    BY <2>5 DEF At, Idle, Dir, Op
  <2>7. d \in BuildOneOwn \cup {"built"} /\ todo[p][1].op = "own" /\ todo[p][1].dir = d
    BY <2>1, <2>2 DEF Plans, Planned, Regular, At, Dir
  <2>8. Planned(kind[p], todo'[p])
    <3> SUFFICES ASSUME NEW i \in 1..Len(todo[p])
                 PROVE  /\ Regular(kind[p], todo'[p][i])
                        /\ i > 1 => /\ todo'[p][i].op # "chown"
                                    /\ todo'[p][i].op = "root" =>
                                          todo'[p][i - 1] = Op("user", todo'[p][i].dir)
      BY <2>5 DEF Planned
    <3>1. CASE i = 1
      BY <2>5, <2>7, <3>1 DEF Regular, Op
    <3>2. CASE i > 1
      <4>1. todo'[p][i] = todo[p][i] /\ Regular(kind[p], todo[p][i]) /\ todo[p][i].op # "chown"
            /\ (todo[p][i].op = "root" => todo[p][i - 1] = Op("user", todo[p][i].dir))
        BY <2>5, <3>2 DEF Plans, Planned
      <4>2. todo[p][i].op = "root" => i - 1 # 1
        BY <2>7, <4>1 DEF Op
      <4>3. i - 1 # 1 => todo'[p][i - 1] = todo[p][i - 1]
        BY <2>2, <2>5, <3>2
      <4> QED
        BY <4>1, <4>2, <4>3
    <3> QED
      BY <2>2, <3>1, <3>2
  <2>9. Plans'
    <3> SUFFICES ASSUME NEW q \in Procs
                 PROVE  /\ Planned(kind[q], todo[q])'
                        /\ ((At(q, "root") /\ kind[q] # "setup") \/ At(q, "chown") =>
                               owner[Dir(q)] # "absent")'
      BY DEF Plans
    <3>1. CASE q = p
      BY <2>1, <2>4, <2>5, <2>6, <2>8, <3>1 DEF Planned, Regular, At, Op
    <3>2. CASE q # p
      <4>1. todo'[q] = todo[q] /\ (At(q, "root") \/ At(q, "chown") => Dir(q) \in Dirs)
        BY <2>3, <3>2, NextAccess DEF At
      <4> QED
        BY <2>1, <2>4, <4>1 DEF Plans, Planned, Regular, At, Idle, Dir
    <3> QED
      BY <3>1, <3>2
  <2>10. BuiltFirst'
    <3>1. "built/build-one" \in Dirs
      BY Tree DEF BuildOneOwn
    <3> SUFFICES ASSUME owner'["built/build-one"] = "absent", NEW q \in Procs
                 PROVE  MadeFirst(todo'[q])
      BY DEF BuiltFirst, MadeFirst
    <3>2. MadeFirst(todo[q])
      BY <2>4, <3>1 DEF BuiltFirst
    <3>3. CASE q # p
      BY <2>3, <3>2, <3>3
    <3>4. CASE q = p
      <4>1. d # "built/build-one"
        BY <2>4
      <4> SUFFICES ASSUME NEW i \in 1..Len(todo[p]), todo'[p][i].op = "user",
                          todo'[p][i].dir = "built/build-one"
                   PROVE  \E j \in 1..(i - 1) : /\ todo'[p][j].op \in {"own", "chown"}
                                                /\ todo'[p][j].dir = "built/build-one"
        BY <2>5, <3>4 DEF MadeFirst
      <4>2. todo'[p][i] = todo[p][i]
        BY <2>5 DEF Op
      <4>3. PICK j \in 1..(i - 1) : /\ todo[p][j].op \in {"own", "chown"}
                                    /\ todo[p][j].dir = "built/build-one"
        BY <3>2, <3>4, <4>2 DEF MadeFirst
      <4>4. j # 1 /\ j \in 1..Len(todo[p])
        BY <2>2, <2>7, <4>1, <4>3
      <4>5. todo'[p][j] = todo[p][j]
        BY <2>5, <4>4
      <4> QED
        BY <4>3, <4>5
    <3> QED
      BY <3>3, <3>4
  <2>11. Pending \subseteq Pending' /\ d \in Pending'
    <3>1. Pending \subseteq Pending'
      BY <2>1, <2>3, PendingStays
    <3> QED
      BY <2>6, <3>1 DEF Pending
  <2>12. RootOnly'
    <3> SUFFICES ASSUME NEW e \in Dirs \ {"log", "built"}, owner'[e] = "root"
                 PROVE  e \in stray' \cup Pending'
      BY DEF RootOnly
    <3>1. CASE owner'[e] = owner[e]
      BY <2>1, <2>11, <3>1 DEF RootOnly
    <3>2. CASE owner'[e] # owner[e]
      BY <2>2, <2>4, <2>11, <3>2, Tree
    <3> QED
      BY <3>1, <3>2
  <2>13. LogAbove'
    <3>1. CASE owner'["log"] = owner["log"]
      BY <2>4, <3>1, Tree DEF LogAbove, BuildOneOwn
    <3>2. CASE owner'["log"] # owner["log"]
      <4>1. d = "log" \/ Parent[d] = "log"
        BY <2>4, <3>2, Tree
      <4>2. d = "log/build-one"
        BY <2>7, <4>1, Tree DEF BuildOneOwn
      <4> QED
        BY <2>4, <4>2 DEF LogAbove
    <3> QED
      BY <3>1, <3>2
  <2> QED
    BY <2>4, <2>9, <2>10, <2>12, <2>13
<1>5. ASSUME NEW p \in Procs, Chown(p) PROVE IInv'
  <2>1. /\ ~Idle(p) /\ At(p, "chown") /\ Proceed(p) /\ kind' = kind /\ Dir(p) \in Dirs
        /\ owner' = [owner EXCEPT ![Dir(p)] = "user"] /\ stray' = stray \ {Dir(p)}
    BY <1>5, NextAccess DEF Chown, At
  <2>2. \A d \in Dirs : owner'[d] = IF d = Dir(p) THEN "user" ELSE owner[d]
    BY <2>1 DEF TypeOK
  <2>3. \A d \in Pending : d = Dir(p) \/ d \in Pending'
    <3> SUFFICES ASSUME NEW q \in Procs, At(q, "chown"), q # p PROVE Dir(q) \in Pending'
      BY DEF Pending
    <3>1. todo'[q] = todo[q]
      BY <2>1 DEF Proceed, TypeOK
    <3>2. At(q, "chown")' /\ Dir(q)' = Dir(q)
      BY <3>1 DEF At, Idle, Dir
    <3> QED
      BY <3>2 DEF Pending
  <2>4. RootOnly'
    BY <2>1, <2>2, <2>3 DEF RootOnly
  <2>5. ParentsMade' /\ LogAbove'
    <3>1. \A d \in Dirs : (owner'[d] = "absent" => owner[d] = "absent")
                          /\ (owner'[d] = "root" => owner[d] = "root")
      BY <2>2
    <3>2. owner[Dir(p)] # "absent"
      BY <2>1 DEF Plans
    <3>3. \A d \in Dirs : owner'[d] # "absent" => owner[d] # "absent"
      BY <2>2, <3>2
    <3>4. \A d \in Dirs : Parent[d] = "/data" \/ Parent[d] \in Dirs
      BY Tree
    <3> QED
      BY <3>1, <3>3, <3>4, Tree DEF ParentsMade, LogAbove, BuildOneOwn
  <2>6. Plans' /\ BuiltFirst'
    BY <2>1, <2>2, PlansGoOn, FirstStep
  <2> QED
    BY <2>4, <2>5, <2>6
<1>6. ASSUME NEW p \in Procs, UserMkdir(p) PROVE IInv'
  <2>1. /\ ~Idle(p) /\ ~At(p, "chown") /\ Proceed(p) /\ kind' = kind /\ Dir(p) \in Dirs
        /\ owner' = MkdirAll(Dir(p), "user") /\ stray' = stray
    BY <1>6, NextAccess DEF UserMkdir, At
  <2>2. /\ ParentsMade' /\ owner'[Dir(p)] # "absent"
        /\ \A e \in Dirs : owner[e] # "absent" => owner'[e] = owner[e]
        /\ \A e \in Dirs : owner'[e] # owner[e] => owner'[e] = "user"
    BY <2>1, Made
  <2>3. Pending \subseteq Pending'
    BY <2>1, PendingStays DEF Proceed, TypeOK
  <2>4. RootOnly' /\ LogAbove'
    BY <2>1, <2>2, <2>3, Tree DEF RootOnly, LogAbove, BuildOneOwn
  <2>5. Plans' /\ BuiltFirst'
    BY <2>1, <2>2, PlansGoOn, FirstStep
  <2> QED
    BY <2>2, <2>4, <2>5
<1>7. ASSUME NEW p \in Procs, Denied(p) \/ Kill(p) PROVE IInv'
  <2>1. /\ ~Idle(p) /\ kind' = kind /\ owner' = owner
        /\ todo'[p] = <<>> /\ \A q \in Procs : q # p => todo'[q] = todo[q]
    BY <1>7 DEF Denied, Kill, At, TypeOK
  <2>2. Plans' /\ BuiltFirst'
    BY <2>1 DEF Plans, Planned, Regular, At, Idle, Dir, BuiltFirst, MadeFirst
  <2>3. ParentsMade' /\ LogAbove'
    BY <2>1 DEF ParentsMade, LogAbove
  <2>4. RootOnly'
    <3>1. CASE ~At(p, "chown")
      <4>1. Pending \subseteq Pending' /\ stray \subseteq stray'
        BY <1>7, <2>1, <3>1, PendingStays DEF Denied, Kill
      <4> QED
        BY <2>1, <4>1 DEF RootOnly
    <3>2. CASE At(p, "chown")
      <4>1. stray' = stray \cup {d \in Path(Dir(p)) : owner[d] = "root"}
        BY <1>7, <3>2 DEF Denied, Kill, At
      <4> SUFFICES ASSUME NEW e \in Dirs \ {"log", "built"}, owner[e] = "root"
                   PROVE  e \in stray' \cup Pending'
        BY <2>1 DEF RootOnly
      <4>2. CASE e = Dir(p)
        BY <4>1, <4>2 DEF Path
      <4>3. CASE e \in Pending /\ e # Dir(p)
        <5>1. PICK q \in Procs : At(q, "chown") /\ Dir(q) = e /\ q # p
          BY <4>3 DEF Pending
        <5>2. At(q, "chown")' /\ Dir(q)' = e
          BY <2>1, <5>1 DEF At, Idle, Dir
        <5> QED
          BY <5>2 DEF Pending
      <4> QED
        BY <4>1, <4>2, <4>3 DEF RootOnly
    <3> QED
      BY <3>1, <3>2
  <2> QED
    BY <2>2, <2>3, <2>4
<1>8. CASE UNCHANGED vars
  <2>1. Plans' /\ BuiltFirst'
    BY <1>8 DEF vars, Plans, Planned, Regular, At, Idle, Dir, BuiltFirst, MadeFirst
  <2>2. Pending' = Pending
    BY <1>8 DEF vars, Pending, At, Idle, Dir
  <2> QED
    BY <1>8, <2>1, <2>2 DEF vars, ParentsMade, LogAbove, RootOnly
<1> QED
  BY <1>1, <1>2, <1>3, <1>4, <1>5, <1>6, <1>7, <1>8 DEF Next

\* Only a run that may not write is refused.
LEMMA RefusedIsDenied ==
    ASSUME TypeOK, Next, NEW p \in Procs, Refused(p)
    PROVE  At(p, "user") /\ ~Allowed(Dir(p))
BY DEF Refused, Next, Start, RootMkdir, SkipDir, CreateDir, Chown, UserMkdir, NotNeeded, Denied,
       Kill, Proceed, TypeOK

\* The invariant holds of all runs.
LEMMA Orderly == Spec => [](TypeOK /\ IInv)
<1>1. Init => TypeOK /\ IInv
  BY InitOrderly, MaxRunsAssumption DEF Init, TypeOK, AllKinds
<1>2. TypeOK /\ IInv /\ [Next]_vars => TypeOK' /\ IInv'
  BY TypeStep, OrderlyStep
<1> QED
  BY <1>1, <1>2, PTL DEF Spec

\* Whatever runs overlap and wherever they die, build-one, setup and a debug shell are
\* refused only a directory that root has because a run died before its chown, has it still
\* to chown, or made it for setup's log: BuildOneRefusedOnlyStray (steps.go:197-200,
\* osprep.go:228-239).
THEOREM BuildOneIsRefusedOnlyStray == Spec => BuildOneRefusedOnlyStray
<1>1. TypeOK /\ IInv /\ [Next]_vars =>
         [\A p \in Procs : kind[p] \in {"build-one", "setup", "debug"} /\ Refused(p) =>
             owner[Dir(p)] = "root" /\ Dir(p) \in stray \cup Pending]_vars
  BY RefusedIsDenied, WhyRefused DEF BuildOneKinds
<1> QED
  BY <1>1, Orderly, PTL DEF Spec, BuildOneRefusedOnlyStray

\* Any run is refused for those reasons, or because the directory is still to be made under
\* one that root has: RefusedOnlyNewOrStray (osprep.go:229-238, logx.go:53).
THEOREM OnlyNewOrStrayRefused == Spec => RefusedOnlyNewOrStray
<1>1. TypeOK /\ IInv /\ [Next]_vars =>
         [\A p \in Procs : Refused(p) =>
             \/ owner[Dir(p)] = "root" /\ Dir(p) \in stray \cup Pending
             \/ owner[Dir(p)] = "absent" /\ owner[Parent[Dir(p)]] = "root"]_vars
  BY RefusedIsDenied, WhyRefused
<1> QED
  BY <1>1, Orderly, PTL DEF Spec, RefusedOnlyNewOrStray
=============================================================================
