------------------------------ MODULE Workspace ------------------------------
(***************************************************************************)
(* Who owns the directories the runs share under /data.  A run is a        *)
(* launcher on the host, the container's root orchestrator and its build   *)
(* user; each makes the directories it writes to when they are not there.  *)
(* The host user and the build user have the same uid (REFERENCE.md, "rpm  *)
(* build user"), so the owner of a directory is "root" or "user".          *)
(*                                                                         *)
(* Modes are 0755: the user needs to own a directory to write in it.       *)
(***************************************************************************)
EXTENDS Naturals, Sequences

CONSTANTS
    Procs,      \* the runs that can be under way at once
    Kinds,      \* the kinds of run that are begun
    MaxRuns     \* bound on the runs

AllKinds == {"build-one", "setup", "debug", "git-build-src-rpm", "git-build-rpms"}
ASSUME KindsAssumption == Kinds \subseteq AllKinds
ASSUME MaxRunsAssumption == MaxRuns \in Nat

VARIABLES
    owner,      \* who owns each directory, "absent" when it is not there
    kind,       \* the kind of each run
    todo,       \* the accesses each run has still to make, in order
    created,    \* the directories its CreateUser has been through
    rc,         \* how each run ended
    runs,       \* runs begun so far
    stray       \* root's by a death between MkdirAll and chown, or made for setup's log

vars == <<owner, kind, todo, created, rc, runs, stray>>

LogDirs == {"log/build-one", "log/git-build-src-rpm", "log/git-build-rpms"}
BuiltDirs == {"built/build-one", "built/git-build-src-rpm", "built/git-build-rpms"}
Dirs == {"SRPMS", "boost-cache", "log", "built"} \cup LogDirs \cup BuiltDirs

\* The directory above each one; /data is the user's checkout.
Parent == [d \in Dirs |-> IF d \in LogDirs THEN "log"
                          ELSE IF d \in BuiltDirs THEN "built" ELSE "/data"]
Path(d) == {d, Parent[d]} \cap Dirs

\* An access: who makes it, how, and whether a run may do without it.
Ops == [op: {"root", "own", "chown", "user"}, dir: Dirs, may: BOOLEAN]
Op(op, d) == [op |-> op, dir |-> d, may |-> FALSE]
Perhaps(d) == [op |-> "user", dir |-> d, may |-> TRUE]

TypeOK ==
    /\ owner \in [Dirs -> {"absent", "root", "user"}]
    /\ kind \in [Procs -> AllKinds]
    /\ todo \in [Procs -> Seq(Ops)]
    /\ created \in [Procs -> SUBSET Dirs]
    /\ rc \in [Procs -> {"none", "ok", "denied", "killed"}]
    /\ runs \in 0..MaxRuns
    /\ stray \subseteq Dirs

\* The accesses of a run: the launcher's log, the orchestrator's log and
\* record-init, what CreateUser makes for the build user, a download unless it is
\* cached or local, the log and rpm-qa.post of the build, and collect.  A debug shell
\* follows the documented steps, where a failure to write rpm-qa.post is a warning.
Accesses(k) ==
    CASE k = "build-one" ->
            <<Op("user", "log/build-one"), Op("root", "log/build-one"),
              Op("own", "SRPMS"), Op("own", "log/build-one"), Op("own", "built/build-one"),
              Perhaps("SRPMS"), Op("user", "log/build-one"), Op("user", "built/build-one")>>
      [] k = "setup" ->
            <<Op("root", "log/build-one"),
              Op("own", "SRPMS"), Op("own", "log/build-one"), Op("own", "built/build-one"),
              Perhaps("SRPMS"), Op("user", "log/build-one"), Op("user", "built/build-one")>>
      [] k = "debug" ->
            <<Op("own", "SRPMS"), Op("own", "log/build-one"), Op("own", "built/build-one"),
              Perhaps("SRPMS"), Op("user", "built/build-one")>>
      [] k = "git-build-src-rpm" ->
            <<Op("user", "log/git-build-src-rpm"), Op("root", "log/git-build-src-rpm"),
              Op("own", "built"), Perhaps("boost-cache"), Perhaps("SRPMS"),
              Op("user", "built/git-build-src-rpm")>>
      [] k = "git-build-rpms" ->
            <<Op("user", "log/git-build-rpms"), Op("root", "log/git-build-rpms"),
              Op("own", "built"), Perhaps("boost-cache"), Perhaps("SRPMS"),
              Op("user", "built/git-build-rpms")>>

Init ==
    /\ owner = [d \in Dirs |-> "absent"]
    /\ kind = [p \in Procs |-> "build-one"]
    /\ todo = [p \in Procs |-> <<>>]
    /\ created = [p \in Procs |-> {}]
    /\ rc = [p \in Procs |-> "none"]
    /\ runs = 0
    /\ stray = {}

-----------------------------------------------------------------------------
Idle(p) == todo[p] = <<>>
At(p, op) == ~Idle(p) /\ Head(todo[p]).op = op
Dir(p) == Head(todo[p]).dir
OwnerOf(d) == IF d = "/data" THEN "user" ELSE owner[d]

Start(p, k) ==
    /\ Idle(p) /\ runs < MaxRuns
    /\ runs' = runs + 1
    /\ kind' = [kind EXCEPT ![p] = k]
    /\ todo' = [todo EXCEPT ![p] = Accesses(k)]
    /\ created' = [created EXCEPT ![p] = {}]
    /\ rc' = [rc EXCEPT ![p] = "none"]
    /\ UNCHANGED <<owner, stray>>

\* The container, or the launcher, dies.  What it had made and not yet given to the user
\* stays root's.
Kill(p) ==
    /\ ~Idle(p)
    /\ stray' = stray \cup {d \in Path(Dir(p)) : At(p, "chown") /\ owner[d] = "root"}
    /\ todo' = [todo EXCEPT ![p] = <<>>]
    /\ rc' = [rc EXCEPT ![p] = "killed"]
    /\ UNCHANGED <<owner, kind, created, runs>>

\* The access was made: go on to the next.
Proceed(p) ==
    /\ todo' = [todo EXCEPT ![p] = Tail(@)]
    /\ rc' = [rc EXCEPT ![p] = IF Tail(todo[p]) = <<>> THEN "ok" ELSE "none"]

\* The owner of each directory once u has made d and whatever is missing above it.
MkdirAll(d, u) ==
    [e \in Dirs |-> IF owner[e] = "absent" /\ e \in Path(d) THEN u ELSE owner[e]]

\* What root makes when it logs: an orchestrator finds its launcher's directory there, and
\* setup, which is run by hand, has none.
Logged(p) == {d \in Path(Dir(p)) : kind[p] = "setup" /\ owner[d] = "absent"}

\* Mutant: root takes the directory it logs to.
RootMkdirTakes(p) ==
    /\ At(p, "root")
    /\ owner' = [MkdirAll(Dir(p), "root") EXCEPT ![Dir(p)] = "root"]
    /\ stray' = stray \cup Logged(p)
    /\ Proceed(p)
    /\ UNCHANGED <<kind, created, runs>>

\* Root makes the directory of a log, and writes there.
RootMkdir(p) ==
    /\ At(p, "root")
    /\ owner' = MkdirAll(Dir(p), "root")
    /\ stray' = stray \cup Logged(p)
    /\ Proceed(p)
    /\ UNCHANGED <<kind, created, runs>>

\* CreateUser leaves a directory that is there as it is.
SkipDir(p) ==
    /\ At(p, "own") /\ owner[Dir(p)] # "absent"
    /\ created' = [created EXCEPT ![p] = @ \cup {Dir(p)}]
    /\ Proceed(p)
    /\ UNCHANGED <<owner, kind, runs, stray>>

\* Mutant: CreateUser makes the directory and does not give it to the user.
CreateDirNoChown(p) ==
    /\ At(p, "own") /\ owner[Dir(p)] = "absent"
    /\ owner' = MkdirAll(Dir(p), "root")
    /\ Proceed(p)
    /\ UNCHANGED <<kind, created, runs, stray>>

\* CreateUser makes it, as root, and has it still to chown.
CreateDir(p) ==
    /\ At(p, "own") /\ owner[Dir(p)] = "absent"
    /\ owner' = MkdirAll(Dir(p), "root")
    /\ todo' = [todo EXCEPT ![p][1] = Op("chown", Dir(p))]
    /\ UNCHANGED <<kind, created, rc, runs, stray>>

\* Mutant: chown is given the kind of build for the name of the user.
ChownToKind(p) ==
    /\ At(p, "chown")
    /\ owner' = [owner EXCEPT ![Dir(p)] = kind[p]]
    /\ stray' = stray \ {Dir(p)}
    /\ created' = [created EXCEPT ![p] = @ \cup {Dir(p)}]
    /\ Proceed(p)
    /\ UNCHANGED <<kind, runs>>

\* chown of the directory, and of none above it.
Chown(p) ==
    /\ At(p, "chown")
    /\ owner' = [owner EXCEPT ![Dir(p)] = "user"]
    /\ stray' = stray \ {Dir(p)}
    /\ created' = [created EXCEPT ![p] = @ \cup {Dir(p)}]
    /\ Proceed(p)
    /\ UNCHANGED <<kind, runs>>

\* The user can write in d, or make it and what is missing above it.
Allowed(d) ==
    \/ owner[d] = "user"
    \/ owner[d] = "absent" /\ OwnerOf(Parent[d]) # "root"

UserMkdir(p) ==
    /\ At(p, "user") /\ Allowed(Dir(p))
    /\ owner' = MkdirAll(Dir(p), "user")
    /\ Proceed(p)
    /\ UNCHANGED <<kind, created, runs, stray>>

\* Nothing to download: the source is cached, bundled or local.
NotNeeded(p) ==
    /\ At(p, "user") /\ Head(todo[p]).may
    /\ Proceed(p)
    /\ UNCHANGED <<owner, kind, created, runs, stray>>

\* Permission denied: the run fails.
Denied(p) ==
    /\ At(p, "user") /\ ~Allowed(Dir(p))
    /\ todo' = [todo EXCEPT ![p] = <<>>]
    /\ rc' = [rc EXCEPT ![p] = "denied"]
    /\ UNCHANGED <<owner, kind, created, runs, stray>>

Next ==
    \E p \in Procs :
        \/ \E k \in Kinds : Start(p, k)
        \/ RootMkdir(p) \/ SkipDir(p) \/ CreateDir(p) \/ Chown(p)
        \/ UserMkdir(p) \/ NotNeeded(p) \/ Denied(p) \/ Kill(p)

Spec == Init /\ [][Next]_vars

-----------------------------------------------------------------------------
(* Properties. *)

\* The directories that a run has made and is about to give to the user.
Pending == {Dir(p) : p \in {q \in Procs : At(q, "chown")}}

Refused(p) == rc[p] # "denied" /\ rc'[p] = "denied"

\* Whatever runs came before it, go on beside it or died, and wherever they died, a
\* build-one run, a setup or a debug shell is refused only a directory of its own that is
\* there and that root has, because a run died between CreateUser's MkdirAll and its chown,
\* because another is there now, or because setup, run by hand, made it for its log
\* (steps.go:197-200, osprep.go:228-239).  What a git run leaves behind never locks it
\* out: built/ may be root's, and built/build-one is made below it all the same.
BuildOneRefusedOnlyStray ==
    [][\A p \in Procs : kind[p] \in {"build-one", "setup", "debug"} /\ Refused(p) =>
          owner[Dir(p)] = "root" /\ Dir(p) \in stray \cup Pending]_vars

\* Any run that is refused a directory that is there is refused for one of those three
\* reasons.  It may also be refused a new one, under a directory that root made on the way
\* to another and never gave to the user (osprep.go:229-238).  A log directory is never
\* taken from the user by the root that logs there too (logx.go:53).
RefusedOnlyNewOrStray ==
    [][\A p \in Procs : Refused(p) =>
          \/ owner[Dir(p)] = "root" /\ Dir(p) \in stray \cup Pending
          \/ owner[Dir(p)] = "absent" /\ owner[Parent[Dir(p)]] = "root"]_vars

\* What the comments say: CreateUser creates "the given directories (owned by that
\* user)" (osprep.go:216-217), so that a git build's "build-user stages below can
\* write the finished src.rpm into it directly" (gitsteps.go:245-246).  It is not so even
\* of those that no run died over.
OwnedAfterCreateUser == \A p \in Procs : \A d \in created[p] \ stray : owner[d] = "user"
=============================================================================
