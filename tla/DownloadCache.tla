---------------------------- MODULE DownloadCache ----------------------------
(***************************************************************************)
(* The download cache shared by every container through /data: one file of *)
(* SRPMS/ or boost-cache/, the runs that look for it there and download it *)
(* if it is missing, and downloadFile, which both go/steps and go/gitsteps *)
(* have (helpers.go, gitsteps.go).  A run may be killed at any step: the   *)
(* -timeout and -until of build-one do just that.                          *)
(*                                                                         *)
(* A file is an inode holding the set of its blocks that have arrived; a   *)
(* writer keeps its own offset in the file it opened, whatever becomes of  *)
(* the file's name or of its length.                                       *)
(***************************************************************************)
EXTENDS Naturals

CONSTANTS
    Procs,      \* the processes that make the runs
    Size,       \* the number of blocks of the file
    MaxRuns     \* bound on the runs of all processes

ASSUME SizeAssumption == Size \in Nat \ {0}
ASSUME MaxRunsAssumption == MaxRuns \in Nat

VARIABLES
    overlap,    \* whether a run may begin while another is under way
    pc,         \* where each process is
    run,        \* the number of the run each process makes
    runs,       \* runs begun so far
    dst,        \* the inode of the cached name, 0 when there is none
    tmp,        \* the inode of the name with .download, 0 when there is none
    blocks,     \* the blocks each inode holds
    fd,         \* the inode each process writes to
    offset,     \* how far each writer has come
    used,       \* the inode each process's run handed to rpm or cmake
    torn        \* the inodes a writer left half-way since they were truncated

cacheVars == <<overlap, pc, run, runs, dst, tmp, blocks, fd, offset, used, torn>>

Whole == 1..Size
\* Run number n creates at most inode n.
Inodes == 1..MaxRuns

CacheTypeOK ==
    /\ overlap \in BOOLEAN
    /\ pc \in [Procs -> {"idle", "get", "create", "copy", "close", "use"}]
    /\ run \in [Procs -> 0..MaxRuns]
    /\ runs \in 0..MaxRuns
    /\ dst \in 0..MaxRuns
    /\ tmp \in 0..MaxRuns
    /\ blocks \in [Inodes -> SUBSET Whole]
    /\ fd \in [Procs -> 0..MaxRuns]
    /\ offset \in [Procs -> 0..Size]
    /\ used \in [Procs -> 0..MaxRuns]
    /\ torn \subseteq 0..MaxRuns

CacheInit ==
    /\ overlap \in BOOLEAN
    /\ pc = [p \in Procs |-> "idle"]
    /\ run = [p \in Procs |-> 0]
    /\ runs = 0 /\ dst = 0 /\ tmp = 0
    /\ blocks = [i \in Inodes |-> {}]
    /\ fd = [p \in Procs |-> 0]
    /\ offset = [p \in Procs |-> 0]
    /\ used = [p \in Procs |-> 0]
    /\ torn = {}

Goto(p, l) == pc' = [pc EXCEPT ![p] = l]

\* A run looks for the cached file: os.Stat, then the download or its use.
StatCache(p) ==
    /\ pc[p] = "idle" /\ runs < MaxRuns
    /\ overlap \/ \A q \in Procs : pc[q] = "idle"
    /\ runs' = runs + 1
    /\ run' = [run EXCEPT ![p] = runs']
    /\ Goto(p, IF dst # 0 THEN "use" ELSE "get")
    /\ UNCHANGED <<overlap, dst, tmp, blocks, fd, offset, used, torn>>

\* http.Get: an error or a status other than 200 ends the run.
Get(p) ==
    /\ pc[p] = "get"
    /\ Goto(p, "create") \/ Goto(p, "idle")
    /\ UNCHANGED <<overlap, run, runs, dst, tmp, blocks, fd, offset, used, torn>>

\* Mutant: the download goes straight to the cached name.
CreateInPlace(p) ==
    /\ pc[p] = "create"
    /\ dst' = IF dst = 0 THEN run[p] ELSE dst
    /\ fd' = [fd EXCEPT ![p] = dst']
    /\ blocks' = [blocks EXCEPT ![dst'] = {}]
    /\ offset' = [offset EXCEPT ![p] = 0]
    /\ Goto(p, "copy")
    /\ torn' = torn \ {dst'}
    /\ UNCHANGED <<overlap, run, runs, tmp, used>>

\* os.Create: a temporary file already there is truncated and shared.
Create(p) ==
    /\ pc[p] = "create"
    /\ tmp' = IF tmp = 0 THEN run[p] ELSE tmp
    /\ fd' = [fd EXCEPT ![p] = tmp']
    /\ blocks' = [blocks EXCEPT ![tmp'] = {}]
    /\ offset' = [offset EXCEPT ![p] = 0]
    /\ Goto(p, "copy")
    /\ torn' = torn \ {tmp'}
    /\ UNCHANGED <<overlap, run, runs, dst, used>>

\* Mutant: the end of the body is noticed one block late.
CopyBlockLate(p) ==
    /\ pc[p] = "copy" /\ offset[p] <= Size
    /\ offset' = [offset EXCEPT ![p] = @ + 1]
    /\ blocks' = [blocks EXCEPT ![fd[p]] = @ \cup {offset'[p]}]
    /\ UNCHANGED <<overlap, pc, run, runs, dst, tmp, fd, used, torn>>

\* io.Copy writes the next block at this writer's offset.
CopyBlock(p) ==
    /\ pc[p] = "copy" /\ offset[p] < Size
    /\ offset' = [offset EXCEPT ![p] = @ + 1]
    /\ blocks' = [blocks EXCEPT ![fd[p]] = @ \cup {offset'[p]}]
    /\ UNCHANGED <<overlap, pc, run, runs, dst, tmp, fd, used, torn>>

\* Mutant: an error of io.Copy is not looked at.
CopyEndsUnchecked(p) ==
    /\ pc[p] = "copy"
    /\ Goto(p, "close")
    /\ UNCHANGED <<overlap, run, runs, dst, tmp, blocks, fd, offset, used, torn>>

\* io.Copy ends at the end of the body.
CopyEnds(p) ==
    /\ pc[p] = "copy" /\ offset[p] = Size
    /\ Goto(p, "close")
    /\ UNCHANGED <<overlap, run, runs, dst, tmp, blocks, fd, offset, used, torn>>

\* io.Copy or Close fails: the temporary name is removed, whoever made it.
CopyFails(p) ==
    /\ pc[p] \in {"copy", "close"}
    /\ tmp' = 0
    /\ torn' = torn \cup {fd[p]}
    /\ Goto(p, "idle")
    /\ UNCHANGED <<overlap, run, runs, dst, blocks, fd, offset, used>>

\* os.Rename(tmp, dst), which replaces what is there.
Rename(p) ==
    /\ pc[p] = "close"
    /\ \/ /\ tmp # 0
          /\ dst' = tmp /\ tmp' = 0
          /\ Goto(p, "use")
       \/ /\ tmp = 0
          /\ Goto(p, "idle") /\ UNCHANGED <<dst, tmp>>
    /\ UNCHANGED <<overlap, run, runs, blocks, fd, offset, used, torn>>

\* rpm -ivh, cp or cmake reads the cached file.
Use(p) ==
    /\ pc[p] = "use"
    /\ used' = [used EXCEPT ![p] = dst]
    /\ Goto(p, "idle")
    /\ UNCHANGED <<overlap, run, runs, dst, tmp, blocks, fd, offset, torn>>

\* The container is killed; what is on the disk stays there.
KillRun(p) ==
    /\ pc[p] # "idle"
    /\ Goto(p, "idle")
    /\ torn' = torn \cup {i \in {fd[p]} : pc[p] = "copy"}
    /\ UNCHANGED <<overlap, run, runs, dst, tmp, blocks, fd, offset, used>>

Step(p) ==
    \/ StatCache(p) \/ Get(p) \/ Create(p) \/ CopyBlock(p) \/ CopyEnds(p)
    \/ CopyFails(p) \/ Rename(p) \/ Use(p) \/ KillRun(p)

CacheNext == \E p \in Procs : Step(p)

CacheSpec == CacheInit /\ [][CacheNext]_cacheVars

-----------------------------------------------------------------------------
(* Properties. *)

\* When runs take turns, a file under the cached name is the whole file at every
\* moment, whatever was killed before and whatever temporary file that left
\* (helpers.go:28-53, gitsteps.go:889-914).
CacheWhole == ~overlap /\ dst # 0 => blocks[dst] = Whole

\* p is still writing the inode from its beginning to its end.
Writes(p, i) == pc[p] = "copy" /\ fd[p] = i /\ 1..offset[p] \subseteq blocks[i]

\* An inode is whole or will be, unless a writer left it half-way.
Cared(i) == blocks[i] = Whole \/ i \in torn \/ \E p \in Procs : Writes(p, i)

\* However runs overlap, share the temporary file, truncate it under each other
\* and rename it, a partial file under the cached name is one that some run is
\* still writing to its end.  The exception: since the file was last truncated a
\* run that was writing it failed or was killed, when the partial file may stay
\* for good (helpers.go:38-53, gitsteps.go:899-914).
CacheHeals == dst # 0 => Cared(dst)
=============================================================================
