--------------------------- MODULE HostBuildProofs ---------------------------
(***************************************************************************)
(* What HostBuild promises for every bound on the output and every set of  *)
(* exit codes.  The argument: stop records did before it signals the       *)
(* container (StopRecorded), BuildOne reads did only after the child has   *)
(* ended (Phases), so the status it decides on tells how the child ended.  *)
(***************************************************************************)
EXTENDS HostBuild, LineWatcher, FiniteSetTheorems, SequenceTheorems, TLAPS

\* Whoever has come past once.Do has recorded the stop, and only such a stop
\* reaches the container.
StopRecorded ==
    /\ did <=> once # "free"
    /\ (\E g \in Stoppers : stopper[g] \in {"signal", "waiting"}) => did
    /\ container = "stopping" => did
    /\ result.by = "stop" => did

\* What each phase of BuildOne has and has not done.
Phases ==
    /\ pc \in {"load", "start", "fatal"} => container = "none"
    /\ opts.noop => container = "none" /\ pc # "wait"
    /\ container = "none" => result = Pending
    /\ result = Pending => status = None \/ opts.noop
    /\ pc \in {"load", "start", "wait", "decide", "fatal"} => status = None
    /\ pc \in {"load", "start", "wait", "decide", "append", "fatal"} => merge = None
    /\ pc \in {"decide", "append", "merge", "done"} /\ ~opts.noop =>
          result # Pending /\ pipe = <<>>
    /\ pc = "decide" /\ ~opts.noop => rc = WaitCode
    /\ opts.noop => status \in {None, "NOOP"}
    /\ status = "NOOP" => opts.noop
    /\ status = "FAILED" => rc # 0
    /\ pc \in {"append", "merge", "done"} => status # None

\* Every part of an OK status.
OkIsClean ==
    status = "OK" =>
        /\ ~opts.noop
        /\ result = [code |-> 0, by |-> "container"]
        /\ ~copyErr /\ rc = 0

MergeIsOk == merge # None => opts.addIfSuccessful /\ status = "OK" /\ pc = "done"

IInv ==
    /\ TypeOK /\ StopRecorded /\ Phases /\ OkIsClean /\ MergeIsOk
    /\ StoppedContainerReported

-----------------------------------------------------------------------------
\* Facts about the constants' ranges that the provers need more than once.
LEMMA RangeFacts ==
    /\ Pending.by = "nobody" /\ Pending.code = -1
    /\ Pending \notin Results
    /\ \A r \in Results : r.by \in {"container", "stop", "client"}
    /\ \A r \in Results : r.by # "client" => r.code \in Nat
    /\ \A r \in Results : r.by = "client" => r.code = -1
<1>1. Pending.by = "nobody" /\ Pending.code = -1
  BY DEF Pending
<1>2. ASSUME NEW r \in Results
      PROVE  /\ r.by \in {"container", "stop", "client"}
             /\ r.by # "client" => r.code \in Nat
             /\ r.by = "client" => r.code = -1
  <2>1. CASE r \in [code: ExitCodes, by: {"container", "stop"}]
    BY <2>1, ExitCodesAssumption
  <2>2. CASE r = [code |-> -1, by |-> "client"]
    BY <2>2
  <2> QED
    BY <1>2, <2>1, <2>2 DEF Results
<1> QED
  BY <1>1, <1>2

\* What cmd.Wait makes of a run is a natural number, and 0 only for a child
\* that ended with 0 and whose output was all copied (host.go:175-177, 365-372).
LEMMA WaitCodeFacts ==
    ASSUME TypeOK, result # Pending
    PROVE  /\ WaitCode \in Nat
           /\ WaitCode = 0 => result.code = 0 /\ ~copyErr
<1>1. result \in Results
  BY DEF TypeOK
<1>2. result.code \in Nat \/ result.code = -1
  BY <1>1, RangeFacts
<1> QED
  BY <1>2 DEF WaitCode, ExitCode

\* The initial states satisfy the invariant.
LEMMA InitInv == Init => IInv
<1> SUFFICES ASSUME Init PROVE IInv
  OBVIOUS
<1>1. TypeOK
  <2>1. pipe \in Seq(Lines) /\ printed \in 0..MaxLines
    BY MaxLinesAssumption DEF Init
  <2>2. stopper \in [Stoppers -> {"idle", "call", "signal", "waiting", "done"}]
    BY DEF Init
  <2>3. result \in Results \cup {Pending}
    BY DEF Init
  <2> QED
    BY <2>1, <2>2, <2>3 DEF Init, TypeOK, Pcs, None
<1>2. StopRecorded
  BY RangeFacts DEF Init, StopRecorded
<1>3. Phases
  BY DEF Init, Phases, None
<1>4. OkIsClean /\ MergeIsOk /\ StoppedContainerReported
  BY DEF Init, OkIsClean, MergeIsOk, StoppedContainerReported, None
<1> QED
  BY <1>1, <1>2, <1>3, <1>4 DEF IInv

\* Every step keeps the types.
LEMMA TypeStep == TypeOK /\ [Next]_vars => TypeOK'
<1> SUFFICES ASSUME TypeOK, [Next]_vars PROVE TypeOK'
  OBVIOUS
<1> USE DEF TypeOK, Pcs, None, Lines, Stoppers
<1>1. CASE Prepare
  BY <1>1 DEF Prepare, Fatal, buildVars, childVars, watchVars, stopVars
<1>2. CASE StartDocker
  BY <1>2 DEF StartDocker, Fatal, buildVars, childVars, watchVars, stopVars
<1>3. CASE Wait
  BY <1>3, WaitCodeFacts DEF Wait, buildVars, childVars, watchVars, stopVars
<1>4. CASE Decide
  BY <1>4 DEF Decide, buildVars, childVars, watchVars, stopVars
<1>5. CASE AppendBuildStatus
  BY <1>5 DEF AppendBuildStatus, buildVars, childVars, watchVars, stopVars
<1>6. CASE MergeConfig
  BY <1>6 DEF MergeConfig, buildVars, childVars, watchVars, stopVars
<1>7. CASE ContainerStarts
  BY <1>7 DEF ContainerStarts, buildVars, childVars, watchVars, stopVars
<1>8. CASE ContainerEnds
  BY <1>8, ExitCodesAssumption DEF ContainerEnds, Results, buildVars, childVars, watchVars, stopVars
<1>9. CASE ContainerStopped
  BY <1>9, ExitCodesAssumption DEF ContainerStopped, Results, buildVars, childVars, watchVars, stopVars
<1>10. CASE ClientDies
  BY <1>10 DEF ClientDies, Results, buildVars, childVars, watchVars, stopVars
<1>11. CASE CopyLine
  <2>1. pipe' \in Seq(Lines)
    BY <1>11 DEF CopyLine
  <2>2. stopper' \in [Stoppers -> {"idle", "call", "signal", "waiting", "done"}]
    BY <1>11 DEF CopyLine
  <2>3. fired' \in BOOLEAN
    BY <1>11 DEF CopyLine
  <2> QED
    BY <1>11, <2>1, <2>2, <2>3 DEF CopyLine, buildVars
<1>12. CASE CopyFails
  BY <1>12 DEF CopyFails, buildVars, childVars, watchVars, stopVars
<1>13. CASE TimerFires
  BY <1>13 DEF TimerFires, Live, buildVars, childVars, watchVars, stopVars
<1>14. CASE \E line \in Lines : Output(line)
  BY <1>14, MaxLinesAssumption DEF Output, buildVars, childVars, watchVars, stopVars
<1>15. CASE \E g \in Stoppers : StopFirst(g)
  BY <1>15 DEF StopFirst, Live, buildVars, childVars, watchVars, stopVars
<1>16. CASE \E g \in Stoppers : StopAgain(g)
  BY <1>16 DEF StopAgain, Live, buildVars, childVars, watchVars, stopVars
<1>17. CASE \E g \in Stoppers : DockerStop(g)
  BY <1>17 DEF DockerStop, Live, buildVars, childVars, watchVars, stopVars
<1>18. CASE \E g \in Stoppers : DockerStopReturns(g)
  BY <1>18 DEF DockerStopReturns, Live, buildVars, childVars, watchVars, stopVars
<1>19. CASE UNCHANGED vars
  BY <1>19 DEF vars, buildVars, childVars, watchVars, stopVars
<1> QED
  BY <1>1, <1>2, <1>3, <1>4, <1>5, <1>6, <1>7, <1>8, <1>9, <1>10, <1>11, <1>12, <1>13, <1>14, <1>15, <1>16, <1>17, <1>18, <1>19 DEF Next, Build, Child, Copier, StopStep, Terminated

\* Every step keeps the rest of the invariant.  Under each action stand the
\* conjuncts it can disturb; the others speak of variables it leaves alone.
LEMMA InvStep == IInv /\ [Next]_vars => IInv'
<1> SUFFICES ASSUME IInv, [Next]_vars PROVE IInv'
  OBVIOUS
<1>0. TypeOK /\ TypeOK'
  BY TypeStep DEF IInv
<1>a. StopRecorded /\ Phases /\ OkIsClean /\ MergeIsOk /\ StoppedContainerReported
  BY DEF IInv
<1> USE <1>0, <1>a DEF TypeOK, Pcs, None, Stoppers, buildVars, childVars, watchVars, stopVars
<1>1. CASE Prepare
  <2>1. Phases'
    BY <1>1 DEF Prepare, Fatal, Phases, WaitCode, ExitCode
  <2>2. MergeIsOk'
    BY <1>1 DEF Prepare, Fatal, MergeIsOk, Phases
  <2>3. OkIsClean' /\ StoppedContainerReported'
    BY <1>1 DEF Prepare, Phases, OkIsClean, StoppedContainerReported
  <2> QED
    BY <1>1, <2>1, <2>2, <2>3 DEF IInv, Prepare, StopRecorded
<1>2. CASE StartDocker
  <2>1. StopRecorded'
    BY <1>2 DEF StartDocker, Fatal, StopRecorded, Phases
  <2>2. Phases'
    BY <1>2 DEF StartDocker, Fatal, Phases, WaitCode, ExitCode
  <2>3. MergeIsOk'
    BY <1>2 DEF StartDocker, Fatal, MergeIsOk, Phases
  <2>4. OkIsClean' /\ StoppedContainerReported'
    BY <1>2 DEF StartDocker, Phases, OkIsClean, StoppedContainerReported
  <2> QED
    BY <2>1, <2>2, <2>3, <2>4 DEF IInv
<1>3. CASE Wait
  <2>1. Phases'
    BY <1>3, WaitCodeFacts, RangeFacts DEF Wait, Phases, WaitCode, ExitCode
  <2>2. OkIsClean'
    BY <1>3 DEF Wait, OkIsClean, Phases
  <2>3. MergeIsOk'
    BY <1>3 DEF Wait, MergeIsOk, Phases
  <2>4. StoppedContainerReported'
    BY <1>3 DEF Wait, StoppedContainerReported, Phases
  <2> QED
    BY <1>3, <2>1, <2>2, <2>3, <2>4 DEF IInv, Wait, StopRecorded
<1>4. CASE Decide
  <2>1. Phases'
    BY <1>4 DEF Decide, Phases, WaitCode, ExitCode
  <2>2. OkIsClean'
    BY <1>4, WaitCodeFacts, RangeFacts DEF Decide, OkIsClean, Phases, StopRecorded, Results
  <2>3. MergeIsOk'
    BY <1>4 DEF Decide, MergeIsOk, Phases
  <2>4. StoppedContainerReported'
    BY <1>4, RangeFacts DEF Decide, StoppedContainerReported, Phases, StopRecorded
  <2> QED
    BY <1>4, <2>1, <2>2, <2>3, <2>4 DEF IInv, Decide, StopRecorded
<1>5. CASE AppendBuildStatus
  <2>1. Phases'
    BY <1>5 DEF AppendBuildStatus, Phases, WaitCode, ExitCode
  <2>2. MergeIsOk'
    BY <1>5 DEF AppendBuildStatus, MergeIsOk, Phases
  <2> QED
    BY <1>5, <2>1, <2>2 DEF IInv, AppendBuildStatus, StopRecorded, OkIsClean, StoppedContainerReported
<1>6. CASE MergeConfig
  <2>1. Phases'
    BY <1>6 DEF MergeConfig, Phases, WaitCode, ExitCode
  <2>2. MergeIsOk'
    BY <1>6 DEF MergeConfig, MergeIsOk, Phases
  <2> QED
    BY <1>6, <2>1, <2>2 DEF IInv, MergeConfig, StopRecorded, OkIsClean, StoppedContainerReported
<1>7. CASE ContainerStarts
  <2>1. StopRecorded'
    BY <1>7 DEF ContainerStarts, StopRecorded
  <2>2. Phases'
    BY <1>7 DEF ContainerStarts, Phases, WaitCode, ExitCode
  <2> QED
    BY <1>7, <2>1, <2>2 DEF IInv, ContainerStarts, OkIsClean, MergeIsOk, StoppedContainerReported
<1>8. CASE ContainerEnds
  <2>1. StopRecorded'
    BY <1>8, RangeFacts DEF ContainerEnds, StopRecorded, Phases, Results
  <2>2. Phases'
    BY <1>8, RangeFacts DEF ContainerEnds, Phases, WaitCode, ExitCode, Results
  <2>3. OkIsClean'
    BY <1>8, RangeFacts DEF ContainerEnds, OkIsClean, Phases, Results
  <2>4. StoppedContainerReported'
    BY <1>8, RangeFacts DEF ContainerEnds, StoppedContainerReported, Phases, StopRecorded, Results
  <2> QED
    BY <1>8, <2>1, <2>2, <2>3, <2>4 DEF IInv, ContainerEnds, MergeIsOk
<1>9. CASE ContainerStopped
  <2>1. StopRecorded'
    BY <1>9, RangeFacts DEF ContainerStopped, StopRecorded, Phases, Results
  <2>2. Phases'
    BY <1>9, RangeFacts DEF ContainerStopped, Phases, WaitCode, ExitCode, Results
  <2>3. OkIsClean'
    BY <1>9, RangeFacts DEF ContainerStopped, OkIsClean, Phases, Results
  <2>4. StoppedContainerReported'
    BY <1>9, RangeFacts DEF ContainerStopped, StoppedContainerReported, Phases, StopRecorded, Results
  <2> QED
    BY <1>9, <2>1, <2>2, <2>3, <2>4 DEF IInv, ContainerStopped, MergeIsOk
<1>10. CASE ClientDies
  <2>1. StopRecorded'
    BY <1>10, RangeFacts DEF ClientDies, StopRecorded, Phases, Results
  <2>2. Phases'
    BY <1>10, RangeFacts DEF ClientDies, Phases, WaitCode, ExitCode, Results
  <2>3. OkIsClean'
    BY <1>10, RangeFacts DEF ClientDies, OkIsClean, Phases, Results
  <2>4. StoppedContainerReported'
    BY <1>10, RangeFacts DEF ClientDies, StoppedContainerReported, Phases, StopRecorded, Results
  <2> QED
    BY <1>10, <2>1, <2>2, <2>3, <2>4 DEF IInv, ClientDies, MergeIsOk
<1>11. CASE \E line \in Lines : Output(line)
  <2>1. Phases'
    BY <1>11 DEF Output, Phases, WaitCode, ExitCode
  <2> QED
    BY <1>11, <2>1 DEF IInv, Output, StopRecorded, OkIsClean, MergeIsOk, StoppedContainerReported
<1>12. CASE CopyLine
  <2>1. StopRecorded'
    BY <1>12 DEF CopyLine, StopRecorded
  <2>2. Phases'
    BY <1>12 DEF CopyLine, Phases, WaitCode, ExitCode
  <2> QED
    BY <1>12, <2>1, <2>2 DEF IInv, CopyLine, OkIsClean, MergeIsOk, StoppedContainerReported
<1>13. CASE CopyFails
  <2>1. Phases'
    BY <1>13 DEF CopyFails, Phases, WaitCode, ExitCode
  <2>2. OkIsClean'
    BY <1>13 DEF CopyFails, OkIsClean, Phases
  <2> QED
    BY <1>13, <2>1, <2>2 DEF IInv, CopyFails, StopRecorded, MergeIsOk, StoppedContainerReported
<1>14. CASE TimerFires
  <2>1. StopRecorded'
    BY <1>14 DEF TimerFires, StopRecorded
  <2> QED
    BY <1>14, <2>1 DEF IInv, TimerFires, Phases, OkIsClean, MergeIsOk, StoppedContainerReported, WaitCode, ExitCode
<1>15. CASE \E g \in Stoppers : StopFirst(g)
  <2>1. StopRecorded'
    BY <1>15 DEF StopFirst, StopRecorded
  <2> QED
    BY <1>15, <2>1 DEF IInv, StopFirst, Phases, OkIsClean, MergeIsOk, StoppedContainerReported, WaitCode, ExitCode
<1>16. CASE \E g \in Stoppers : StopAgain(g)
  <2>1. StopRecorded'
    BY <1>16 DEF StopAgain, StopRecorded
  <2> QED
    BY <1>16, <2>1 DEF IInv, StopAgain, Phases, OkIsClean, MergeIsOk, StoppedContainerReported, WaitCode, ExitCode
<1>17. CASE \E g \in Stoppers : DockerStop(g)
  <2>1. StopRecorded'
    BY <1>17 DEF DockerStop, Live, StopRecorded
  <2>2. Phases'
    BY <1>17 DEF DockerStop, Live, Phases, WaitCode, ExitCode
  <2> QED
    BY <1>17, <2>1, <2>2 DEF IInv, DockerStop, Live, OkIsClean, MergeIsOk, StoppedContainerReported
<1>18. CASE \E g \in Stoppers : DockerStopReturns(g)
  <2>1. StopRecorded'
    BY <1>18 DEF DockerStopReturns, StopRecorded
  <2> QED
    BY <1>18, <2>1 DEF IInv, DockerStopReturns, Phases, OkIsClean, MergeIsOk, StoppedContainerReported, WaitCode, ExitCode
<1>19. CASE UNCHANGED vars
  <2> QED
    BY <1>19 DEF IInv, vars, StopRecorded, Phases, OkIsClean, MergeIsOk, StoppedContainerReported, WaitCode, ExitCode
<1> QED
  BY <1>1, <1>2, <1>3, <1>4, <1>5, <1>6, <1>7, <1>8, <1>9, <1>10, <1>11, <1>12, <1>13, <1>14, <1>15, <1>16, <1>17, <1>18, <1>19 DEF Next, Build, Child, Copier, StopStep, Terminated

\* The inductive invariant holds in every reachable state.
THEOREM Invariance == Spec => []IInv
<1>1. Init => IInv
  BY InitInv
<1>2. IInv /\ [Next]_vars => IInv'
  BY InvStep
<1> QED
  BY <1>1, <1>2, PTL DEF Spec

\* The types (TypeOK of HostBuild).
THEOREM TypeCorrect == Spec => []TypeOK
<1>1. IInv => TypeOK
  BY DEF IInv
<1> QED
  BY <1>1, Invariance, PTL

\* A container that docker stop ended is always reported STOPPED with rc 0
\* (host.go:184-189, 264-276).
THEOREM StoppedIsReported == Spec => []StoppedContainerReported
<1>1. IInv => StoppedContainerReported
  BY DEF IInv
<1> QED
  BY <1>1, Invariance, PTL

\* Only a build that ran to its own successful end is merged (host.go:180-197).
THEOREM MergeIsSafe == Spec => []MergeOnlyAfterCleanBuild
<1>1. IInv => MergeOnlyAfterCleanBuild
  <2> SUFFICES ASSUME IInv, merge # None PROVE MergeOnlyAfterCleanBuild
    BY DEF MergeOnlyAfterCleanBuild
  <2>1. opts.addIfSuccessful /\ status = "OK" /\ pc = "done"
    BY DEF IInv, MergeIsOk
  <2>2. ~opts.noop /\ result = [code |-> 0, by |-> "container"] /\ ~copyErr /\ rc = 0
    BY <2>1 DEF IInv, OkIsClean
  <2>3. opts.configFile
    BY <2>1 DEF IInv, TypeOK, Options
  <2>4. pipe = <<>>
    BY <2>1, <2>2 DEF IInv, Phases
  <2> QED
    BY <2>1, <2>2, <2>3, <2>4 DEF MergeOnlyAfterCleanBuild
<1> QED
  BY <1>1, Invariance, PTL

\* A run that returns 0 was a no-op, was stopped, or built everything and logged
\* all of it (host.go:175-192).
THEOREM NoFailureIsSilent == Spec => []NoSilentFailure
<1>1. IInv => NoSilentFailure
  BY DEF IInv, TypeOK, OkIsClean, Phases, NoSilentFailure, None
<1> QED
  BY <1>1, Invariance, PTL

\* docker stop is issued at most once, by the goroutine whose reason is recorded
\* (host.go:264-276).
THEOREM StopsOnce == Spec => SingleStop
<1>1. IInv /\ [Next]_vars =>
        [\A g \in Stoppers :
            stopper[g] = "call" /\ stopper'[g] = "signal" => ~did /\ why' = g]_vars
  <2> SUFFICES ASSUME IInv, [Next]_vars, NEW g \in Stoppers,
                      stopper[g] = "call", stopper'[g] = "signal"
               PROVE  ~did /\ why' = g
    OBVIOUS
  <2>1. StopFirst(g)
    BY DEF IInv, TypeOK, Stoppers, Next, Build, Child, Copier, StopStep, Terminated, Prepare,
           StartDocker, Wait, Decide, AppendBuildStatus, MergeConfig, ContainerStarts,
           ContainerEnds, ContainerStopped, ClientDies, Output, CopyLine, CopyFails,
           TimerFires, StopFirst, StopAgain, DockerStop, DockerStopReturns,
           vars, buildVars, childVars, watchVars, stopVars
  <2> QED
    BY <2>1 DEF IInv, StopRecorded, StopFirst
<1> QED
  BY <1>1, Invariance, PTL DEF Spec, SingleStop
-----------------------------------------------------------------------------
(***************************************************************************)
(* The watcher in the child's output (LineWatcher, which this module       *)
(* extends too) keeps only what follows the last line it has looked at.    *)
(* That is enough, for outputs and chunks of any length: the lines before  *)
(* it did not match, or it would have fired, so a match of the whole       *)
(* output is one of what is kept with the new chunk after it.              *)
(***************************************************************************)

\* What is kept, and what has been asked for.
Watching ==
    /\ ~hasFired => ~Matching(text) /\ buf = Rest(text)
    /\ hasFired => Matching(text)
    /\ calls = IF hasFired THEN 1 ELSE 0

WatcherInv == WatcherTypeOK /\ Watching

-----------------------------------------------------------------------------
(* Lines. *)

\* A set of positions that is not empty has a last one.
LEMMA LastPosition ==
    ASSUME NEW N \in Nat, NEW S \in SUBSET (1..N), S # {}
    PROVE  \E i \in S : \A j \in S : j <= i
<1> DEFINE Above(i) == {j \in 1..N : j > i}
           T == {Above(i) : i \in S}
<1>1. IsFiniteSet(1..N)
  BY FS_Interval
<1>2. T \subseteq FiniteSubsetsOf(1..N) /\ T # {}
  <2>1. ASSUME NEW i \in S PROVE Above(i) \in FiniteSubsetsOf(1..N)
    <3>1. Above(i) \subseteq 1..N
      OBVIOUS
    <3> HIDE DEF Above
    <3>2. IsFiniteSet(Above(i))
      BY <1>1, <3>1, FS_Subset
    <3> QED
      BY <3>1, <3>2 DEF FiniteSubsetsOf
  <2> HIDE DEF Above
  <2> QED
    BY <2>1
<1>3. IsWellFoundedOn(StrictSubsetOrdering(1..N), FiniteSubsetsOf(1..N))
  BY FS_StrictSubsetOrderingWellFounded
<1>4. PICK x \in T : \A y \in T : <<y, x>> \notin StrictSubsetOrdering(1..N)
  <2> HIDE DEF T
  <2> QED
    BY <1>2, <1>3, WFMin
<1>5. PICK i \in S : x = Above(i)
  BY <1>4
<1>6. ASSUME NEW j \in S, j > i PROVE FALSE
  <2>1. Above(j) \in T /\ Above(j) \subseteq Above(i) /\ j \in Above(i) /\ j \notin Above(j)
    BY <1>6
  <2>2. <<Above(j), Above(i)>> \in StrictSubsetOrdering(1..N)
    BY <2>1 DEF StrictSubsetOrdering
  <2> QED
    BY <1>4, <1>5, <2>1, <2>2
<1> QED
  BY <1>6

\* LastEnd is where the last complete line ends.
LEMMA LastEndIs ==
    ASSUME NEW b \in Seq(Bytes)
    PROVE  /\ LastEnd(b) \in 0..Len(b)
           /\ LastEnd(b) # 0 => b[LastEnd(b)] = Newline
           /\ \A j \in 1..Len(b) : b[j] = Newline => j <= LastEnd(b)
<1>1. CASE Ends(b) = {}
  BY <1>1 DEF LastEnd, Ends
<1>2. CASE Ends(b) # {}
  <2>1. Len(b) \in Nat /\ Ends(b) \in SUBSET (1..Len(b))
    BY DEF Ends
  <2>2. \E i \in Ends(b) : \A j \in Ends(b) : j <= i
    BY <1>2, <2>1, LastPosition
  <2>3. LastEnd(b) \in Ends(b) /\ \A j \in Ends(b) : j <= LastEnd(b)
    BY <1>2, <2>2 DEF LastEnd
  <2> QED
    BY <2>1, <2>3 DEF Ends
<1> QED
  BY <1>1, <1>2

\* Nothing else is.
LEMMA LastEndOnly ==
    ASSUME NEW b \in Seq(Bytes), NEW m \in 0..Len(b), m # 0 => b[m] = Newline,
           \A j \in 1..Len(b) : b[j] = Newline => j <= m
    PROVE  LastEnd(b) = m
<1>1. /\ LastEnd(b) \in 0..Len(b)
      /\ LastEnd(b) # 0 => b[LastEnd(b)] = Newline
      /\ \A j \in 1..Len(b) : b[j] = Newline => j <= LastEnd(b)
  BY LastEndIs
<1>2. Len(b) \in Nat /\ m \in Nat /\ LastEnd(b) \in Nat
  BY <1>1
<1>3. LastEnd(b) <= m
  <2>1. LastEnd(b) # 0 => LastEnd(b) \in 1..Len(b)
    BY <1>1, <1>2
  <2> QED
    BY <1>1, <1>2, <2>1
<1>4. m <= LastEnd(b)
  <2>1. m # 0 => m \in 1..Len(b)
    BY <1>2
  <2> QED
    BY <1>1, <1>2, <2>1
<1> QED
  BY <1>2, <1>3, <1>4

\* Some complete line matches when a match is followed by the end of a line.
LEMMA MatchingIs ==
    ASSUME NEW b \in Seq(Bytes)
    PROVE  Matching(b) <=> \E i, j \in 1..Len(b) : i <= j /\ b[i] = "match" /\ b[j] = Newline
<1>1. /\ LastEnd(b) \in 0..Len(b)
      /\ LastEnd(b) # 0 => b[LastEnd(b)] = Newline
      /\ \A j \in 1..Len(b) : b[j] = Newline => j <= LastEnd(b)
  BY LastEndIs
<1>2. ASSUME Matching(b)
      PROVE  \E i, j \in 1..Len(b) : i <= j /\ b[i] = "match" /\ b[j] = Newline
  <2>1. PICK i \in 1..LastEnd(b) : b[i] = "match"
    BY <1>2 DEF Matching
  <2>2. /\ i \in 1..Len(b) /\ LastEnd(b) \in 1..Len(b) /\ i <= LastEnd(b)
        /\ LastEnd(b) # 0
    BY <1>1
  <2>3. b[LastEnd(b)] = Newline
    BY <1>1, <2>2
  <2> QED
    BY <2>1, <2>2, <2>3
<1>3. ASSUME NEW i \in 1..Len(b), NEW j \in 1..Len(b), i <= j, b[i] = "match", b[j] = Newline
      PROVE  Matching(b)
  <2>1. j <= LastEnd(b)
    BY <1>1, <1>3
  <2>2. i \in 1..LastEnd(b)
    BY <1>1, <1>3, <2>1
  <2> QED
    BY <1>3, <2>2 DEF Matching
<1> QED
  BY <1>2, <1>3

\* What follows the last complete line.
LEMMA RestIs ==
    ASSUME NEW b \in Seq(Bytes)
    PROVE  /\ Rest(b) \in Seq(Bytes) /\ Len(Rest(b)) = Len(b) - LastEnd(b)
           /\ \A i \in 1..Len(b) - LastEnd(b) : Rest(b)[i] = b[LastEnd(b) + i]
<1>1. LastEnd(b) \in 0..Len(b) /\ Len(b) \in Nat
  BY LastEndIs
<1> DEFINE m == LastEnd(b) + 1
           n == Len(b)
<1>2. m \in Int /\ n \in Int /\ \A i \in m..n : b[i] \in Bytes
  BY <1>1
<1>3. /\ SubSeq(b, m, n) \in Seq(Bytes) /\ Len(SubSeq(b, m, n)) = IF m <= n THEN n - m + 1 ELSE 0
      /\ \A i \in 1..n - m + 1 : SubSeq(b, m, n)[i] = b[m + i - 1]
  <2> HIDE DEF m, n
  <2> QED
    BY <1>2, SubSeqProperties
<1>4. Rest(b) = SubSeq(b, m, n)
  BY DEF Rest
<1>5. Len(Rest(b)) = Len(b) - LastEnd(b)
  BY <1>1, <1>3, <1>4
<1>6. ASSUME NEW i \in 1..Len(b) - LastEnd(b) PROVE Rest(b)[i] = b[LastEnd(b) + i]
  <2>1. i \in 1..n - m + 1 /\ m + i - 1 = LastEnd(b) + i
    BY <1>1
  <2>2. SubSeq(b, m, n)[i] = b[m + i - 1]
    BY <1>3, <2>1
  <2> QED
    BY <1>4, <2>1, <2>2
<1> QED
  BY <1>3, <1>4, <1>5, <1>6

\* What is kept of t, with a chunk after it, is the end of t with the chunk after it.
LEMMA Shifted ==
    ASSUME NEW t \in Seq(Bytes), NEW c \in Seq(Bytes)
    PROVE  /\ t \o c \in Seq(Bytes) /\ Rest(t) \o c \in Seq(Bytes)
           /\ Len(t \o c) = LastEnd(t) + Len(Rest(t) \o c)
           /\ \A i \in 1..Len(Rest(t) \o c) : (Rest(t) \o c)[i] = (t \o c)[LastEnd(t) + i]
           /\ \A i \in 1..LastEnd(t) : (t \o c)[i] = t[i]
<1>1. LastEnd(t) \in 0..Len(t) /\ Len(t) \in Nat /\ Len(c) \in Nat
  BY LastEndIs
<1>2. /\ Rest(t) \in Seq(Bytes) /\ Len(Rest(t)) = Len(t) - LastEnd(t)
      /\ \A i \in 1..Len(t) - LastEnd(t) : Rest(t)[i] = t[LastEnd(t) + i]
  BY RestIs
<1>3. /\ t \o c \in Seq(Bytes) /\ Len(t \o c) = Len(t) + Len(c)
      /\ \A i \in 1..Len(t) + Len(c) : (t \o c)[i] = IF i <= Len(t) THEN t[i] ELSE c[i - Len(t)]
  BY ConcatProperties
<1>4. /\ Rest(t) \o c \in Seq(Bytes) /\ Len(Rest(t) \o c) = Len(Rest(t)) + Len(c)
      /\ \A i \in 1..Len(Rest(t)) + Len(c) :
            (Rest(t) \o c)[i] = IF i <= Len(Rest(t)) THEN Rest(t)[i] ELSE c[i - Len(Rest(t))]
  BY <1>2, ConcatProperties
<1>5. Len(t \o c) = LastEnd(t) + Len(Rest(t) \o c)
  BY <1>1, <1>2, <1>3, <1>4
<1>6. ASSUME NEW i \in 1..Len(Rest(t) \o c)
      PROVE  (Rest(t) \o c)[i] = (t \o c)[LastEnd(t) + i]
  <2>1. /\ i \in 1..Len(Rest(t)) + Len(c) /\ LastEnd(t) + i \in 1..Len(t) + Len(c)
        /\ i <= Len(Rest(t)) <=> LastEnd(t) + i <= Len(t)
        /\ i - Len(Rest(t)) = (LastEnd(t) + i) - Len(t)
    BY <1>1, <1>2, <1>4
  <2>2. CASE i <= Len(Rest(t))
    <3>1. i \in 1..Len(t) - LastEnd(t)
      BY <1>1, <1>2, <2>1, <2>2
    <3> QED
      BY <1>2, <1>3, <1>4, <2>1, <2>2, <3>1
  <2>3. CASE ~(i <= Len(Rest(t)))
    BY <1>3, <1>4, <2>1, <2>3
  <2> QED
    BY <2>2, <2>3
<1>7. ASSUME NEW i \in 1..LastEnd(t) PROVE (t \o c)[i] = t[i]
  BY <1>1, <1>3
<1> QED
  BY <1>3, <1>4, <1>5, <1>6, <1>7

\* Without a match in t, the watcher sees in what it kept what there is to see.
LEMMA KeptIsEnough ==
    ASSUME NEW t \in Seq(Bytes), NEW c \in Seq(Bytes), ~Matching(t)
    PROVE  /\ Matching(t \o c) <=> Matching(Rest(t) \o c)
           /\ Rest(t \o c) = Rest(Rest(t) \o c)
<1> DEFINE u == t \o c
           b == Rest(t) \o c
           L == LastEnd(t)
<1>1. /\ u \in Seq(Bytes) /\ b \in Seq(Bytes) /\ Len(u) = L + Len(b)
      /\ \A i \in 1..Len(b) : b[i] = u[L + i]
      /\ \A i \in 1..L : u[i] = t[i]
  BY Shifted
<1>2. /\ L \in Nat /\ L \in 0..Len(t) /\ Len(t) \in Nat
      /\ L # 0 => t[L] = Newline
      /\ \A i \in 1..L : t[i] # "match"
  <2>1. L \in 0..Len(t) /\ Len(t) \in Nat
    BY LastEndIs
  <2> QED
    BY <2>1, LastEndIs DEF Matching
<1>3. /\ Len(b) \in Nat /\ Len(u) \in Nat
      /\ Matching(b) <=> \E i, j \in 1..Len(b) : i <= j /\ b[i] = "match" /\ b[j] = Newline
      /\ Matching(u) <=> \E i, j \in 1..Len(u) : i <= j /\ u[i] = "match" /\ u[j] = Newline
  <2> HIDE DEF u, b
  <2> QED
    BY <1>1, MatchingIs
<1>4. /\ LastEnd(b) \in 0..Len(b)
      /\ LastEnd(b) # 0 => b[LastEnd(b)] = Newline
      /\ \A j \in 1..Len(b) : b[j] = Newline => j <= LastEnd(b)
  <2> HIDE DEF u, b
  <2> QED
    BY <1>1, LastEndIs
<1>5. ASSUME NEW m, m \in 0..Len(u), m # 0 => u[m] = Newline,
             \A j \in 1..Len(u) : u[j] = Newline => j <= m
      PROVE  LastEnd(u) = m
  <2> HIDE DEF u
  <2> QED
    BY <1>1, <1>5, LastEndOnly
<1>6. /\ Rest(b) \in Seq(Bytes) /\ Len(Rest(b)) = Len(b) - LastEnd(b)
      /\ \A i \in 1..Len(b) - LastEnd(b) : Rest(b)[i] = b[LastEnd(b) + i]
      /\ Rest(u) \in Seq(Bytes) /\ Len(Rest(u)) = Len(u) - LastEnd(u)
      /\ \A i \in 1..Len(u) - LastEnd(u) : Rest(u)[i] = u[LastEnd(u) + i]
  <2> HIDE DEF u, b
  <2> QED
    BY <1>1, RestIs
<1> HIDE DEF u, b, L
<1>7. ASSUME NEW i \in 1..Len(u), i > L PROVE i - L \in 1..Len(b) /\ b[i - L] = u[i]
  <2>1. i - L \in 1..Len(b) /\ L + (i - L) = i
    BY <1>1, <1>2, <1>3, <1>7
  <2>2. b[i - L] = u[L + (i - L)]
    BY <1>1, <2>1
  <2> QED
    BY <2>1, <2>2
<1>8. Matching(u) => Matching(b)
  <2> SUFFICES ASSUME NEW i \in 1..Len(u), NEW j \in 1..Len(u), i <= j, u[i] = "match",
                      u[j] = Newline
               PROVE  \E k, l \in 1..Len(b) : k <= l /\ b[k] = "match" /\ b[l] = Newline
    BY <1>3
  <2>1. i > L
    <3>1. i <= L => i \in 1..L
      BY <1>2
    <3>2. ~(i <= L)
      BY <1>1, <1>2, <3>1
    <3> QED
      BY <1>2, <1>3, <3>2
  <2>2. j > L /\ i - L <= j - L
    BY <1>2, <1>3, <2>1
  <2>3. i - L \in 1..Len(b) /\ b[i - L] = "match"
    BY <1>7, <2>1
  <2>4. j - L \in 1..Len(b) /\ b[j - L] = Newline
    BY <1>7, <2>2
  <2> QED
    BY <2>2, <2>3, <2>4
<1>9. Matching(b) => Matching(u)
  <2> SUFFICES ASSUME NEW i \in 1..Len(b), NEW j \in 1..Len(b), i <= j, b[i] = "match",
                      b[j] = Newline
               PROVE  \E k, l \in 1..Len(u) : k <= l /\ u[k] = "match" /\ u[l] = Newline
    BY <1>3
  <2>1. L + i \in 1..Len(u) /\ L + j \in 1..Len(u) /\ L + i <= L + j
    BY <1>1, <1>2, <1>3
  <2>2. u[L + i] = "match" /\ u[L + j] = Newline
    BY <1>1
  <2> QED
    BY <2>1, <2>2
<1>10. LastEnd(u) = L + LastEnd(b)
  <2> DEFINE m == L + LastEnd(b)
  <2>1. m \in 0..Len(u)
    BY <1>1, <1>2, <1>3, <1>4
  <2>2. m # 0 => u[m] = Newline
    <3>1. CASE LastEnd(b) = 0
      <4>1. m = L /\ (L # 0 => L \in 1..L)
        BY <1>2, <3>1
      <4> QED
        BY <1>1, <1>2, <4>1
    <3>2. CASE LastEnd(b) # 0
      <4>1. LastEnd(b) \in 1..Len(b)
        BY <1>3, <1>4, <3>2
      <4> QED
        BY <1>1, <1>4, <3>2, <4>1
    <3> QED
      BY <3>1, <3>2
  <2>3. ASSUME NEW j \in 1..Len(u), u[j] = Newline PROVE j <= m
    <3>1. CASE j > L
      <4>1. j - L \in 1..Len(b) /\ b[j - L] = Newline
        BY <1>7, <2>3, <3>1
      <4>2. j - L <= LastEnd(b)
        BY <1>4, <4>1
      <4> QED
        BY <1>2, <1>3, <1>4, <4>2
    <3>2. CASE ~(j > L)
      BY <1>2, <1>3, <1>4, <3>2
    <3> QED
      BY <3>1, <3>2
  <2> HIDE DEF m
  <2>4. LastEnd(u) = m
    BY <1>5, <2>1, <2>2, <2>3
  <2> QED
    BY <2>4 DEF m
<1>11. Rest(u) = Rest(b)
  <2>1. Len(Rest(u)) = Len(Rest(b))
    BY <1>1, <1>2, <1>3, <1>4, <1>6, <1>10
  <2>2. ASSUME NEW i \in 1..Len(Rest(u)) PROVE Rest(u)[i] = Rest(b)[i]
    <3>1. /\ i \in 1..Len(u) - LastEnd(u) /\ i \in 1..Len(b) - LastEnd(b)
          /\ LastEnd(b) + i \in 1..Len(b) /\ LastEnd(u) + i = L + (LastEnd(b) + i)
      BY <1>2, <1>3, <1>4, <1>6, <1>10, <2>1
    <3>2. Rest(u)[i] = u[L + (LastEnd(b) + i)] /\ Rest(b)[i] = b[LastEnd(b) + i]
      BY <1>6, <3>1
    <3> QED
      BY <1>1, <3>1, <3>2
  <2> QED
    BY <1>6, <2>1, <2>2, SeqEqual
<1> QED
  BY <1>8, <1>9, <1>11 DEF u, b

\* Nothing is kept of no output.
LEMMA NothingKept ==
    ASSUME NEW b \in Seq(Bytes), Len(b) = 0
    PROVE  Rest(b) = <<>>
<1>1. LastEnd(b) \in 0..Len(b)
  BY LastEndIs
<1>2. LastEnd(b) = 0
  BY <1>1
<1>3. Rest(b) \in Seq(Bytes) /\ Len(Rest(b)) = 0
  <2>1. Rest(b) \in Seq(Bytes) /\ Len(Rest(b)) = Len(b) - LastEnd(b)
    BY RestIs
  <2>2. Len(b) - LastEnd(b) = 0
    BY <1>2
  <2> QED
    BY <2>1, <2>2
<1> QED
  BY <1>3, EmptySeq

\* More output leaves a match where it is.
LEMMA MatchStays ==
    ASSUME NEW t \in Seq(Bytes), NEW c \in Seq(Bytes), Matching(t)
    PROVE  Matching(t \o c)
<1>1. PICK i, j \in 1..Len(t) : i <= j /\ t[i] = "match" /\ t[j] = Newline
  BY MatchingIs
<1>2. /\ t \o c \in Seq(Bytes) /\ Len(t \o c) = Len(t) + Len(c)
      /\ \A k \in 1..Len(t) + Len(c) : (t \o c)[k] = IF k <= Len(t) THEN t[k] ELSE c[k - Len(t)]
  BY ConcatProperties
<1>3. /\ Len(t) \in Nat /\ Len(c) \in Nat
      /\ i \in 1..Len(t \o c) /\ j \in 1..Len(t \o c) /\ i <= Len(t) /\ j <= Len(t)
  BY <1>2
<1>4. (t \o c)[i] = t[i] /\ (t \o c)[j] = t[j]
  BY <1>2, <1>3
<1> HIDE DEF Newline
<1> QED
  BY <1>1, <1>2, <1>3, <1>4, MatchingIs

-----------------------------------------------------------------------------
(* The watcher. *)

\* What the log takes of a chunk is a piece of output no longer than the chunk.
LEMMA Taken ==
    ASSUME NEW p \in Chunks, NEW n \in 0..Len(p)
    PROVE  /\ SubSeq(p, 1, n) \in Seq(Bytes)
           /\ Len(SubSeq(p, 1, n)) = n /\ n \in Nat /\ Len(p) \in Nat
<1>1. p \in Seq(Bytes)
  <2>1. PICK k \in 1..MaxChunk : p \in [1..k -> Bytes]
    BY DEF Chunks
  <2>2. k \in Nat
    BY <2>1, ChunksAssumption
  <2> HIDE DEF Bytes
  <2> QED
    BY <2>1, <2>2, SeqDef
<1>2. Len(p) \in Nat /\ n \in Int /\ 1 \in Int
  BY <1>1
<1>3. \A i \in 1..n : p[i] \in Bytes
  <2>1. \A i \in 1..n : i \in 1..Len(p)
    BY <1>2
  <2> QED
    BY <1>1, <2>1, ElementOfSeq
<1>4. SubSeq(p, 1, n) \in Seq(Bytes) /\ Len(SubSeq(p, 1, n)) = IF 1 <= n THEN n - 1 + 1 ELSE 0
  BY <1>2, <1>3, SubSeqProperties
<1> QED
  BY <1>2, <1>4

\* Every write keeps what is kept right.
THEOREM WatcherInvariance == WatcherSpec => []WatcherInv
<1>1. WatcherInit => WatcherInv
  <2> SUFFICES ASSUME WatcherInit PROVE WatcherInv
    OBVIOUS
  <2>1. text = <<>> /\ buf = <<>> /\ ~hasFired /\ calls = 0 /\ broken = FALSE /\ hasFired = FALSE
    BY DEF WatcherInit
  <2>2. <<>> \in Seq(Bytes) /\ Len(<<>>) = 0
    BY EmptySeq
  <2>3. WatcherTypeOK
    <3>1. text \in Seq(Bytes) /\ buf \in Seq(Bytes) /\ Len(text) = 0
      BY <2>1, <2>2
    <3>2. Len(text) <= MaxText /\ calls \in 0..1
      BY <2>1, <3>1, ChunksAssumption
    <3> QED
      BY <2>1, <3>1, <3>2 DEF WatcherTypeOK
  <2>4. ~Matching(<<>>)
    <3>1. ~ \E i, j \in 1..0 : i <= j /\ <<>>[i] = "match" /\ <<>>[j] = Newline
      OBVIOUS
    <3> QED
      BY <2>2, <3>1, MatchingIs
  <2>5. Rest(<<>>) = <<>>
    BY <2>2, NothingKept
  <2> QED
    BY <2>1, <2>3, <2>4, <2>5 DEF WatcherInv, Watching
<1>2. WatcherInv /\ [WatcherNext]_watcherVars => WatcherInv'
  <2> SUFFICES ASSUME WatcherInv, [WatcherNext]_watcherVars PROVE WatcherInv'
    OBVIOUS
  <2> USE DEF WatcherInv
  <2>1. ASSUME NEW p \in Chunks, NEW n \in 0..Len(p), Len(text) + Len(p) <= MaxText, Write(p, n)
        PROVE  WatcherInv'
    <3> DEFINE c == SubSeq(p, 1, n)
    <3>1. c \in Seq(Bytes) /\ Len(c) <= Len(p) /\ Len(c) \in Nat /\ Len(p) \in Nat
      BY Taken
    <3>2. text' = text \o c /\ broken' = (n < Len(p)) /\ text \in Seq(Bytes)
      BY <2>1 DEF Write, WatcherTypeOK
    <3> HIDE DEF c
    <3>3. text' \in Seq(Bytes) /\ Len(text') <= MaxText /\ broken' \in BOOLEAN
      <4>1. text \o c \in Seq(Bytes) /\ Len(text \o c) = Len(text) + Len(c) /\ Len(text) \in Nat
        BY <3>1, <3>2, ConcatProperties
      <4>2. Len(text) + Len(c) <= MaxText
        BY <2>1, <3>1, <4>1, ChunksAssumption
      <4> QED
        BY <3>2, <4>1, <4>2
    <3>4. CASE hasFired /\ UNCHANGED <<buf, hasFired, calls>>
      <4>1. Matching(text')
        BY <3>1, <3>2, <3>4, MatchStays DEF Watching
      <4>2. WatcherTypeOK'
        BY <3>3, <3>4 DEF WatcherTypeOK
      <4>3. Watching'
        BY <3>4, <4>1 DEF Watching, Matching
      <4> QED
        BY <4>2, <4>3
    <3>5. CASE ~hasFired /\ Scan(c)
      <4> DEFINE b == buf \o c
      <4>1. ~Matching(text) /\ buf = Rest(text) /\ calls = 0
        BY <3>5 DEF Watching
      <4>2. /\ hasFired' = Matching(b) /\ buf' = (IF Matching(b) THEN <<>> ELSE Rest(b))
            /\ calls' = IF Matching(b) THEN calls + 1 ELSE calls
        BY <3>5 DEF Scan
      <4>3. /\ Matching(text') <=> Matching(b)
            /\ Rest(text') = Rest(b) /\ b \in Seq(Bytes)
        BY <3>1, <3>2, <4>1, KeptIsEnough, Shifted
      <4> HIDE DEF b
      <4>4. Rest(b) \in Seq(Bytes) /\ <<>> \in Seq(Bytes) /\ Matching(b) \in BOOLEAN
        BY <4>3, RestIs, EmptySeq DEF Matching
      <4>5. calls' = IF hasFired' THEN 1 ELSE 0
        BY <4>1, <4>2
      <4>6. buf' \in Seq(Bytes) /\ hasFired' \in BOOLEAN
        BY <4>2, <4>4
      <4>7. calls' \in 0..1
        BY <4>5
      <4>8. WatcherTypeOK'
        BY <3>3, <4>6, <4>7 DEF WatcherTypeOK
      <4>9. (hasFired' <=> Matching(text')) /\ (~hasFired' => buf' = Rest(text'))
        BY <4>2, <4>3
      <4>10. Watching'
        BY <4>5, <4>9 DEF Watching, Matching, Rest, LastEnd, Ends
      <4> QED
        BY <4>8, <4>10
    <3> QED
      BY <2>1, <3>4, <3>5 DEF Write, c
  <2>2. CASE UNCHANGED watcherVars
    BY <2>2 DEF watcherVars, WatcherTypeOK, Watching, Matching, Rest, LastEnd, Ends
  <2> QED
    BY <2>1, <2>2 DEF WatcherNext
<1> QED
  BY <1>1, <1>2, PTL DEF WatcherSpec

\* The log and the watcher's buffer hold bytes, and one call at most is made.
THEOREM WatcherTypeCorrect == WatcherSpec => []WatcherTypeOK
BY WatcherInvariance, PTL DEF WatcherInv

\* However the output is cut into chunks, the stop is asked for exactly when a complete
\* line of it matches, and once (host.go:302-325).
THEOREM StopsExactlyOnMatch == WatcherSpec => []StopsOnFirstMatch
<1>1. WatcherInv => StopsOnFirstMatch
  BY DEF WatcherInv, Watching, StopsOnFirstMatch
<1> QED
  BY <1>1, WatcherInvariance, PTL
=============================================================================
