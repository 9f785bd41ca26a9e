------------------------------ MODULE HostBuild ------------------------------
(***************************************************************************)
(* One run of host.BuildOne (src/go/host/host.go): the goroutine that runs *)
(* it, the `docker run` child it waits for, the output pipe with the       *)
(* lineWatcher that reads it, and the two goroutines that may stop the     *)
(* container early (the -timeout timer and the -until watcher) through one *)
(* earlyStopper.                                                           *)
(*                                                                         *)
(* The container is external: it is pulled, runs, may print lines, and     *)
(* ends by itself or because `docker stop` reached it.  Lines are either   *)
(* ones the -until regexp matches or ones it does not; LineWatcher.tla     *)
(* models how chunks of bytes become lines.                                *)
(***************************************************************************)
EXTENDS Integers, Sequences

CONSTANTS
    MaxLines,   \* bound on the lines the container prints
    ExitCodes   \* exit codes a container ends with (0 is success)

ASSUME ExitCodesAssumption == ExitCodes \subseteq Nat /\ 0 \in ExitCodes
ASSUME MaxLinesAssumption == MaxLines \in Nat

VARIABLES
    opts,       \* the Options the command line gave
    pc,         \* where BuildOne is
    container,  \* the container's life cycle
    result,     \* how the `docker run` child ended
    pipe,       \* lines printed by the child and not read yet
    printed,    \* number of lines printed so far
    copyErr,    \* a write of the child's output to the log failed
    fired,      \* lineWatcher.fired
    stopper,    \* each goroutine's progress through earlyStopper.stop
    once,       \* earlyStopper.once
    did,        \* earlyStopper.did
    why,        \* earlyStopper.why
    status,     \* the status of the build_status line
    rc,         \* BuildOne's return value, or the code of a fatal exit
    appended,   \* the build_status line has been written
    merge       \* what mergeConfig did

buildVars == <<opts, pc, status, rc, appended, merge>>
childVars == <<container, result, pipe, printed>>
watchVars == <<copyErr, fired>>
stopVars  == <<stopper, once, did, why>>
vars == <<buildVars, childVars, watchVars, stopVars>>

None == "none"
Stoppers == {"timer", "watcher"}
Lines == {"plain", "match"}

\* The option combinations runBuildOne lets through: -add-if-successful needs -c.
Options == {o \in [noop: BOOLEAN, timeout: BOOLEAN, until: BOOLEAN,
                   addIfSuccessful: BOOLEAN, configFile: BOOLEAN] :
              o.addIfSuccessful => o.configFile}

\* How cmd.Wait can see the child end: by the container's own end, by docker
\* stop, or because the docker client itself died (code -1, killed by a signal).
Results == [code: ExitCodes, by: {"container", "stop"}]
             \cup {[code |-> -1, by |-> "client"]}

\* The child has not ended.
Pending == [code |-> -1, by |-> "nobody"]

Pcs == {"load", "start", "wait", "decide", "append", "merge", "done", "fatal"}

TypeOK ==
    /\ opts \in Options
    /\ pc \in Pcs
    /\ container \in {"none", "pulling", "running", "stopping", "exited"}
    /\ result \in Results \cup {Pending}
    /\ pipe \in Seq(Lines)
    /\ printed \in 0..MaxLines
    /\ copyErr \in BOOLEAN /\ fired \in BOOLEAN
    /\ stopper \in [Stoppers -> {"idle", "call", "signal", "waiting", "done"}]
    /\ once \in {"free", "busy", "done"}
    /\ did \in BOOLEAN
    /\ why \in Stoppers \cup {None}
    /\ status \in {None, "OK", "NOOP", "STOPPED", "FAILED"}
    /\ rc \in Nat
    /\ appended \in BOOLEAN
    /\ merge \in {None, "merged", "skipped", "failed"}

Init ==
    /\ opts \in Options
    /\ pc = "load" /\ container = "none" /\ result = Pending
    /\ pipe = <<>> /\ printed = 0 /\ copyErr = FALSE /\ fired = FALSE
    /\ stopper = [g \in Stoppers |-> "idle"]
    /\ once = "free" /\ did = FALSE /\ why = None
    /\ status = None /\ rc = 0 /\ appended = FALSE /\ merge = None

-----------------------------------------------------------------------------
(* The goroutine of BuildOne. *)

\* logx.Fatalf: the process exits with the code, whatever else was running.
Fatal(code) == pc' = "fatal" /\ rc' = code

\* Load the config, look up the image, resolve the build, open the log: each
\* may end the run with its own code; the preflight check only logs.
Prepare ==
    /\ pc = "load"
    /\ \/ \E code \in {1, 2, 3} : Fatal(code)
       \/ pc' = "start" /\ UNCHANGED rc
    /\ UNCHANGED <<opts, status, appended, merge, childVars, watchVars, stopVars>>

\* -n skips docker altogether; otherwise start the child, whose image may
\* have to be pulled before there is a container of that name.
StartDocker ==
    /\ pc = "start"
    /\ \/ /\ opts.noop
          /\ pc' = "decide"
          /\ UNCHANGED <<container, rc>>
       \/ /\ ~opts.noop
          /\ Fatal(1)
          /\ UNCHANGED container
       \/ /\ ~opts.noop
          /\ pc' = "wait"
          /\ container' = "pulling"
          /\ UNCHANGED rc
    /\ UNCHANGED <<opts, status, appended, merge, result, pipe, printed,
                   watchVars, stopVars>>

\* Mutant: the -1 of a child killed by a signal is returned as it is.
ExitCodeRaw(code) == code

\* exitCode: the child's code when it has one, 1 for a signal or another error.
ExitCode(code) == IF code >= 0 THEN code ELSE 1

\* Mutant: only the child's own exit counts.
WaitCodeOfChild == ExitCode(result.code)

\* What cmd.Wait makes of the run: the child's code, and a failed copy of its
\* output is an error even when the child succeeded.
WaitCode == IF result.code = 0 /\ copyErr THEN 1 ELSE ExitCode(result.code)

\* cmd.Wait returns once the child has ended and its output has been copied.
Wait ==
    /\ pc = "wait"
    /\ result # Pending
    /\ pipe = <<>>
    /\ rc' = WaitCode
    /\ pc' = "decide"
    /\ UNCHANGED <<opts, status, appended, merge, childVars, watchVars, stopVars>>

\* Mutant: the exit code is looked at before the stopper.
DecideFailedFirst ==
    /\ pc = "decide"
    /\ \/ opts.noop /\ status' = "NOOP" /\ UNCHANGED rc
       \/ ~opts.noop /\ rc # 0 /\ status' = "FAILED" /\ UNCHANGED rc
       \/ ~opts.noop /\ rc = 0 /\ did /\ status' = "STOPPED" /\ UNCHANGED rc
       \/ ~opts.noop /\ rc = 0 /\ ~did /\ status' = "OK" /\ UNCHANGED rc
    /\ pc' = "append"
    /\ UNCHANGED <<opts, appended, merge, childVars, watchVars, stopVars>>

\* The status switch, with the one read of stopper.did.
Decide ==
    /\ pc = "decide"
    /\ \/ opts.noop /\ status' = "NOOP" /\ UNCHANGED rc
       \/ ~opts.noop /\ did /\ status' = "STOPPED" /\ rc' = 0
       \/ ~opts.noop /\ ~did /\ rc # 0 /\ status' = "FAILED" /\ UNCHANGED rc
       \/ ~opts.noop /\ ~did /\ rc = 0 /\ status' = "OK" /\ UNCHANGED rc
    /\ pc' = "append"
    /\ UNCHANGED <<opts, appended, merge, childVars, watchVars, stopVars>>

\* appendBuildStatus: best effort, a failure is only logged.
AppendBuildStatus ==
    /\ pc = "append"
    /\ appended' \in BOOLEAN
    /\ pc' = "merge"
    /\ UNCHANGED <<opts, status, rc, merge, childVars, watchVars, stopVars>>

\* Mutant: the merge is decided on the return value, which is 0 for STOPPED too.
MergeConfigOnZero ==
    /\ pc = "merge"
    /\ IF opts.addIfSuccessful /\ rc = 0
         THEN merge' \in {"merged", "skipped", "failed"}
         ELSE UNCHANGED merge
    /\ pc' = "done"
    /\ UNCHANGED <<opts, status, rc, appended, childVars, watchVars, stopVars>>

\* mergeConfig runs only for -add-if-successful and status OK, and whatever it
\* does leaves the return value alone (ConfigMerge.tla models MergeBuild).
MergeConfig ==
    /\ pc = "merge"
    /\ IF opts.addIfSuccessful /\ status = "OK"
         THEN merge' \in {"merged", "skipped", "failed"}
         ELSE UNCHANGED merge
    /\ pc' = "done"
    /\ UNCHANGED <<opts, status, rc, appended, childVars, watchVars, stopVars>>

-----------------------------------------------------------------------------
(* The docker child and its container. *)

\* The pull ends and the container starts.
ContainerStarts ==
    /\ container = "pulling"
    /\ container' = "running"
    /\ UNCHANGED <<buildVars, result, pipe, printed, watchVars, stopVars>>

\* The child prints a line, pull progress included; lines go nowhere once the
\* copier has given up or the client is gone.
Output(line) ==
    /\ container \in {"pulling", "running", "stopping"}
    /\ result = Pending
    /\ printed < MaxLines
    /\ printed' = printed + 1
    /\ pipe' = IF copyErr THEN pipe ELSE Append(pipe, line)
    /\ UNCHANGED <<buildVars, container, result, watchVars, stopVars>>

\* The container ends by itself, or the pull fails.
ContainerEnds ==
    /\ container \in {"pulling", "running"}
    /\ container' = "exited"
    /\ \/ /\ result = Pending
          /\ \E code \in ExitCodes :
                /\ container = "pulling" => code # 0
                /\ result' = [code |-> code, by |-> "container"]
       \/ result # Pending /\ UNCHANGED result
    /\ UNCHANGED <<buildVars, pipe, printed, watchVars, stopVars>>

\* The container ends because docker stop reached it; one that was just
\* finishing may still end with 0.
ContainerStopped ==
    /\ container = "stopping"
    /\ container' = "exited"
    /\ \/ /\ result = Pending
          /\ \E code \in ExitCodes : result' = [code |-> code, by |-> "stop"]
       \/ result # Pending /\ UNCHANGED result
    /\ UNCHANGED <<buildVars, pipe, printed, watchVars, stopVars>>

\* The docker client dies (a signal, or SIGPIPE after a failed copy) and leaves
\* the container, if there is one, behind.
ClientDies ==
    /\ container \in {"pulling", "running", "stopping"}
    /\ result = Pending
    /\ result' = [code |-> -1, by |-> "client"]
    /\ container' = IF container = "pulling" THEN "exited" ELSE container
    /\ UNCHANGED <<buildVars, pipe, printed, watchVars, stopVars>>

-----------------------------------------------------------------------------
(* The copier goroutine, which calls lineWatcher.Write. *)

\* One line reaches the log; the first match starts the watcher goroutine,
\* and nothing waits for it.
CopyLine ==
    /\ pc = "wait"
    /\ pipe # <<>>
    /\ pipe' = Tail(pipe)
    /\ IF opts.until /\ ~fired /\ Head(pipe) = "match"
         THEN fired' = TRUE /\ stopper' = [stopper EXCEPT !["watcher"] = "call"]
         ELSE UNCHANGED <<fired, stopper>>
    /\ UNCHANGED <<buildVars, container, result, printed, copyErr, once, did, why>>

\* The write to the log fails: the copier ends and the rest of the output is lost.
CopyFails ==
    /\ pc = "wait"
    /\ pipe # <<>>
    /\ copyErr' = TRUE
    /\ pipe' = <<>>
    /\ UNCHANGED <<buildVars, container, result, printed, fired, stopVars>>

-----------------------------------------------------------------------------
(* The two goroutines of earlyStopper. *)

\* The process is up and has a child: goroutines can run.
Live == pc \in {"wait", "decide", "append", "merge"} /\ ~opts.noop

\* time.AfterFunc: the timer may fire at any moment until BuildOne returns.
TimerFires ==
    /\ Live /\ opts.timeout
    /\ stopper["timer"] = "idle"
    /\ stopper' = [stopper EXCEPT !["timer"] = "call"]
    /\ UNCHANGED <<buildVars, childVars, watchVars, once, did, why>>

\* Mutant: no sync.Once, every caller stops the container.
StopFirstNoOnce(g) ==
    /\ Live
    /\ stopper[g] = "call"
    /\ once' = "busy"
    /\ did' = TRUE /\ why' = g
    /\ stopper' = [stopper EXCEPT ![g] = "signal"]
    /\ UNCHANGED <<buildVars, childVars, watchVars>>

\* once.Do: the first caller records why and did under the mutex.
StopFirst(g) ==
    /\ Live
    /\ stopper[g] = "call" /\ once = "free"
    /\ once' = "busy"
    /\ did' = TRUE /\ why' = g
    /\ stopper' = [stopper EXCEPT ![g] = "signal"]
    /\ UNCHANGED <<buildVars, childVars, watchVars>>

\* once.Do: a later caller waits for the first to finish and does nothing.
StopAgain(g) ==
    /\ Live
    /\ stopper[g] = "call" /\ once = "done"
    /\ stopper' = [stopper EXCEPT ![g] = "done"]
    /\ UNCHANGED <<buildVars, childVars, watchVars, once, did, why>>

\* Mutant: stopper.name was never set, so docker stop finds no container.
DockerStopUnnamed(g) ==
    /\ Live
    /\ stopper[g] = "signal"
    /\ stopper' = [stopper EXCEPT ![g] = "done"]
    /\ once' = "done"
    /\ UNCHANGED <<buildVars, childVars, watchVars, did, why>>

\* docker stop reaches the container only when there is one of that name; an
\* error is logged and the stop is not tried again.
DockerStop(g) ==
    /\ Live
    /\ stopper[g] = "signal"
    /\ IF container = "running"
         THEN /\ container' = "stopping"
              /\ stopper' = [stopper EXCEPT ![g] = "waiting"]
              /\ UNCHANGED once
         ELSE /\ stopper' = [stopper EXCEPT ![g] = "done"]
              /\ once' = "done"
              /\ UNCHANGED container
    /\ UNCHANGED <<buildVars, result, pipe, printed, watchVars, did, why>>

\* docker stop returns when the container is gone.
DockerStopReturns(g) ==
    /\ Live
    /\ stopper[g] = "waiting" /\ container = "exited"
    /\ stopper' = [stopper EXCEPT ![g] = "done"]
    /\ once' = "done"
    /\ UNCHANGED <<buildVars, childVars, watchVars, did, why>>

-----------------------------------------------------------------------------
\* The process has exited; a container it left behind may still end.
Terminated == pc \in {"done", "fatal"} /\ UNCHANGED vars

Build == Prepare \/ StartDocker \/ Wait \/ Decide \/ AppendBuildStatus \/ MergeConfig
Child == \/ ContainerStarts \/ ContainerEnds \/ ContainerStopped \/ ClientDies
         \/ \E line \in Lines : Output(line)
Copier == CopyLine \/ CopyFails
StopStep(g) == StopFirst(g) \/ StopAgain(g) \/ DockerStop(g) \/ DockerStopReturns(g)

Next ==
    \/ Build \/ Child \/ Copier \/ TimerFires
    \/ \E g \in Stoppers : StopStep(g)
    \/ Terminated

Spec == Init /\ [][Next]_vars

\* The Go scheduler runs every ready goroutine, the timer's time comes, a pull
\* ends and docker stop ends the container it reached.  Nothing says that a
\* build ends by itself.
Fairness ==
    /\ WF_vars(Build)
    /\ WF_vars(Copier)
    /\ WF_vars(TimerFires)
    /\ \A g \in Stoppers : WF_vars(StopStep(g))
    /\ WF_vars(ContainerStarts)
    /\ WF_vars(ContainerStopped)

FairSpec == Spec /\ Fairness

-----------------------------------------------------------------------------
(* Properties. *)

\* A run whose container docker stop ended is reported STOPPED with rc 0, never
\* FAILED or OK: stop records did before it signals the container, so the read
\* of did after Wait cannot miss it (host.go:264-276, 184-189).
StoppedContainerReported ==
    result.by = "stop" /\ status # None => status = "STOPPED" /\ rc = 0

\* A merge into rpm-build-config.yaml is only ever tried for a build that ran to
\* its own end with exit code 0, with all of its output logged, with -c and
\* -add-if-successful, and with no early stop requested before the status was
\* decided (host.go:180-197).
MergeOnlyAfterCleanBuild ==
    merge # None =>
        /\ opts.addIfSuccessful /\ opts.configFile /\ ~opts.noop
        /\ result = [code |-> 0, by |-> "container"]
        /\ ~copyErr /\ pipe = <<>>
        /\ status = "OK" /\ rc = 0

\* The caller sees success for a real run only when it was stopped on purpose or
\* the build succeeded: a lost client, a failing container or a log that could
\* not be written always ends in a non-zero exit unless the run was stopped
\* (host.go:175-192, exitCode 365-372).
NoSilentFailure ==
    (pc = "done" /\ rc = 0 /\ ~opts.noop /\ status # "STOPPED") =>
        result.code = 0 /\ ~copyErr

\* At most one docker stop is ever issued, and the recorded reason is that of
\* the goroutine that issued it, however the timer and the watcher race
\* (host.go:264-276).
SingleStop ==
    [][\A g \in Stoppers :
          stopper[g] = "call" /\ stopper'[g] = "signal" => ~did /\ why' = g]_vars

\* Once asked to stop while its container runs, a build comes to an end even if
\* it would hang by itself and even if both goroutines ask (host.go:165-177).
StopEndsBuild ==
    (container = "running" /\ once = "free" /\ \E g \in Stoppers : stopper[g] = "call")
        ~> (pc = "done")
=============================================================================
