----------------------------- MODULE LineWatcher -----------------------------
(***************************************************************************)
(* lineWatcher.Write (src/go/host/host.go): the copier hands it the docker *)
(* child's output in chunks cut anywhere; it passes each one to the log    *)
(* and looks at the lines that are complete for the -until regexp.         *)
(*                                                                         *)
(* A byte is a newline, one that makes its line match, or another.         *)
(***************************************************************************)
EXTENDS Naturals, Sequences

CONSTANTS
    MaxChunk,   \* bound on the length of a chunk
    MaxText     \* bound on the length of the output

ASSUME ChunksAssumption == MaxChunk \in Nat /\ MaxText \in Nat

VARIABLES
    text,       \* the output that has reached the log
    buf,        \* lineWatcher.buf
    hasFired,   \* lineWatcher.fired
    calls,      \* goroutines started with onMatch
    broken      \* a write to the log failed: the copier has given up

watcherVars == <<text, buf, hasFired, calls, broken>>

Newline == "newline"
Bytes == {Newline, "match", "other"}
Chunks == UNION {[1..n -> Bytes] : n \in 1..MaxChunk}

WatcherTypeOK ==
    /\ text \in Seq(Bytes) /\ Len(text) <= MaxText
    /\ buf \in Seq(Bytes)
    /\ hasFired \in BOOLEAN
    /\ calls \in 0..1
    /\ broken \in BOOLEAN

WatcherInit == text = <<>> /\ buf = <<>> /\ hasFired = FALSE /\ calls = 0 /\ broken = FALSE

-----------------------------------------------------------------------------
\* Where the lines of b that are complete end, and what follows the last of them.
Ends(b) == {i \in 1..Len(b) : b[i] = Newline}
LastEnd(b) == IF Ends(b) = {} THEN 0 ELSE CHOOSE i \in Ends(b) : \A j \in Ends(b) : j <= i
Rest(b) == SubSeq(b, LastEnd(b) + 1, Len(b))

\* Some complete line of b matches.
Matching(b) == \E i \in 1..LastEnd(b) : b[i] = "match"

\* Mutant: a chunk is scanned without what was left of the one before.
ScanChunk(p) ==
    /\ hasFired' = Matching(p)
    /\ buf' = IF Matching(p) THEN <<>> ELSE Rest(p)
    /\ calls' = IF Matching(p) THEN calls + 1 ELSE calls

\* The loop over the complete lines of buf: the first one that matches ends it and
\* empties buf; without one, buf keeps the incomplete line.
Scan(p) ==
    LET b == buf \o p
    IN  /\ hasFired' = Matching(b)
        /\ buf' = IF Matching(b) THEN <<>> ELSE Rest(b)
        /\ calls' = IF Matching(b) THEN calls + 1 ELSE calls

\* Mutant: no look at fired.
WriteAgain(p, n) ==
    /\ ~broken
    /\ text' = text \o SubSeq(p, 1, n)
    /\ broken' = (n < Len(p))
    /\ Scan(SubSeq(p, 1, n))

\* A chunk of which the log takes n bytes; fewer than all is an error, and the
\* copier writes no more.
Write(p, n) ==
    /\ ~broken
    /\ text' = text \o SubSeq(p, 1, n)
    /\ broken' = (n < Len(p))
    /\ \/ hasFired /\ UNCHANGED <<buf, hasFired, calls>>
       \/ ~hasFired /\ Scan(SubSeq(p, 1, n))

WatcherNext == \E p \in Chunks : \E n \in 0..Len(p) : Len(text) + Len(p) <= MaxText /\ Write(p, n)

WatcherSpec == WatcherInit /\ [][WatcherNext]_watcherVars

-----------------------------------------------------------------------------
(* Properties. *)

\* However the output is cut into chunks, and even when its copy breaks off in the
\* middle of one, the stop is asked for exactly when a whole line of what reached
\* the log matches, and only once (host.go:302-325).
StopsOnFirstMatch == calls = IF Matching(text) THEN 1 ELSE 0
=============================================================================
