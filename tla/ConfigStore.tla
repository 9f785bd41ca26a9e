----------------------------- MODULE ConfigStore -----------------------------
(***************************************************************************)
(* What merging into rpm-build-config.yaml promises (the doc comment of    *)
(* MergeBuild, src/go/config/merge.go:88-113): a table of build entries to *)
(* which a merge adds its own entry, as it was built, in one step; and a   *)
(* truthful outcome for each merge.  That nothing else changes, it keeps   *)
(* for a -c file whose entry is cut out exactly.                           *)
(***************************************************************************)
CONSTANTS Procs, Keys, Builds, KeyOf, BuildOf, NoBuild, Exact

VARIABLES store, outcome

vars == <<store, outcome>>

Outcomes == {"merged", "identical", "differs", "error", "crashed"}

Init ==
    /\ store \in [Keys -> Builds \cup {NoBuild}]
    /\ outcome = [p \in Procs |-> "none"]

Finish(p, o) == outcome[p] = "none" /\ outcome' = [outcome EXCEPT ![p] = o]

\* The table new is old with the entry of p.
Adds(p, old, new) ==
    /\ old[KeyOf[p]] = NoBuild /\ new[KeyOf[p]] = BuildOf[p]
    /\ \A k \in Keys : old[k] # NoBuild => new[k] # NoBuild
    /\ p \in Exact => \A k \in Keys \ {KeyOf[p]} : new[k] = old[k]

\* The entry is added.
Add(p) ==
    /\ store' \in [Keys -> Builds \cup {NoBuild}]
    /\ Adds(p, store, store')
    /\ Finish(p, "merged")

\* An existing entry is never overwritten.
Skip(p) ==
    /\ store[KeyOf[p]] # NoBuild
    /\ Finish(p, IF store[KeyOf[p]] = BuildOf[p] THEN "identical" ELSE "differs")
    /\ UNCHANGED store

\* A merge that fails or dies leaves the table as it was.
GiveUp(p) == (Finish(p, "error") \/ Finish(p, "crashed")) /\ UNCHANGED store

\* A person edits the file.
Edit == \E k \in Keys, b \in Builds \cup {NoBuild} :
            store' = [store EXCEPT ![k] = b] /\ UNCHANGED outcome

Next == Edit \/ \E p \in Procs : Add(p) \/ Skip(p) \/ GiveUp(p)

Spec == Init /\ [][Next]_vars
=============================================================================
