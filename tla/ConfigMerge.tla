----------------------------- MODULE ConfigMerge -----------------------------
(***************************************************************************)
(* MergeBuild (src/go/config/merge.go) as the file-system steps it takes:  *)
(* each `build-one -add-if-successful` process loads rpm-build-config.yaml *)
(* and looks for its entry, reads the file again and splices the entry in, *)
(* writes the result to the one fixed temporary name, validates that file, *)
(* moves the config to a timestamped backup and the temporary file to its  *)
(* place.  Other processes, the person who edits the file and crashes may  *)
(* come between any two steps.                                             *)
(*                                                                         *)
(* Files are inodes: a name can be renamed while a process still writes    *)
(* through the descriptor it opened.  The text of a file is abstracted to  *)
(* its table of entries.                                                   *)
(***************************************************************************)
EXTENDS Naturals

CONSTANTS
    Procs,      \* the merging processes; each merges one entry
    Keys,       \* the (os, label) pairs
    Builds,     \* the contents an entry can have
    NoBuild,    \* no entry
    KeyOf,      \* the entry each process merges
    BuildOf,    \* the build that process validated
    Exact,      \* merges whose -c file has that build, whole and with no other
                \* entry after it, when they read it (Exact of ConfigSplice)
    Original,   \* the inode of the file that was there first
    NoFile,     \* a name no file has
    Together,   \* sets of merges; in a history those of one set overlap
    MaxClock,   \* bound on the seconds that pass
    MaxEdits    \* bound on the edits a person makes

ASSUME NoBuildAssumption == NoBuild \notin Builds
ASSUME MapsAssumption == KeyOf \in [Procs -> Keys] /\ BuildOf \in [Procs -> Builds]
ASSUME ExactAssumption == Exact \subseteq Procs
ASSUME InodeAssumption == Original \notin Procs /\ NoFile \notin Procs \cup {Original}
ASSUME TogetherAssumption == Together \subseteq SUBSET Procs
ASSUME BoundsAssumption == MaxClock \in Nat /\ MaxEdits \in Nat

VARIABLES
    pc,         \* where each process is in MergeBuild
    config,     \* the inode named rpm-build-config.yaml
    tmp,        \* the inode named rpm-build-config.yaml.merge-tmp
    backup,     \* the inode named rpm-build-config.yaml.<second>
    content,    \* the content of each inode
    text,       \* the merged text each process is going to write
    fd,         \* the inode each process has open for writing
    stamp,      \* `now`, the time each MergeBuild was called with
    outcome,    \* what each MergeBuild returned
    clock,      \* the current second
    edits,      \* edits made so far
    together    \* the merges of a history of overlaps, {} if all take turns

files == <<config, tmp, backup, content>>
vars == <<pc, config, tmp, backup, content, text, fd, stamp, outcome, clock, edits, together>>

Times == 0..MaxClock
\* A merge creates at most one inode, so it is named after the process.
Inodes == Procs \cup {Original}
Tables == [Keys -> Builds \cup {NoBuild}]
NoEntries == [k \in Keys |-> NoBuild]

\* A file that parses has a table of entries; an empty or garbled one does not
\* parse (readYAML fails, and Load with it).
Contents == [whole: BOOLEAN, at: Tables]
Broken == [whole |-> FALSE, at |-> NoEntries]

Outcomes == {"none", "merged", "identical", "differs", "error", "crashed"}
Pcs == {"idle", "read", "open", "write", "validate", "stat", "backup",
        "install", "cleanup", "done"}

TypeOK ==
    /\ pc \in [Procs -> Pcs]
    /\ config \in Inodes \cup {NoFile}
    /\ tmp \in Inodes \cup {NoFile}
    /\ backup \in [Times -> Inodes \cup {NoFile}]
    /\ content \in [Inodes -> Contents]
    /\ text \in [Procs -> Contents]
    /\ fd \in [Procs -> Inodes \cup {NoFile}]
    /\ stamp \in [Procs -> Times]
    /\ outcome \in [Procs -> Outcomes]
    /\ clock \in Times
    /\ edits \in 0..MaxEdits
    /\ together \in Together

Init ==
    /\ pc = [p \in Procs |-> "idle"]
    /\ config = Original
    /\ tmp = NoFile
    /\ backup = [t \in Times |-> NoFile]
    /\ \E table \in Tables :
          content = [i \in Inodes |-> IF i = Original THEN [whole |-> TRUE, at |-> table]
                                                     ELSE Broken]
    /\ text = [p \in Procs |-> Broken]
    /\ fd = [p \in Procs |-> NoFile]
    /\ stamp = [p \in Procs |-> 0]
    /\ outcome = [p \in Procs |-> "none"]
    /\ clock = 0
    /\ edits = 0
    /\ together \in Together

-----------------------------------------------------------------------------
(* MergeBuild, step by step. *)

Goto(p, l) == pc' = [pc EXCEPT ![p] = l]
Return(p, o) == outcome' = [outcome EXCEPT ![p] = o]

Quiet == \A p \in Procs : pc[p] \in {"idle", "done"}

\* No merge overlaps another, or an edit.
Serial == together = {}

\* A merge begins when no other is under way, or in a history of overlaps.
MayBegin(p) == IF Serial THEN Quiet ELSE p \in together

\* The config parses.
Loads == config # NoFile /\ content[config].whole

\* checkMergeStatus of the entry as the file has it.
CheckMergeStatus(p) ==
    LET existing == content[config].at[KeyOf[p]]
    IN  CASE existing = NoBuild -> "mergeable"
          [] existing = BuildOf[p] -> "identical"
          [] OTHER -> "differs"

\* Mutant: the status is returned without looking at `mergeable`.
CheckUnconditional(p) ==
    /\ pc[p] = "idle" /\ MayBegin(p)
    /\ stamp' = [stamp EXCEPT ![p] = clock]
    /\ Loads
    /\ Goto(p, "done") /\ Return(p, CheckMergeStatus(p))
    /\ UNCHANGED <<files, text, fd, clock, edits, together>>

\* Load and checkMergeStatus; `now` is taken just before.  An OS without a
\* section in the file is an error like one that does not load.
Check(p) ==
    /\ pc[p] = "idle" /\ MayBegin(p)
    /\ stamp' = [stamp EXCEPT ![p] = clock]
    /\ \/ /\ Goto(p, "done") /\ Return(p, "error")
       \/ /\ Loads /\ CheckMergeStatus(p) # "mergeable"
          /\ Goto(p, "done") /\ Return(p, CheckMergeStatus(p))
       \/ /\ Loads /\ CheckMergeStatus(p) = "mergeable"
          /\ Goto(p, "read") /\ UNCHANGED outcome
    /\ UNCHANGED <<files, text, fd, clock, edits, together>>

\* What entryLinesFor takes from the -c file, which may have been edited since the
\* build was resolved: an entry of that label, cut short or not, and maybe others
\* that follow it.
Cuts(p) ==
    IF p \in Exact THEN {[NoEntries EXCEPT ![KeyOf[p]] = BuildOf[p]]}
                   ELSE {t \in Tables : t[KeyOf[p]] # NoBuild}

\* The table with the entries that were cut.
Joined(old, cut) == [k \in Keys |-> IF cut[k] = NoBuild THEN old[k] ELSE cut[k]]

\* Fields right below the place go over to the last entry put in: it has more than was
\* cut, and the entry they belonged to has fewer.
TakenOver(old, cut) ==
    {t \in Tables : \E j, k \in Keys :
        /\ old[j] # NoBuild /\ t[j] \in Builds \ {old[j]}
        /\ cut[k] # NoBuild /\ t[k] \in Builds \ {cut[k]}
        /\ \A i \in Keys \ {j, k} : t[i] = Joined(old, cut)[i]}

\* insertBuild: the text with those lines spliced in.  It need not parse, and does not
\* with a label twice.
Insert(p, c) ==
    {Broken} \cup
    {m \in Contents : /\ m.whole /\ c.whole
                      /\ \E cut \in Cuts(p) :
                            /\ \A k \in Keys : NoBuild \in {c.at[k], cut[k]}
                            /\ m.at \in {Joined(c.at, cut)} \cup TakenOver(c.at, cut)}

\* Read the config again and splice the entry in; any of it may fail.
Read(p) ==
    /\ pc[p] = "read"
    /\ \/ /\ Goto(p, "done") /\ Return(p, "error")
          /\ UNCHANGED text
       \/ /\ config # NoFile
          /\ \E m \in Insert(p, content[config]) : text' = [text EXCEPT ![p] = m]
          /\ Goto(p, "open") /\ UNCHANGED outcome
    /\ UNCHANGED <<files, fd, stamp, clock, edits, together>>

\* Mutant: the merged text is written over the config itself.
OpenInPlace(p) ==
    /\ pc[p] = "open" /\ config # NoFile
    /\ fd' = [fd EXCEPT ![p] = config]
    /\ content' = [content EXCEPT ![config] = Broken]
    /\ Goto(p, "write")
    /\ UNCHANGED <<config, tmp, backup, text, stamp, outcome, clock, edits, together>>

\* os.WriteFile opens the temporary name: a file already there is truncated.
OpenTmp(p) ==
    /\ pc[p] = "open"
    /\ \/ /\ tmp' = IF tmp = NoFile THEN p ELSE tmp
          /\ fd' = [fd EXCEPT ![p] = tmp']
          /\ content' = [content EXCEPT ![tmp'] = Broken]
          /\ Goto(p, "write") /\ UNCHANGED outcome
       \/ /\ Goto(p, "done") /\ Return(p, "error")
          /\ UNCHANGED <<tmp, fd, content>>
    /\ UNCHANGED <<config, backup, text, stamp, clock, edits, together>>

\* os.WriteFile writes through its descriptor: over what another writer of the
\* same inode has written since, the longer text's tail may stay.
WriteTmp(p) ==
    /\ pc[p] = "write"
    /\ \/ /\ content' = [content EXCEPT ![fd[p]] = text[p]]
          /\ Goto(p, "validate") /\ UNCHANGED outcome
       \/ /\ content[fd[p]].whole
          /\ content' = [content EXCEPT ![fd[p]] = Broken]
          /\ Goto(p, "validate") /\ UNCHANGED outcome
       \/ /\ content' = [content EXCEPT ![fd[p]] = Broken]
          /\ Goto(p, "done") /\ Return(p, "error")
    /\ UNCHANGED <<config, tmp, backup, text, fd, stamp, clock, edits, together>>

\* From here on every return also removes the temporary name.
Fail(p) == Goto(p, "cleanup") /\ Return(p, "error")

\* Mutant: only the presence of the entry is looked at.
ValidPresent(p) ==
    tmp # NoFile /\ content[tmp].whole /\ content[tmp].at[KeyOf[p]] # NoBuild

\* validateMerge accepts a file whose entry is exactly the build.
Valid(p) ==
    /\ tmp # NoFile
    /\ content[tmp].whole
    /\ content[tmp].at[KeyOf[p]] = BuildOf[p]

\* It may also fail to read its files.
Validate(p) ==
    /\ pc[p] = "validate"
    /\ \/ Valid(p) /\ Goto(p, "stat") /\ UNCHANGED outcome
       \/ Fail(p)
    /\ UNCHANGED <<files, text, fd, stamp, clock, edits, together>>

\* Mutant: the backup name is taken without a look.
StatNothing(p) ==
    /\ pc[p] = "stat"
    /\ Goto(p, "backup")
    /\ UNCHANGED <<files, text, fd, stamp, outcome, clock, edits, together>>

\* A backup name in use is refused.
StatBackup(p) ==
    /\ pc[p] = "stat"
    /\ \/ backup[stamp[p]] = NoFile /\ Goto(p, "backup") /\ UNCHANGED outcome
       \/ backup[stamp[p]] # NoFile /\ Fail(p)
    /\ UNCHANGED <<files, text, fd, stamp, clock, edits, together>>

\* Mutant: the old config is removed to make room, not renamed.
BackupRemoves(p) ==
    /\ pc[p] = "backup" /\ config # NoFile
    /\ config' = NoFile
    /\ Goto(p, "install")
    /\ UNCHANGED <<backup, tmp, content, text, fd, stamp, outcome, clock, edits, together>>

\* rename(config, backup), which replaces a file of that name; a rename may fail,
\* for want of the file or otherwise.
Backup(p) ==
    /\ pc[p] = "backup"
    /\ \/ /\ config # NoFile
          /\ backup' = [backup EXCEPT ![stamp[p]] = config]
          /\ config' = NoFile
          /\ Goto(p, "install") /\ UNCHANGED outcome
       \/ Fail(p) /\ UNCHANGED <<config, backup>>
    /\ UNCHANGED <<tmp, content, text, fd, stamp, clock, edits, together>>

\* rename(tmp, config); when it fails, the config stays under its backup's name.
Install(p) ==
    /\ pc[p] = "install"
    /\ \/ /\ tmp # NoFile
          /\ config' = tmp /\ tmp' = NoFile
          /\ Goto(p, "cleanup") /\ Return(p, "merged")
       \/ Fail(p) /\ UNCHANGED <<config, tmp>>
    /\ UNCHANGED <<backup, content, text, fd, stamp, clock, edits, together>>

\* The deferred os.Remove(tmp), by name.
Cleanup(p) ==
    /\ pc[p] = "cleanup"
    /\ tmp' = NoFile
    /\ Goto(p, "done")
    /\ UNCHANGED <<config, backup, content, text, fd, stamp, outcome, clock, edits, together>>

\* The process dies; nothing deferred runs.
Crash(p) ==
    /\ pc[p] \notin {"idle", "done"}
    /\ Goto(p, "done")
    /\ outcome' = [outcome EXCEPT ![p] = IF @ = "none" THEN "crashed" ELSE @]
    /\ UNCHANGED <<files, text, fd, stamp, clock, edits, together>>

-----------------------------------------------------------------------------
(* The world around it. *)

Tick ==
    /\ clock < MaxClock
    /\ clock' = clock + 1
    /\ UNCHANGED <<pc, files, text, fd, stamp, outcome, edits, together>>

\* The content c with another entry of k.
WithEntry(c, k, b) == [whole |-> c.whole, at |-> [c.at EXCEPT ![k] = b]]

\* A person changes, adds or removes one entry in place.
Edit ==
    /\ edits < MaxEdits
    /\ Serial => Quiet
    /\ Loads
    /\ \E k \in Keys, b \in Builds \cup {NoBuild} :
          content' = [content EXCEPT ![config] = WithEntry(@, k, b)]
    /\ edits' = edits + 1
    /\ UNCHANGED <<pc, config, tmp, backup, text, fd, stamp, outcome, clock, together>>

\* The time of the newest backup.
Newest(t) == backup[t] # NoFile /\ \A u \in Times : backup[u] # NoFile => u <= t

\* A person moves the newest backup back after a crash left no config.
Restore ==
    /\ config = NoFile /\ Quiet
    /\ \E t \in Times :
          /\ Newest(t)
          /\ config' = backup[t]
          /\ backup' = [backup EXCEPT ![t] = NoFile]
    /\ UNCHANGED <<pc, tmp, content, text, fd, stamp, outcome, clock, edits, together>>

MergeStep(p) ==
    \/ Check(p) \/ Read(p) \/ OpenTmp(p) \/ WriteTmp(p) \/ Validate(p)
    \/ StatBackup(p) \/ Backup(p) \/ Install(p) \/ Cleanup(p)

Next ==
    \/ \E p \in Procs : MergeStep(p) \/ Crash(p)
    \/ Tick \/ Edit \/ Restore

Spec == Init /\ [][Next]_vars

-----------------------------------------------------------------------------
(* Properties. *)

\* Whatever fails or dies in a merge, the file of the config's name parses: writes go
\* to the temporary name and a file is moved into place only after validateMerge has
\* read it back.  While the config is missing, because a merge died between its two
\* renames, the newest backup parses (merge.go:151-170).
ConfigRecoverable ==
    Serial => IF config # NoFile THEN content[config].whole
              ELSE \E t \in Times : Newest(t) /\ content[backup[t]].whole

\* A backup stays what it was, byte for byte, until a person moves it back: no
\* later merge reuses its name or writes to its file (merge.go:161-167).
SnapshotKept ==
    [][Serial => \A t \in Times : backup[t] # NoFile =>
          \/ backup'[t] = backup[t] /\ content'[backup[t]] = content[backup[t]]
          \/ backup'[t] = NoFile /\ config' = backup[t]]_vars

\* The table the files stand for: the config's, or the newest backup's while
\* the config is missing.
CurrentFile == IF config # NoFile THEN config ELSE backup[CHOOSE t \in Times : Newest(t)]
Store == INSTANCE ConfigStore WITH store <- content[CurrentFile].at

\* Merges that do not overlap implement the abstract store, through failures, crashes
\* and restores (merge.go:88-113).  A merge installs the entry that was built or nothing,
\* in one step, whatever was cut from the -c file and wherever it was put; it never
\* overwrites an entry, and says truly what it did.  Other entries are never lost, and do
\* not change if the -c file is Exact; otherwise some may come along or lose fields.  This
\* is Store!Spec, step by step, of the serial histories.
ImplementsStore ==
    /\ Serial => Store!Init
    /\ [][Serial => Store!Next \/ UNCHANGED Store!vars]_vars

\* Each started merge has a second of its own.
DistinctSeconds ==
    \A p, q \in Procs :
        p # q /\ pc[p] # "idle" /\ pc[q] # "idle" => stamp[p] # stamp[q]

\* Even merges that overlap never destroy the file a person wrote, as long as no
\* two begin in the same second: it still parses, under the config's name or a
\* backup's (merge.go:161-167).
OriginalKept ==
    DistinctSeconds =>
        /\ config = Original \/ \E t \in Times : backup[t] = Original
        /\ content[Original].whole
=============================================================================
