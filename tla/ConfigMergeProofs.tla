-------------------------- MODULE ConfigMergeProofs --------------------------
(***************************************************************************)
(* What ConfigMerge promises for any number of merges, entries and         *)
(* seconds.  The argument for merges in turn: at most one is under way     *)
(* (OneAtATime); the names lead to distinct files (NamesDistinct), so what *)
(* it writes under the temporary name disturbs neither the config nor a    *)
(* backup; what it has there is the config and its entry (Progress), and   *)
(* the config is missing only after its backup became the newest one.      *)
(* For merges that overlap: only a merge of the same second could take the *)
(* name of the original's backup (OriginalSafe).                           *)
(***************************************************************************)
EXTENDS ConfigMerge, TLAPS

Busy(p) == pc[p] \notin {"idle", "done"}

-----------------------------------------------------------------------------
(* The invariant of all histories. *)

\* The person's file is never the temporary one, nor open for writing.
OriginalNotTmp ==
    /\ tmp # Original
    /\ \A p \in Procs : fd[p] # Original
    /\ \A p \in Procs : pc[p] = "write" => fd[p] # NoFile

\* The person's file has a name and parses, and no rename is about to take its name.
OriginalSafe ==
    DistinctSeconds =>
        /\ config = Original \/ \E t \in Times : backup[t] = Original
        /\ content[Original].whole
        /\ \A p \in Procs : pc[p] = "backup" => backup[stamp[p]] = NoFile
        /\ \A p \in Procs : pc[p] = "install" => config # Original

OInv == TypeOK /\ OriginalNotTmp /\ OriginalSafe

-----------------------------------------------------------------------------
(* The invariant of the histories in which merges take turns. *)

OneAtATime == \A p, q \in Procs : Busy(p) /\ Busy(q) => p = q

\* An inode has a name only once its process has opened it.
NotYetMade ==
    \A p \in Procs : pc[p] \in {"idle", "read", "open"} =>
        /\ config # p /\ tmp # p
        /\ \A t \in Times : backup[t] # p

NamesDistinct ==
    /\ tmp # NoFile => tmp # config /\ \A t \in Times : backup[t] # tmp
    /\ config # NoFile => \A t \in Times : backup[t] # config
    /\ \A t, u \in Times : backup[t] # NoFile /\ backup[t] = backup[u] => t = u

\* Backups are of the past, and of the time of the merge under way at the latest.
BackupsPast ==
    /\ \A t \in Times : backup[t] # NoFile => t <= clock
    /\ \A p \in Procs : Busy(p) =>
          stamp[p] <= clock /\ \A t \in Times : backup[t] # NoFile => t <= stamp[p]

\* Backups parse, and so does the config; when there is none, there is a newest backup.
AllWhole ==
    /\ config # NoFile => content[config].whole
    /\ config = NoFile => \E t \in Times : Newest(t)
    /\ \A t \in Times : backup[t] # NoFile => content[backup[t]].whole

\* m parses, and is c with the entry of p.
Extended(m, c, p) == m.whole /\ Store!Adds(p, c.at, m.at)

\* That is what m is, if validateMerge accepts it.
Extends(m, c, p) == m.whole /\ m.at[KeyOf[p]] = BuildOf[p] => Extended(m, c, p)

\* How far a merge has come.
ProgressOf(p) ==
    /\ pc[p] \in {"read", "open", "write", "validate", "stat", "backup"} =>
          config # NoFile /\ content[config].at[KeyOf[p]] = NoBuild
    /\ pc[p] \in {"open", "write"} => Extends(text[p], content[config], p)
    /\ pc[p] \in {"write", "validate", "stat", "backup", "install"} => tmp # NoFile
    /\ pc[p] = "write" => fd[p] = tmp
    /\ pc[p] = "validate" => Extends(content[tmp], content[config], p)
    /\ pc[p] \in {"stat", "backup"} =>
          Extended(content[tmp], content[config], p)
    /\ pc[p] = "backup" => backup[stamp[p]] = NoFile
    /\ pc[p] = "install" =>
          /\ config = NoFile /\ Newest(stamp[p])
          /\ content[backup[stamp[p]]].at[KeyOf[p]] = NoBuild
          /\ Extended(content[tmp], content[backup[stamp[p]]], p)
    /\ pc[p] \notin {"cleanup", "done"} => outcome[p] = "none"
    /\ pc[p] = "cleanup" => outcome[p] # "none"
Progress == \A p \in Procs : ProgressOf(p)

SInv == Serial => OneAtATime /\ NotYetMade /\ NamesDistinct /\ BackupsPast /\ AllWhole /\ Progress
IInv == TypeOK /\ SInv

-----------------------------------------------------------------------------
(* Types. *)

\* The initial states have the types.
LEMMA InitTyped == Init => TypeOK
<1> SUFFICES ASSUME Init PROVE TypeOK
  OBVIOUS
<1>1. NoEntries \in Tables
  BY DEF NoEntries, Tables
<1>2. Broken \in Contents
  BY <1>1 DEF Broken, Contents
<1>3. content \in [Inodes -> Contents]
  BY <1>2 DEF Init, Contents, Inodes
<1>4. 0 \in Times /\ 0 \in 0..MaxEdits
  BY BoundsAssumption DEF Times
<1>5. /\ text \in [Procs -> Contents] /\ fd \in [Procs -> Inodes \cup {NoFile}]
      /\ stamp \in [Procs -> Times] /\ backup \in [Times -> Inodes \cup {NoFile}]
  BY <1>2, <1>4 DEF Init
<1>6. pc \in [Procs -> Pcs] /\ outcome \in [Procs -> Outcomes]
  BY DEF Init, Pcs, Outcomes
<1> QED
  BY <1>3, <1>4, <1>5, <1>6 DEF Init, TypeOK, Inodes

\* What a merge or a person writes is a content.
LEMMA WithEntryTyped ==
    ASSUME NEW c \in Contents, NEW k \in Keys, NEW b \in Builds \cup {NoBuild}
    PROVE  /\ WithEntry(c, k, b) \in Contents
           /\ WithEntry(c, k, b).whole = c.whole
           /\ WithEntry(c, k, b).at = [c.at EXCEPT ![k] = b]
           /\ WithEntry(c, k, b).at[k] = b
BY DEF WithEntry, Contents, Tables

\* A text that does not parse is a content too.
LEMMA BrokenTyped == Broken \in Contents /\ ~Broken.whole
BY DEF Broken, NoEntries, Contents, Tables

\* So is the text that insertBuild returns.
LEMMA InsertTyped ==
    ASSUME NEW p \in Procs, NEW c \in Contents, NEW m \in Insert(p, c)
    PROVE  m \in Contents
BY BrokenTyped DEF Insert

\* A text with the entry as it was built has it besides what was there: an entry that
\* went in where it takes over fields has more of them than were cut.
LEMMA InsertAdds ==
    ASSUME NEW p \in Procs, NEW c \in Contents, NEW m \in Insert(p, c),
           c.at[KeyOf[p]] = NoBuild
    PROVE  Extends(m, c, p)
<1> SUFFICES ASSUME m.whole, m.at[KeyOf[p]] = BuildOf[p] PROVE Store!Adds(p, c.at, m.at)
  BY DEF Extends, Extended
<1>1. PICK cut \in Cuts(p) :
         /\ \A k \in Keys : NoBuild \in {c.at[k], cut[k]}
         /\ m.at \in {Joined(c.at, cut)} \cup TakenOver(c.at, cut)
  BY BrokenTyped DEF Insert
<1>2. KeyOf[p] \in Keys /\ BuildOf[p] \in Builds /\ c.at \in Tables
  BY MapsAssumption DEF Contents
<1>3. \A k \in Keys : c.at[k] # NoBuild => m.at[k] # NoBuild
  <2>1. CASE m.at = Joined(c.at, cut)
    BY <1>1, <2>1 DEF Joined
  <2>2. CASE m.at \in TakenOver(c.at, cut)
    <3>1. PICK j, k \in Keys :
             /\ m.at[j] \in Builds /\ m.at[k] \in Builds
             /\ \A i \in Keys \ {j, k} : m.at[i] = Joined(c.at, cut)[i]
      BY <2>2 DEF TakenOver
    <3> QED
      BY <1>1, <3>1, NoBuildAssumption DEF Joined
  <2> QED
    BY <1>1, <2>1, <2>2
<1>4. ASSUME p \in Exact, NEW k \in Keys \ {KeyOf[p]} PROVE m.at[k] = c.at[k]
  <2>1. cut = [NoEntries EXCEPT ![KeyOf[p]] = BuildOf[p]]
    BY <1>1, <1>4 DEF Cuts
  <2>2. \A i \in Keys : cut[i] = IF i = KeyOf[p] THEN BuildOf[p] ELSE NoBuild
    BY <2>1 DEF NoEntries
  <2>3. m.at \notin TakenOver(c.at, cut)
    <3> SUFFICES ASSUME m.at \in TakenOver(c.at, cut) PROVE FALSE
      OBVIOUS
    <3>1. PICK i \in Keys : cut[i] # NoBuild /\ m.at[i] # cut[i]
      BY DEF TakenOver
    <3> QED
      BY <2>2, <3>1
  <2> QED
    BY <1>1, <2>2, <2>3 DEF Joined
<1> QED
  BY <1>3, <1>4 DEF Store!Adds

\* checkMergeStatus tells the three cases apart.
LEMMA StatusFacts ==
    ASSUME NEW p \in Procs
    PROVE  /\ CheckMergeStatus(p) \in {"mergeable", "identical", "differs"}
           /\ CheckMergeStatus(p) = "mergeable" => content[config].at[KeyOf[p]] = NoBuild
           /\ CheckMergeStatus(p) # "mergeable" =>
                 /\ content[config].at[KeyOf[p]] # NoBuild
                 /\ CheckMergeStatus(p) = IF content[config].at[KeyOf[p]] = BuildOf[p]
                                          THEN "identical" ELSE "differs"
<1>1. CASE content[config].at[KeyOf[p]] = NoBuild
  <2>1. CheckMergeStatus(p) = "mergeable"
    BY <1>1, MapsAssumption, NoBuildAssumption DEF CheckMergeStatus
  <2> QED
    BY <1>1, <2>1
<1>2. CASE content[config].at[KeyOf[p]] # NoBuild /\ content[config].at[KeyOf[p]] = BuildOf[p]
  <2>1. CheckMergeStatus(p) = "identical"
    BY <1>2 DEF CheckMergeStatus
  <2> QED
    BY <1>2, <2>1
<1>3. CASE content[config].at[KeyOf[p]] \notin {NoBuild, BuildOf[p]}
  <2>1. CheckMergeStatus(p) = "differs"
    BY <1>3 DEF CheckMergeStatus
  <2> QED
    BY <1>3, <2>1
<1> QED
  BY <1>1, <1>2, <1>3

\* Every step keeps the types.
LEMMA TypeStep == TypeOK /\ [Next]_vars => TypeOK'
<1> SUFFICES ASSUME TypeOK, [Next]_vars PROVE TypeOK'
  OBVIOUS
<1> USE DEF TypeOK, Pcs, Outcomes
<1>1. ASSUME NEW p \in Procs, Check(p) PROVE TypeOK'
  BY <1>1, StatusFacts DEF Check, Goto, Return, files
<1>2. ASSUME NEW p \in Procs, Read(p) PROVE TypeOK'
  <2>1. CASE UNCHANGED text
    BY <1>2, <2>1 DEF Read, Goto, Return, files
  <2>2. ASSUME config # NoFile, NEW m \in Insert(p, content[config]), text' = [text EXCEPT ![p] = m]
        PROVE  text' \in [Procs -> Contents]
    <3>1. content[config] \in Contents
      BY <2>2
    <3> QED
      BY <2>2, <3>1, InsertTyped
  <2> QED
    BY <1>2, <2>1, <2>2 DEF Read, Goto, Return, files
<1>3. ASSUME NEW p \in Procs, OpenTmp(p) PROVE TypeOK'
  BY <1>3, BrokenTyped DEF OpenTmp, Goto, Return, Inodes
<1>4. ASSUME NEW p \in Procs, WriteTmp(p) PROVE TypeOK'
  BY <1>4, BrokenTyped DEF WriteTmp, Goto, Return
<1>5. ASSUME NEW p \in Procs, Validate(p) PROVE TypeOK'
  BY <1>5 DEF Validate, Fail, Goto, Return, files
<1>6. ASSUME NEW p \in Procs, StatBackup(p) PROVE TypeOK'
  BY <1>6 DEF StatBackup, Fail, Goto, Return, files
<1>7. ASSUME NEW p \in Procs, Backup(p) PROVE TypeOK'
  BY <1>7 DEF Backup, Fail, Goto, Return
<1>8. ASSUME NEW p \in Procs, Install(p) PROVE TypeOK'
  BY <1>8 DEF Install, Fail, Goto, Return
<1>9. ASSUME NEW p \in Procs, Cleanup(p) PROVE TypeOK'
  BY <1>9 DEF Cleanup, Goto
<1>10. ASSUME NEW p \in Procs, Crash(p) PROVE TypeOK'
  BY <1>10 DEF Crash, Goto, files
<1>11. CASE Tick
  BY <1>11, BoundsAssumption DEF Tick, files, Times
<1>12. CASE Edit
  <2>1. content' \in [Inodes -> Contents]
    <3>1. PICK k \in Keys, b \in Builds \cup {NoBuild} :
             content' = [content EXCEPT ![config] = WithEntry(@, k, b)]
      BY <1>12 DEF Edit
    <3>2. content[config] \in Contents
      BY <1>12 DEF Edit, Loads
    <3> QED
      BY <3>1, <3>2, WithEntryTyped
  <2> QED
    BY <1>12, <2>1, BoundsAssumption DEF Edit
<1>13. CASE Restore
  BY <1>13 DEF Restore
<1>14. CASE UNCHANGED vars
  BY <1>14 DEF vars, files
<1> QED
  BY <1>1, <1>2, <1>3, <1>4, <1>5, <1>6, <1>7, <1>8, <1>9, <1>10, <1>11, <1>12, <1>13, <1>14
     DEF Next, MergeStep

\* In every history the files and the merges keep their types: TypeOK.
THEOREM TypeCorrect == Spec => []TypeOK
BY InitTyped, TypeStep, PTL DEF Spec

-----------------------------------------------------------------------------
(* Merges that take turns. *)

Parts == OneAtATime /\ NotYetMade /\ NamesDistinct /\ BackupsPast /\ AllWhole /\ Progress

\* The initial states satisfy the invariant of merges in turn.
LEMMA InitSerial == Init => SInv
<1> SUFFICES ASSUME Init PROVE Parts
  BY DEF SInv, Parts
<1>1. \A p \in Procs : ~Busy(p) /\ Original # p
  BY InodeAssumption DEF Init, Busy
<1>2. OneAtATime /\ NotYetMade /\ NamesDistinct /\ BackupsPast
  BY <1>1, InodeAssumption DEF Init, OneAtATime, NotYetMade, NamesDistinct, BackupsPast
<1>3. AllWhole
  BY InodeAssumption DEF Init, AllWhole, Inodes
<1>4. Progress
  BY DEF Init, Progress, ProgressOf
<1> QED
  BY <1>2, <1>3, <1>4 DEF Parts

\* While p is under way the others rest, and a step of p leaves them where they are.
LEMMA OthersRest ==
    ASSUME TypeOK, OneAtATime, Progress, NEW p \in Procs, Busy(p),
           pc' = [pc EXCEPT ![p] = pc'[p]], outcome' = [outcome EXCEPT ![p] = outcome'[p]]
    PROVE  /\ OneAtATime'
           /\ \A q \in Procs \ {p} : ~Busy(q) /\ ~Busy(q)' /\ ProgressOf(q)'
<1>1. \A q \in Procs \ {p} : pc'[q] = pc[q] /\ outcome'[q] = outcome[q] /\ ~Busy(q)
  BY DEF TypeOK, OneAtATime
<1>2. \A q \in Procs \ {p} : ~Busy(q)'
  BY <1>1 DEF Busy
<1>3. OneAtATime'
  BY <1>2 DEF OneAtATime
<1>4. ASSUME NEW q \in Procs \ {p} PROVE ProgressOf(q)'
  BY <1>1, <1>4 DEF Busy, Progress, ProgressOf
<1> QED
  BY <1>1, <1>2, <1>3, <1>4

\* A write to a file that is neither the config nor a backup disturbs neither.
LEMMA OtherFile ==
    ASSUME TypeOK, AllWhole, NEW i \in Inodes, i # config, \A t \in Times : backup[t] # i,
           NEW c, content' = [content EXCEPT ![i] = c], UNCHANGED <<config, backup>>
    PROVE  AllWhole' /\ (config # NoFile => content'[config] = content[config])
<1>1. \A j \in Inodes : j # i => content'[j] = content[j]
  BY DEF TypeOK
<1>2. config # NoFile => content'[config] = content[config]
  BY <1>1 DEF TypeOK
<1>3. \A t \in Times : backup[t] # NoFile => content'[backup[t]] = content[backup[t]]
  BY <1>1 DEF TypeOK
<1>4. \A t \in Times : Newest(t) => Newest(t)'
  BY DEF Newest
<1> QED
  BY <1>2, <1>3, <1>4 DEF AllWhole

\* Every step keeps it: under each action stand the parts it can disturb.
LEMMA SerialStep == TypeOK /\ SInv /\ [Next]_vars => SInv'
<1> SUFFICES ASSUME TypeOK, SInv, [Next]_vars, Serial' PROVE Parts'
  BY DEF SInv, Parts
<1>1. Serial
  BY DEF Serial, Next, MergeStep, vars, files, Check, Read, OpenTmp, WriteTmp, Validate,
         StatBackup, Backup, Install, Cleanup, Crash, Tick, Edit, Restore
<1>2. OneAtATime /\ NotYetMade /\ NamesDistinct /\ BackupsPast /\ AllWhole /\ Progress /\ TypeOK'
  BY <1>1, TypeStep DEF SInv
<1> USE <1>2 DEF Busy, Goto, Return, files
<1>3. ASSUME NEW p \in Procs, Check(p) PROVE Parts'
  <2>1. Quiet
    BY <1>1, <1>3 DEF Check, MayBegin
  <2>2. OneAtATime'
    BY <1>3, <2>1 DEF Check, TypeOK, OneAtATime, Quiet
  <2>3. NotYetMade'
    BY <1>3 DEF Check, TypeOK, NotYetMade
  <2>4. NamesDistinct'
    BY <1>3 DEF Check, NamesDistinct
  <2>5. BackupsPast'
    BY <1>3, <2>1 DEF Check, TypeOK, BackupsPast, Quiet, Times
  <2>6. AllWhole'
    BY <1>3 DEF Check, AllWhole, Newest
  <2>7. Progress'
    BY <1>3, <2>1, StatusFacts DEF Check, Loads, TypeOK, Progress, ProgressOf, Quiet
  <2> QED
    BY <2>2, <2>3, <2>4, <2>5, <2>6, <2>7 DEF Parts
<1>4. ASSUME NEW p \in Procs, Read(p) PROVE Parts'
  <2>1. Busy(p) /\ pc' = [pc EXCEPT ![p] = pc'[p]] /\ outcome' = [outcome EXCEPT ![p] = outcome'[p]]
    BY <1>4 DEF Read, TypeOK
  <2>2. OneAtATime' /\ \A q \in Procs \ {p} : ~Busy(q) /\ ~Busy(q)' /\ ProgressOf(q)'
    BY <2>1, OthersRest
  <2>3. NotYetMade'
    BY <1>4 DEF Read, TypeOK, NotYetMade
  <2>4. NamesDistinct'
    BY <1>4 DEF Read, TypeOK, NamesDistinct
  <2>5. BackupsPast'
    BY <1>4 DEF Read, TypeOK, BackupsPast
  <2>6. AllWhole'
    BY <1>4 DEF Read, TypeOK, AllWhole, Newest
  <2>7. ProgressOf(p)'
    <3>1. config # NoFile /\ content[config].at[KeyOf[p]] = NoBuild /\ outcome[p] = "none"
      BY <1>4 DEF Read, Progress, ProgressOf
    <3>2. CASE Goto(p, "done")
      BY <3>2 DEF TypeOK, ProgressOf
    <3>3. ASSUME NEW m \in Insert(p, content[config]), text' = [text EXCEPT ![p] = m],
                 Goto(p, "open"), UNCHANGED outcome
          PROVE  ProgressOf(p)'
      <4>1. text'[p] = m /\ pc'[p] = "open" /\ content[config] \in Contents
        BY <3>1, <3>3 DEF TypeOK
      <4>2. Extends(text'[p], content[config], p)
        BY <3>1, <4>1, InsertAdds
      <4>3. UNCHANGED <<config, content, fd, tmp, backup, stamp>>
        BY <1>4 DEF Read
      <4> QED
        BY <3>1, <3>3, <4>1, <4>2, <4>3 DEF ProgressOf, Extends, Extended
    <3> QED
      BY <1>4, <3>2, <3>3 DEF Read
  <2> QED
    BY <2>2, <2>3, <2>4, <2>5, <2>6, <2>7 DEF Progress, Parts
<1>5. ASSUME NEW p \in Procs, OpenTmp(p) PROVE Parts'
  <2>1. Busy(p) /\ pc' = [pc EXCEPT ![p] = pc'[p]] /\ outcome' = [outcome EXCEPT ![p] = outcome'[p]]
    BY <1>5 DEF OpenTmp, TypeOK
  <2>2. OneAtATime' /\ \A q \in Procs \ {p} : ~Busy(q) /\ ~Busy(q)' /\ ProgressOf(q)'
    BY <2>1, OthersRest
  <2>3. NotYetMade'
    BY <1>5 DEF OpenTmp, TypeOK, NotYetMade
  <2>4. NamesDistinct'
    <3>1. pc[p] = "open" /\ config # NoFile
      BY <1>5 DEF OpenTmp, Progress, ProgressOf
    <3> QED
      BY <1>5, <3>1, InodeAssumption DEF OpenTmp, TypeOK, NamesDistinct, NotYetMade
  <2>5. BackupsPast'
    BY <1>5 DEF OpenTmp, TypeOK, BackupsPast
  <2>a. config # NoFile /\ content[config].at[KeyOf[p]] = NoBuild
        /\ Extends(text[p], content[config], p) /\ outcome[p] = "none" /\ pc[p] = "open"
    BY <1>5 DEF OpenTmp, Progress, ProgressOf
  <2>b. ASSUME UNCHANGED <<tmp, fd, content>>, Goto(p, "done")
        PROVE  AllWhole' /\ ProgressOf(p)'
    <3>1. AllWhole'
      BY <1>5, <2>b DEF OpenTmp, AllWhole, Newest
    <3>2. ProgressOf(p)'
      BY <2>b DEF TypeOK, ProgressOf
    <3> QED
      BY <3>1, <3>2
  <2>c. ASSUME tmp' = IF tmp = NoFile THEN p ELSE tmp, fd' = [fd EXCEPT ![p] = tmp'],
               content' = [content EXCEPT ![tmp'] = Broken], Goto(p, "write"), UNCHANGED outcome
        PROVE  AllWhole' /\ ProgressOf(p)'
    <3>1. tmp' \in Inodes /\ tmp' # NoFile /\ tmp' # config /\ \A t \in Times : backup[t] # tmp'
      BY <2>a, <2>c, InodeAssumption DEF TypeOK, NotYetMade, NamesDistinct, Inodes
    <3>2. AllWhole' /\ content'[config] = content[config]
      BY <1>5, <2>a, <2>c, <3>1, OtherFile DEF OpenTmp
    <3>3. pc'[p] = "write" /\ fd'[p] = tmp'
      BY <2>c DEF TypeOK
    <3>4. ProgressOf(p)'
      BY <1>5, <2>a, <2>c, <3>1, <3>2, <3>3 DEF OpenTmp, ProgressOf, Extends, Extended
    <3> QED
      BY <3>2, <3>4
  <2>6. AllWhole' /\ ProgressOf(p)'
    BY <1>5, <2>b, <2>c DEF OpenTmp
  <2> QED
    BY <2>2, <2>3, <2>4, <2>5, <2>6 DEF Progress, Parts
<1>6. ASSUME NEW p \in Procs, WriteTmp(p) PROVE Parts'
  <2>1. Busy(p) /\ pc' = [pc EXCEPT ![p] = pc'[p]] /\ outcome' = [outcome EXCEPT ![p] = outcome'[p]]
    BY <1>6 DEF WriteTmp, TypeOK
  <2>2. OneAtATime' /\ \A q \in Procs \ {p} : ~Busy(q) /\ ~Busy(q)' /\ ProgressOf(q)'
    BY <2>1, OthersRest
  <2>3. NotYetMade'
    BY <1>6 DEF WriteTmp, TypeOK, NotYetMade
  <2>4. NamesDistinct'
    BY <1>6 DEF WriteTmp, TypeOK, NamesDistinct
  <2>5. BackupsPast'
    BY <1>6 DEF WriteTmp, TypeOK, BackupsPast
  <2>a. config # NoFile /\ content[config].at[KeyOf[p]] = NoBuild /\ fd[p] = tmp /\ tmp # NoFile
        /\ Extends(text[p], content[config], p) /\ outcome[p] = "none" /\ pc[p] = "write"
    BY <1>6 DEF WriteTmp, Progress, ProgressOf
  <2>b. tmp \in Inodes /\ tmp # config /\ \A t \in Times : backup[t] # tmp
    BY <2>a DEF TypeOK, NamesDistinct
  <2>c. PICK c \in {text[p], Broken} : content' = [content EXCEPT ![tmp] = c]
    BY <1>6, <2>a DEF WriteTmp
  <2>6. AllWhole' /\ content'[config] = content[config]
    BY <1>6, <2>a, <2>b, <2>c, OtherFile DEF WriteTmp
  <2>7. ProgressOf(p)'
    <3>1. content'[tmp] = c /\ (~c.whole \/ c = text[p])
      BY <2>b, <2>c, BrokenTyped DEF TypeOK
    <3>2. Extends(content'[tmp], content[config], p)
      BY <2>a, <3>1 DEF Extends, Extended
    <3>3. \/ pc'[p] = "validate" /\ UNCHANGED outcome
          \/ pc'[p] = "done"
      BY <1>6 DEF WriteTmp, TypeOK
    <3> QED
      BY <1>6, <2>a, <2>6, <3>2, <3>3 DEF WriteTmp, ProgressOf, Extends, Extended
  <2> QED
    BY <2>2, <2>3, <2>4, <2>5, <2>6, <2>7 DEF Progress, Parts
<1>7. ASSUME NEW p \in Procs, Validate(p) PROVE Parts'
  <2>1. Busy(p) /\ pc' = [pc EXCEPT ![p] = pc'[p]] /\ outcome' = [outcome EXCEPT ![p] = outcome'[p]]
    BY <1>7 DEF Validate, Fail, TypeOK
  <2>2. OneAtATime' /\ \A q \in Procs \ {p} : ~Busy(q) /\ ~Busy(q)' /\ ProgressOf(q)'
    BY <2>1, OthersRest
  <2>3. NotYetMade'
    BY <1>7 DEF Validate, Fail, TypeOK, NotYetMade
  <2>4. NamesDistinct'
    BY <1>7 DEF Validate, Fail, TypeOK, NamesDistinct
  <2>5. BackupsPast'
    BY <1>7 DEF Validate, Fail, TypeOK, BackupsPast
  <2>6. AllWhole'
    BY <1>7 DEF Validate, Fail, TypeOK, AllWhole, Newest
  <2>7. ProgressOf(p)'
    <3>1. CASE Fail(p)
      BY <1>7, <3>1 DEF Validate, Fail, TypeOK, ProgressOf
    <3>2. CASE Valid(p) /\ Goto(p, "stat") /\ UNCHANGED outcome
      <4>1. config # NoFile /\ content[config].at[KeyOf[p]] = NoBuild /\ tmp # NoFile
            /\ Extends(content[tmp], content[config], p) /\ outcome[p] = "none"
        BY <1>7 DEF Validate, Progress, ProgressOf
      <4>2. Extended(content[tmp], content[config], p) /\ pc'[p] = "stat"
        BY <3>2, <4>1 DEF Valid, Extends, TypeOK
      <4> QED
        BY <1>7, <3>2, <4>1, <4>2 DEF Validate, ProgressOf, Extended
    <3> QED
      BY <1>7, <3>1, <3>2 DEF Validate
  <2> QED
    BY <2>2, <2>3, <2>4, <2>5, <2>6, <2>7 DEF Progress, Parts
<1>8. ASSUME NEW p \in Procs, StatBackup(p) PROVE Parts'
  <2>1. Busy(p) /\ pc' = [pc EXCEPT ![p] = pc'[p]] /\ outcome' = [outcome EXCEPT ![p] = outcome'[p]]
    BY <1>8 DEF StatBackup, Fail, TypeOK
  <2>2. OneAtATime' /\ \A q \in Procs \ {p} : ~Busy(q) /\ ~Busy(q)' /\ ProgressOf(q)'
    BY <2>1, OthersRest
  <2>3. NotYetMade'
    BY <1>8 DEF StatBackup, Fail, TypeOK, NotYetMade
  <2>4. NamesDistinct'
    BY <1>8 DEF StatBackup, Fail, TypeOK, NamesDistinct
  <2>5. BackupsPast'
    BY <1>8 DEF StatBackup, Fail, TypeOK, BackupsPast
  <2>6. AllWhole'
    BY <1>8 DEF StatBackup, Fail, TypeOK, AllWhole, Newest
  <2>7. ProgressOf(p)'
    BY <1>8 DEF StatBackup, Fail, TypeOK, Progress, ProgressOf
  <2> QED
    BY <2>2, <2>3, <2>4, <2>5, <2>6, <2>7 DEF Progress, Parts
<1>9. ASSUME NEW p \in Procs, Backup(p) PROVE Parts'
  <2>1. Busy(p) /\ pc' = [pc EXCEPT ![p] = pc'[p]] /\ outcome' = [outcome EXCEPT ![p] = outcome'[p]]
    BY <1>9 DEF Backup, Fail, TypeOK
  <2>2. OneAtATime' /\ \A q \in Procs \ {p} : ~Busy(q) /\ ~Busy(q)' /\ ProgressOf(q)'
    BY <2>1, OthersRest
  <2>a. config # NoFile /\ content[config].at[KeyOf[p]] = NoBuild /\ tmp # NoFile
        /\ Extended(content[tmp], content[config], p)
        /\ backup[stamp[p]] = NoFile /\ outcome[p] = "none" /\ pc[p] = "backup"
    BY <1>9 DEF Backup, Progress, ProgressOf
  <2>b. stamp[p] \in Times /\ stamp[p] <= clock
        /\ \A t \in Times : t \in Nat /\ (backup[t] # NoFile => t <= stamp[p])
    BY <2>1 DEF BackupsPast, TypeOK, Times
  <2>c. ASSUME Fail(p), UNCHANGED <<config, backup>>
        PROVE  NotYetMade' /\ BackupsPast' /\ AllWhole' /\ ProgressOf(p)'
    <3>1. NotYetMade'
      BY <1>9, <2>c DEF Backup, Fail, TypeOK, NotYetMade
    <3>2. BackupsPast'
      BY <1>9, <2>c DEF Backup, Fail, TypeOK, BackupsPast
    <3>3. AllWhole'
      BY <1>9, <2>c DEF Backup, AllWhole, Newest
    <3>4. ProgressOf(p)'
      BY <1>9, <2>c DEF Backup, Fail, TypeOK, ProgressOf
    <3> QED
      BY <3>1, <3>2, <3>3, <3>4
  <2>d. ASSUME backup' = [backup EXCEPT ![stamp[p]] = config], config' = NoFile,
               Goto(p, "install"), UNCHANGED outcome
        PROVE  NotYetMade' /\ BackupsPast' /\ AllWhole' /\ ProgressOf(p)'
    <3>1. backup'[stamp[p]] = config /\ \A t \in Times : t # stamp[p] => backup'[t] = backup[t]
      BY <2>b, <2>d DEF TypeOK
    <3>2. NotYetMade'
      BY <1>9, <2>d, <3>1, InodeAssumption DEF Backup, TypeOK, NotYetMade
    <3>3. \A t \in Times : backup'[t] # NoFile => t <= stamp[p]
      BY <2>b, <3>1
    <3>4. BackupsPast'
      <4>1. \A t \in Times : backup'[t] # NoFile => t <= clock
        BY <2>b, <3>3 DEF TypeOK, Times
      <4>2. \A q \in Procs : Busy(q)' => q = p
        BY <2>2
      <4> QED
        BY <1>9, <2>b, <3>3, <4>1, <4>2 DEF Backup, BackupsPast
    <3>5. Newest(stamp[p])'
      BY <1>9, <2>a, <2>b, <3>1, <3>3 DEF Backup, Newest
    <3>6. AllWhole'
      BY <1>9, <2>a, <2>b, <2>d, <3>1, <3>5 DEF Backup, AllWhole
    <3>7. ProgressOf(p)'
      BY <1>9, <2>a, <2>d, <3>1, <3>5 DEF Backup, TypeOK, ProgressOf
    <3> QED
      BY <3>2, <3>4, <3>6, <3>7
  <2>3. NotYetMade' /\ BackupsPast' /\ AllWhole' /\ ProgressOf(p)'
    BY <1>9, <2>c, <2>d DEF Backup
  <2>4. NamesDistinct'
    BY <1>9 DEF Backup, Fail, TypeOK, NamesDistinct
  <2> QED
    BY <2>2, <2>3, <2>4 DEF Progress, Parts
<1>10. ASSUME NEW p \in Procs, Install(p) PROVE Parts'
  <2>1. Busy(p) /\ pc' = [pc EXCEPT ![p] = pc'[p]] /\ outcome' = [outcome EXCEPT ![p] = outcome'[p]]
    BY <1>10 DEF Install, Fail, TypeOK
  <2>2. OneAtATime' /\ \A q \in Procs \ {p} : ~Busy(q) /\ ~Busy(q)' /\ ProgressOf(q)'
    BY <2>1, OthersRest
  <2>a. pc[p] = "install" /\ tmp # NoFile /\ config = NoFile /\ Newest(stamp[p])
        /\ Extended(content[tmp], content[backup[stamp[p]]], p)
    BY <1>10 DEF Install, Progress, ProgressOf
  <2>b. content[tmp].whole
    BY <2>a DEF Extended
  <2>3. NotYetMade'
    BY <1>10, <2>a, InodeAssumption DEF Install, Fail, TypeOK, NotYetMade
  <2>4. NamesDistinct'
    BY <1>10 DEF Install, Fail, TypeOK, NamesDistinct
  <2>5. BackupsPast'
    BY <1>10 DEF Install, Fail, TypeOK, BackupsPast
  <2>6. AllWhole'
    BY <1>10, <2>b DEF Install, AllWhole, Newest
  <2>7. ProgressOf(p)'
    BY <1>10 DEF Install, Fail, TypeOK, Progress, ProgressOf
  <2> QED
    BY <2>2, <2>3, <2>4, <2>5, <2>6, <2>7 DEF Progress, Parts
<1>11. ASSUME NEW p \in Procs, Cleanup(p) PROVE Parts'
  <2>1. Busy(p) /\ pc' = [pc EXCEPT ![p] = pc'[p]] /\ outcome' = [outcome EXCEPT ![p] = outcome'[p]]
    BY <1>11 DEF Cleanup, TypeOK
  <2>2. OneAtATime' /\ \A q \in Procs \ {p} : ~Busy(q) /\ ~Busy(q)' /\ ProgressOf(q)'
    BY <2>1, OthersRest
  <2>3. NotYetMade'
    BY <1>11, InodeAssumption DEF Cleanup, TypeOK, NotYetMade
  <2>4. NamesDistinct'
    BY <1>11 DEF Cleanup, TypeOK, NamesDistinct
  <2>5. BackupsPast'
    BY <1>11 DEF Cleanup, TypeOK, BackupsPast
  <2>6. AllWhole'
    BY <1>11 DEF Cleanup, TypeOK, AllWhole, Newest
  <2>7. ProgressOf(p)'
    BY <1>11 DEF Cleanup, TypeOK, Progress, ProgressOf
  <2> QED
    BY <2>2, <2>3, <2>4, <2>5, <2>6, <2>7 DEF Progress, Parts
<1>12. ASSUME NEW p \in Procs, Crash(p) PROVE Parts'
  <2>1. Busy(p) /\ pc' = [pc EXCEPT ![p] = pc'[p]] /\ outcome' = [outcome EXCEPT ![p] = outcome'[p]]
    BY <1>12 DEF Crash, TypeOK
  <2>2. OneAtATime' /\ \A q \in Procs \ {p} : ~Busy(q) /\ ~Busy(q)' /\ ProgressOf(q)'
    BY <2>1, OthersRest
  <2>3. NotYetMade'
    BY <1>12 DEF Crash, TypeOK, NotYetMade
  <2>4. NamesDistinct'
    BY <1>12 DEF Crash, TypeOK, NamesDistinct
  <2>5. BackupsPast'
    BY <1>12 DEF Crash, TypeOK, BackupsPast
  <2>6. AllWhole'
    BY <1>12 DEF Crash, TypeOK, AllWhole, Newest
  <2>7. ProgressOf(p)'
    BY <1>12 DEF Crash, TypeOK, Progress, ProgressOf
  <2> QED
    BY <2>2, <2>3, <2>4, <2>5, <2>6, <2>7 DEF Progress, Parts
<1>13. CASE Tick
  <2>2. OneAtATime'
    BY <1>13 DEF Tick, OneAtATime
  <2>3. NotYetMade'
    BY <1>13 DEF Tick, TypeOK, NotYetMade
  <2>4. NamesDistinct'
    BY <1>13 DEF Tick, TypeOK, NamesDistinct
  <2>5. BackupsPast'
    BY <1>13 DEF Tick, TypeOK, BackupsPast, Times
  <2>6. AllWhole'
    BY <1>13 DEF Tick, TypeOK, AllWhole, Newest
  <2>7. Progress'
    BY <1>13 DEF Tick, TypeOK, Progress, ProgressOf, Newest, Extends, Extended
  <2> QED
    BY <2>2, <2>3, <2>4, <2>5, <2>6, <2>7 DEF Parts
<1>14. CASE Edit
  <2>2. OneAtATime'
    BY <1>14 DEF Edit, OneAtATime
  <2>3. NotYetMade'
    BY <1>14 DEF Edit, TypeOK, NotYetMade
  <2>4. NamesDistinct'
    BY <1>14 DEF Edit, TypeOK, NamesDistinct
  <2>5. BackupsPast'
    BY <1>14 DEF Edit, TypeOK, BackupsPast, Times
  <2>a. Quiet /\ config # NoFile /\ content[config].whole
    BY <1>1, <1>14 DEF Edit, Loads
  <2>b. config \in Inodes /\ content[config] \in Contents
    BY <2>a DEF TypeOK
  <2>c. PICK k \in Keys, b \in Builds \cup {NoBuild} :
           content' = [content EXCEPT ![config] = WithEntry(@, k, b)]
    BY <1>14 DEF Edit
  <2>d. content'[config].whole /\ \A i \in Inodes : i # config => content'[i] = content[i]
    BY <2>a, <2>b, <2>c, WithEntryTyped DEF TypeOK
  <2>e. \A t \in Times : backup[t] # NoFile => content'[backup[t]] = content[backup[t]]
    BY <2>a, <2>d DEF NamesDistinct, TypeOK
  <2>6. AllWhole'
    BY <1>14, <2>a, <2>d, <2>e DEF Edit, AllWhole, Newest
  <2>7. Progress'
    BY <1>14, <2>a DEF Edit, Quiet, Progress, ProgressOf
  <2> QED
    BY <2>2, <2>3, <2>4, <2>5, <2>6, <2>7 DEF Parts
<1>15. CASE Restore
  <2>2. OneAtATime'
    BY <1>15 DEF Restore, OneAtATime
  <2>3. NotYetMade'
    BY <1>15 DEF Restore, TypeOK, NotYetMade
  <2>4. NamesDistinct'
    BY <1>15 DEF Restore, TypeOK, NamesDistinct
  <2>5. BackupsPast'
    BY <1>15 DEF Restore, TypeOK, BackupsPast, Times
  <2>6. AllWhole'
    BY <1>15 DEF Restore, TypeOK, AllWhole, Newest
  <2>7. Progress'
    BY <1>15 DEF Restore, Quiet, Progress, ProgressOf
  <2> QED
    BY <2>2, <2>3, <2>4, <2>5, <2>6, <2>7 DEF Parts
<1>16. CASE UNCHANGED vars
  <2>2. OneAtATime'
    BY <1>16 DEF vars, OneAtATime
  <2>3. NotYetMade'
    BY <1>16 DEF vars, TypeOK, NotYetMade
  <2>4. NamesDistinct'
    BY <1>16 DEF vars, TypeOK, NamesDistinct
  <2>5. BackupsPast'
    BY <1>16 DEF vars, TypeOK, BackupsPast, Times
  <2>6. AllWhole'
    BY <1>16 DEF vars, TypeOK, AllWhole, Newest
  <2>7. Progress'
    BY <1>16 DEF vars, TypeOK, Progress, ProgressOf, Newest, Extends, Extended
  <2> QED
    BY <2>2, <2>3, <2>4, <2>5, <2>6, <2>7 DEF Parts
<1> QED
  BY <1>3, <1>4, <1>5, <1>6, <1>7, <1>8, <1>9, <1>10, <1>11, <1>12, <1>13, <1>14, <1>15, <1>16 DEF Next, MergeStep

\* The inductive invariant holds in every reachable state, for merges in turn.
THEOREM Invariance == Spec => []IInv
<1>1. Init => IInv
  BY InitTyped, InitSerial DEF IInv
<1>2. IInv /\ [Next]_vars => IInv'
  BY TypeStep, SerialStep DEF IInv
<1> QED
  BY <1>1, <1>2, PTL DEF Spec

\* With merges in turn the config parses at every moment, or is missing and the newest
\* backup parses: ConfigRecoverable (merge.go:151-170).
THEOREM ConfigIsRecoverable == Spec => []ConfigRecoverable
<1>1. IInv => ConfigRecoverable
  BY DEF IInv, SInv, AllWhole, ConfigRecoverable, Newest
<1> QED
  BY <1>1, Invariance, PTL

\* With merges in turn a backup stays what it was until a person moves it back: SnapshotKept
\* (merge.go:161-167).
THEOREM SnapshotsAreKept == Spec => SnapshotKept
<1> DEFINE Kept == Serial => \A t \in Times : backup[t] # NoFile =>
                      \/ backup'[t] = backup[t] /\ content'[backup[t]] = content[backup[t]]
                      \/ backup'[t] = NoFile /\ config' = backup[t]
<1>1. IInv /\ [Next]_vars => [Kept]_vars
  <2> SUFFICES ASSUME IInv, Next, Serial, NEW t \in Times, backup[t] # NoFile
               PROVE  \/ backup'[t] = backup[t] /\ content'[backup[t]] = content[backup[t]]
                      \/ backup'[t] = NoFile /\ config' = backup[t]
    OBVIOUS
  <2>1. TypeOK /\ NotYetMade /\ NamesDistinct /\ Progress
    BY DEF IInv, SInv
  <2> USE <2>1 DEF files
  <2>2. ASSUME NEW p \in Procs, OpenTmp(p) PROVE backup' = backup /\ content'[backup[t]] = content[backup[t]]
    BY <2>2 DEF OpenTmp, TypeOK, NotYetMade, NamesDistinct
  <2>3. ASSUME NEW p \in Procs, WriteTmp(p) PROVE backup' = backup /\ content'[backup[t]] = content[backup[t]]
    <3>1. fd[p] = tmp /\ tmp # NoFile
      BY <2>3 DEF WriteTmp, Progress, ProgressOf
    <3> QED
      BY <2>3, <3>1 DEF WriteTmp, TypeOK, NamesDistinct
  <2>4. ASSUME NEW p \in Procs, Backup(p) PROVE backup'[t] = backup[t] /\ content' = content
    BY <2>4 DEF Backup, TypeOK, Progress, ProgressOf
  <2>5. CASE Edit
    <3>1. config # NoFile /\ config # backup[t] /\ backup' = backup
      BY <2>5 DEF Edit, Loads, NamesDistinct
    <3>2. content'[backup[t]] = content[backup[t]]
      BY <2>5, <3>1 DEF Edit, TypeOK
    <3> QED
      BY <3>1, <3>2
  <2>6. CASE Restore
    BY <2>6 DEF Restore, TypeOK
  <2>7. CASE Tick
    BY <2>7 DEF Tick
  <2>8. ASSUME NEW p \in Procs,
               \/ Check(p) \/ Read(p) \/ Validate(p) \/ StatBackup(p)
               \/ Install(p) \/ Cleanup(p) \/ Crash(p)
        PROVE  backup' = backup /\ content' = content
    BY <2>8 DEF Check, Read, Validate, StatBackup, Install, Cleanup, Crash
  <2> QED
    BY <2>2, <2>3, <2>4, <2>5, <2>6, <2>7, <2>8 DEF Next, MergeStep
<1> QED
  BY <1>1, Invariance, PTL DEF Spec, SnapshotKept

-----------------------------------------------------------------------------
(* Refinement of ConfigStore by merges that take turns. *)

\* There is one newest name at most, whatever the names lead to.
LEMMA NewestIsOne ==
    ASSUME NEW names, NEW t \in Times, names[t] # NoFile,
           \A u \in Times : names[u] # NoFile => u <= t
    PROVE  (CHOOSE v \in Times : names[v] # NoFile /\ \A u \in Times : names[u] # NoFile => u <= v) = t
<1> DEFINE N(v) == names[v] # NoFile /\ \A u \in Times : names[u] # NoFile => u <= v
<1>1. N(t)
  OBVIOUS
<1>2. \A v \in Times : N(v) => v = t
  <2> SUFFICES ASSUME NEW v \in Times, N(v) PROVE v = t
    OBVIOUS
  <2>1. v <= t /\ t <= v
    OBVIOUS
  <2> QED
    BY <2>1, BoundsAssumption DEF Times
<1> HIDE DEF N
<1>3. (CHOOSE v \in Times : N(v)) = t
  BY <1>1, <1>2
<1> QED
  BY <1>3 DEF N

\* While the config is missing, the store is read from the newest backup.
LEMMA NewestIsCurrent ==
    ASSUME config = NoFile, NEW t \in Times, Newest(t)
    PROVE  CurrentFile = backup[t]
BY NewestIsOne DEF CurrentFile, Newest

\* The same of the next state.
LEMMA NewestIsCurrentNext ==
    ASSUME config' = NoFile, NEW t \in Times, Newest(t)'
    PROVE  CurrentFile' = backup'[t]
BY NewestIsOne DEF CurrentFile, Newest

\* A step that moves no name leaves the store in the same file.
LEMMA SameFile ==
    ASSUME AllWhole, UNCHANGED <<config, backup>>
    PROVE  CurrentFile' = CurrentFile
<1>1. CASE config # NoFile
  BY <1>1 DEF CurrentFile
<1>2. CASE config = NoFile
  <2>1. PICK t \in Times : Newest(t)
    BY <1>2 DEF AllWhole
  <2>2. Newest(t)'
    BY <2>1 DEF Newest
  <2> QED
    BY <1>2, <2>1, <2>2, NewestIsCurrent, NewestIsCurrentNext
<1> QED
  BY <1>1, <1>2

\* Every step is a step of the store, or a stutter.
LEMMA StoreStep == IInv /\ Serial /\ [Next]_vars => Store!Next \/ UNCHANGED Store!vars
<1> SUFFICES ASSUME IInv, Serial, [Next]_vars PROVE Store!Next \/ UNCHANGED Store!vars
  OBVIOUS
<1>1. TypeOK /\ NotYetMade /\ NamesDistinct /\ AllWhole /\ Progress
  BY DEF IInv, SInv
<1> DEFINE store == content[CurrentFile].at
<1> USE <1>1 DEF files, Goto, Return, Store!vars
<1>2. ASSUME NEW p \in Procs, outcome[p] = "none", store' = store,
             outcome' \in {[outcome EXCEPT ![p] = "error"], [outcome EXCEPT ![p] = "crashed"]}
      PROVE  Store!Next
  BY <1>2 DEF Store!Next, Store!GiveUp, Store!Finish
<1>3. UNCHANGED files => store' = store
  BY SameFile
<1>4. ASSUME NEW p \in Procs, Check(p) PROVE Store!Next \/ UNCHANGED Store!vars
  <2>1. outcome[p] = "none"
    BY <1>4 DEF Check, Progress, ProgressOf
  <2>2. CASE Loads /\ CheckMergeStatus(p) # "mergeable" /\ Return(p, CheckMergeStatus(p))
    <3>1. CurrentFile = config
      BY <2>2 DEF Loads, CurrentFile
    <3>2. Store!Skip(p)
      BY <1>3, <1>4, <2>1, <2>2, <3>1, StatusFacts DEF Check, Store!Skip, Store!Finish
    <3> QED
      BY <3>2 DEF Store!Next
  <2> QED
    BY <1>2, <1>3, <1>4, <2>1, <2>2 DEF Check
<1>5. ASSUME NEW p \in Procs, Read(p) PROVE Store!Next \/ UNCHANGED Store!vars
  BY <1>2, <1>3, <1>5 DEF Read, Progress, ProgressOf
<1>6. ASSUME NEW p \in Procs, OpenTmp(p) PROVE Store!Next \/ UNCHANGED Store!vars
  <2>1. config # NoFile /\ outcome[p] = "none" /\ pc[p] = "open"
    BY <1>6 DEF OpenTmp, Progress, ProgressOf
  <2>2. CurrentFile = config /\ CurrentFile' = config
    BY <1>6, <2>1 DEF OpenTmp, CurrentFile
  <2>3. content'[config] = content[config]
    BY <1>6, <2>1 DEF OpenTmp, TypeOK, NotYetMade, NamesDistinct
  <2> QED
    BY <1>2, <1>6, <2>1, <2>2, <2>3 DEF OpenTmp
<1>7. ASSUME NEW p \in Procs, WriteTmp(p) PROVE Store!Next \/ UNCHANGED Store!vars
  <2>1. config # NoFile /\ outcome[p] = "none" /\ fd[p] = tmp /\ tmp # NoFile
    BY <1>7 DEF WriteTmp, Progress, ProgressOf
  <2>2. CurrentFile = config /\ CurrentFile' = config
    BY <1>7, <2>1 DEF WriteTmp, CurrentFile
  <2>3. content'[config] = content[config]
    BY <1>7, <2>1 DEF WriteTmp, TypeOK, NamesDistinct
  <2> QED
    BY <1>2, <1>7, <2>1, <2>2, <2>3 DEF WriteTmp
<1>8. ASSUME NEW p \in Procs, Validate(p) \/ StatBackup(p) PROVE Store!Next \/ UNCHANGED Store!vars
  BY <1>2, <1>3, <1>8 DEF Validate, StatBackup, Fail, Progress, ProgressOf
<1>9. ASSUME NEW p \in Procs, Backup(p) PROVE Store!Next \/ UNCHANGED Store!vars
  <2>1. config # NoFile /\ outcome[p] = "none" /\ pc[p] = "backup" /\ stamp[p] \in Times
    BY <1>9 DEF Backup, Progress, ProgressOf, TypeOK
  <2>2. CASE Fail(p) /\ UNCHANGED <<config, backup>>
    BY <1>2, <1>3, <1>9, <2>1, <2>2 DEF Backup, Fail
  <2>3. CASE backup' = [backup EXCEPT ![stamp[p]] = config] /\ config' = NoFile /\ UNCHANGED outcome
            /\ Goto(p, "install")
    <3>1. Newest(stamp[p])' /\ stamp' = stamp
      <4>1. pc'[p] = "install"
        BY <2>3 DEF TypeOK
      <4>2. Progress'
        BY <1>9, SerialStep DEF IInv, SInv, Serial, Backup
      <4> QED
        BY <1>9, <4>1, <4>2 DEF Progress, ProgressOf, Backup
    <3>2. CurrentFile' = config
      BY <2>1, <2>3, <3>1, NewestIsCurrentNext DEF TypeOK
    <3>3. CurrentFile = config /\ content' = content
      BY <1>9, <2>1 DEF CurrentFile, Backup
    <3> QED
      BY <2>3, <3>2, <3>3
  <2> QED
    BY <1>9, <2>2, <2>3 DEF Backup
<1>10. ASSUME NEW p \in Procs, Install(p) PROVE Store!Next \/ UNCHANGED Store!vars
  <2>1. /\ outcome[p] = "none" /\ tmp # NoFile /\ config = NoFile /\ Newest(stamp[p])
        /\ stamp[p] \in Times /\ content[backup[stamp[p]]].at[KeyOf[p]] = NoBuild
        /\ Extended(content[tmp], content[backup[stamp[p]]], p)
    BY <1>10 DEF Install, Progress, ProgressOf, TypeOK
  <2>2. CurrentFile = backup[stamp[p]]
    BY <2>1, NewestIsCurrent
  <2>3. CASE Fail(p) /\ UNCHANGED <<config, tmp>>
    BY <1>2, <1>3, <1>10, <2>1, <2>3 DEF Install, Fail
  <2>4. CASE config' = tmp /\ Return(p, "merged")
    <3>1. CurrentFile' = tmp /\ content' = content
      BY <1>10, <2>1, <2>4 DEF CurrentFile, Install
    <3>2. store' \in Tables /\ Store!Adds(p, store, store')
      BY <2>1, <2>2, <3>1 DEF Extended, TypeOK, Contents
    <3>3. Store!Add(p)
      BY <2>1, <2>4, <3>2 DEF Store!Add, Store!Finish, Tables
    <3> QED
      BY <3>3 DEF Store!Next
  <2> QED
    BY <1>10, <2>3, <2>4 DEF Install
<1>11. ASSUME NEW p \in Procs, Cleanup(p) PROVE UNCHANGED Store!vars
  BY <1>11, SameFile DEF Cleanup
<1>12. ASSUME NEW p \in Procs, Crash(p) PROVE Store!Next \/ UNCHANGED Store!vars
  <2>1. CASE outcome[p] = "none"
    BY <1>2, <1>3, <1>12, <2>1 DEF Crash
  <2>2. CASE outcome[p] # "none"
    BY <1>3, <1>12, <2>2 DEF Crash, TypeOK
  <2> QED
    BY <2>1, <2>2
<1>13. CASE Tick
  BY <1>3, <1>13 DEF Tick
<1>14. CASE Edit
  <2>1. CurrentFile = config /\ CurrentFile' = config /\ config \in Inodes /\ UNCHANGED outcome
    BY <1>14 DEF Edit, Loads, CurrentFile, TypeOK
  <2>2. PICK k \in Keys, b \in Builds \cup {NoBuild} :
           content' = [content EXCEPT ![config] = WithEntry(@, k, b)]
    BY <1>14 DEF Edit
  <2>3. store' = [store EXCEPT ![k] = b]
    BY <2>1, <2>2 DEF WithEntry, TypeOK
  <2> QED
    BY <2>1, <2>3 DEF Store!Next, Store!Edit
<1>15. CASE Restore
  <2>1. PICK t \in Times : Newest(t) /\ config' = backup[t] /\ config = NoFile
    BY <1>15 DEF Restore
  <2>2. CurrentFile = backup[t] /\ CurrentFile' = backup[t]
    BY <2>1, NewestIsCurrent DEF CurrentFile, Newest
  <2> QED
    BY <1>15, <2>2 DEF Restore
<1>16. CASE UNCHANGED vars
  BY <1>3, <1>16 DEF vars
<1> QED
  BY <1>4, <1>5, <1>6, <1>7, <1>8, <1>9, <1>10, <1>11, <1>12, <1>13, <1>14, <1>15, <1>16
     DEF Next, MergeStep

\* Merges in turn implement the abstract store, from the first state and in every step:
\* ImplementsStore (merge.go:88-113).
THEOREM StoreImplemented == Spec => ImplementsStore
<1>1. Init => (Serial => Store!Init)
  <2> SUFFICES ASSUME Init PROVE Store!Init
    OBVIOUS
  <2>1. CurrentFile = Original
    BY InodeAssumption DEF Init, CurrentFile
  <2>2. content[Original].at \in Tables
    BY DEF Init, Inodes
  <2> QED
    BY <2>1, <2>2 DEF Init, Store!Init, Tables
<1>2. IInv /\ [Next]_vars => [Serial => Store!Next \/ UNCHANGED Store!vars]_vars
  BY StoreStep
<1> QED
  BY <1>1, <1>2, Invariance, PTL DEF Spec, ImplementsStore

-----------------------------------------------------------------------------
(* Merges that overlap. *)

\* Seconds that are distinct now were distinct before: a merge keeps its second.
LEMMA SecondsStay == TypeOK /\ [Next]_vars /\ DistinctSeconds' => DistinctSeconds
<1> SUFFICES ASSUME TypeOK, [Next]_vars, NEW p \in Procs, pc[p] # "idle"
             PROVE  pc'[p] # "idle" /\ stamp'[p] = stamp[p]
  BY DEF DistinctSeconds
<1> USE DEF Goto, files
<1>1. ASSUME NEW q \in Procs, MergeStep(q) PROVE pc'[p] # "idle" /\ stamp'[p] = stamp[p]
  <2>1. CASE Check(q)
    BY <2>1 DEF Check, TypeOK
  <2>2. CASE Read(q) \/ OpenTmp(q) \/ WriteTmp(q)
    BY <2>2 DEF Read, OpenTmp, WriteTmp, TypeOK
  <2>3. CASE Validate(q) \/ StatBackup(q) \/ Backup(q)
    BY <2>3 DEF Validate, StatBackup, Backup, Fail, TypeOK
  <2>4. CASE Install(q) \/ Cleanup(q)
    BY <2>4 DEF Install, Cleanup, Fail, TypeOK
  <2> QED
    BY <1>1, <2>1, <2>2, <2>3, <2>4 DEF MergeStep
<1>2. ASSUME NEW q \in Procs, Crash(q) PROVE pc'[p] # "idle" /\ stamp'[p] = stamp[p]
  BY <1>2 DEF Crash, TypeOK
<1>3. CASE Tick \/ Edit \/ Restore \/ UNCHANGED vars
  BY <1>3 DEF Tick, Edit, Restore, vars
<1> QED
  BY <1>1, <1>2, <1>3 DEF Next

\* At first the person's file is the config.
LEMMA InitOriginal == Init => OriginalNotTmp /\ OriginalSafe
<1> SUFFICES ASSUME Init PROVE OriginalNotTmp /\ OriginalSafe
  OBVIOUS
<1>1. config = Original /\ content[Original].whole
  BY DEF Init, Inodes
<1>2. tmp = NoFile /\ \A p \in Procs : fd[p] = NoFile /\ pc[p] = "idle"
  BY DEF Init
<1> QED
  BY <1>1, <1>2, InodeAssumption DEF OriginalNotTmp, OriginalSafe

\* A process writes to the inode it opened under the temporary name, never to the original.
LEMMA NotTmpStep == TypeOK /\ OriginalNotTmp /\ [Next]_vars => OriginalNotTmp'
<1> SUFFICES ASSUME TypeOK, OriginalNotTmp, [Next]_vars PROVE OriginalNotTmp'
  OBVIOUS
<1> USE InodeAssumption DEF Goto, files, OriginalNotTmp
<1>1. ASSUME NEW q \in Procs, Check(q) \/ Read(q) PROVE OriginalNotTmp'
  BY <1>1 DEF Check, Read, TypeOK
<1>2. ASSUME NEW q \in Procs, OpenTmp(q) PROVE OriginalNotTmp'
  <2>1. CASE Return(q, "error")
    BY <1>2, <2>1 DEF OpenTmp, TypeOK
  <2>2. CASE tmp' = (IF tmp = NoFile THEN q ELSE tmp) /\ fd' = [fd EXCEPT ![q] = tmp']
    <3>1. tmp' # Original /\ tmp' # NoFile
      BY <2>2
    <3>2. \A p \in Procs : fd'[p] = IF p = q THEN tmp' ELSE fd[p]
      BY <2>2 DEF TypeOK
    <3>3. \A p \in Procs : p # q => pc'[p] = pc[p]
      BY <1>2 DEF OpenTmp, TypeOK
    <3> QED
      BY <3>1, <3>2, <3>3
  <2> QED
    BY <1>2, <2>1, <2>2 DEF OpenTmp
<1>3. ASSUME NEW q \in Procs, WriteTmp(q) \/ Validate(q) \/ StatBackup(q) PROVE OriginalNotTmp'
  BY <1>3 DEF WriteTmp, Validate, StatBackup, Fail, TypeOK
<1>4. ASSUME NEW q \in Procs, Backup(q) \/ Install(q) \/ Cleanup(q) PROVE OriginalNotTmp'
  BY <1>4 DEF Backup, Install, Cleanup, Fail, TypeOK
<1>5. ASSUME NEW q \in Procs, Crash(q) PROVE OriginalNotTmp'
  BY <1>5 DEF Crash, TypeOK
<1>6. CASE Tick \/ Edit \/ Restore \/ UNCHANGED vars
  BY <1>6 DEF Tick, Edit, Restore, vars
<1> QED
  BY <1>1, <1>2, <1>3, <1>4, <1>5, <1>6 DEF Next, MergeStep

\* The original keeps a name and its content.
LEMMA OriginalStep == OInv /\ [Next]_vars => OriginalSafe'
<1> DEFINE Named == config = Original \/ \E t \in Times : backup[t] = Original
           Free == \A p \in Procs : pc[p] = "backup" => backup[stamp[p]] = NoFile
           Away == \A p \in Procs : pc[p] = "install" => config # Original
<1> SUFFICES ASSUME OInv, [Next]_vars, DistinctSeconds'
             PROVE  Named' /\ content[Original].whole' /\ Free' /\ Away'
  BY DEF OriginalSafe
<1>1. TypeOK /\ OriginalNotTmp /\ DistinctSeconds
  BY SecondsStay DEF OInv
<1>2. Named /\ content[Original].whole /\ Free /\ Away
  BY <1>1 DEF OInv, OriginalSafe
<1> USE <1>1, <1>2, InodeAssumption DEF Goto, files
<1>3. ASSUME NEW q \in Procs, Check(q) \/ Read(q)
      PROVE  Named' /\ content[Original].whole' /\ Free' /\ Away'
  BY <1>3 DEF Check, Read, TypeOK
<1>4. ASSUME NEW q \in Procs, OpenTmp(q)
      PROVE  Named' /\ content[Original].whole' /\ Free' /\ Away'
  BY <1>4 DEF OpenTmp, TypeOK, OriginalNotTmp
<1>5. ASSUME NEW q \in Procs, WriteTmp(q)
      PROVE  Named' /\ content[Original].whole' /\ Free' /\ Away'
  BY <1>5 DEF WriteTmp, TypeOK, OriginalNotTmp
<1>6. ASSUME NEW q \in Procs, Validate(q) \/ StatBackup(q) \/ Cleanup(q) \/ Crash(q)
      PROVE  Named' /\ content[Original].whole' /\ Free' /\ Away'
  BY <1>6 DEF Validate, StatBackup, Cleanup, Crash, Fail, TypeOK
<1>7. ASSUME NEW q \in Procs, Backup(q)
      PROVE  Named' /\ content[Original].whole' /\ Free' /\ Away'
  <2>1. CASE Fail(q) /\ UNCHANGED <<config, backup>>
    BY <1>7, <2>1 DEF Backup, Fail, TypeOK
  <2>2. CASE Goto(q, "install") /\ backup' = [backup EXCEPT ![stamp[q]] = config] /\ config' = NoFile
    <3>1. pc[q] = "backup" /\ stamp' = stamp /\ content' = content /\ stamp[q] \in Times
      BY <1>7 DEF Backup, TypeOK
    <3>2. \A t \in Times : backup'[t] = IF t = stamp[q] THEN config ELSE backup[t]
      BY <2>2 DEF TypeOK
    <3>3. Named'
      BY <3>1, <3>2
    <3>4. Free'
      <4> SUFFICES ASSUME NEW p \in Procs, pc'[p] = "backup" PROVE backup'[stamp'[p]] = NoFile
        OBVIOUS
      <4>1. p # q /\ pc[p] = "backup" /\ stamp[p] \in Times
        BY <2>2 DEF TypeOK
      <4>2. stamp[p] # stamp[q]
        BY <3>1, <4>1 DEF DistinctSeconds
      <4> QED
        BY <3>1, <3>2, <4>1, <4>2
    <3> QED
      BY <2>2, <3>1, <3>3, <3>4
  <2> QED
    BY <1>7, <2>1, <2>2 DEF Backup
<1>8. ASSUME NEW q \in Procs, Install(q)
      PROVE  Named' /\ content[Original].whole' /\ Free' /\ Away'
  BY <1>8 DEF Install, Fail, TypeOK, OriginalNotTmp
<1>9. CASE Tick \/ UNCHANGED vars
  BY <1>9 DEF Tick, vars
<1>10. CASE Edit
  <2>1. PICK k \in Keys, b \in Builds \cup {NoBuild} :
           content' = [content EXCEPT ![config] = WithEntry(@, k, b)]
    BY <1>10 DEF Edit
  <2>2. Original \in Inodes
    BY DEF Inodes
  <2>3. content'[Original].whole
    BY <2>1, <2>2 DEF WithEntry, TypeOK
  <2> QED
    BY <1>10, <2>3 DEF Edit
<1>11. CASE Restore
  <2>1. PICK t \in Times : config' = backup[t] /\ backup' = [backup EXCEPT ![t] = NoFile]
    BY <1>11 DEF Restore
  <2>2. \A u \in Times : backup'[u] = IF u = t THEN NoFile ELSE backup[u]
    BY <2>1 DEF TypeOK
  <2>3. Named'
    BY <1>11, <2>1, <2>2 DEF Restore
  <2>4. pc' = pc /\ content' = content /\ \A p \in Procs : pc[p] \in {"idle", "done"}
    BY <1>11 DEF Restore, Quiet
  <2> QED
    BY <2>3, <2>4
<1> QED
  BY <1>3, <1>4, <1>5, <1>6, <1>7, <1>8, <1>9, <1>10, <1>11 DEF Next, MergeStep

\* However merges overlap, fail and crash, the file a person wrote still parses under the
\* config's name or a backup's, if no two merges begin in the same second: OriginalKept
\* (merge.go:161-167).
THEOREM OriginalIsKept == Spec => []OriginalKept
<1>1. Init => OInv
  BY InitTyped, InitOriginal DEF OInv
<1>2. OInv /\ [Next]_vars => OInv'
  BY TypeStep, NotTmpStep, OriginalStep DEF OInv
<1>3. OInv => OriginalKept
  BY DEF OInv, OriginalSafe, OriginalKept
<1> QED
  BY <1>1, <1>2, <1>3, PTL DEF Spec
=============================================================================
