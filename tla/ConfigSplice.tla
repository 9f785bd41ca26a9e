---------------------------- MODULE ConfigSplice ----------------------------
(***************************************************************************)
(* How MergeBuild puts an entry into the text of rpm-build-config.yaml     *)
(* (src/go/config/merge.go): entryLinesFor cuts the entry's lines out of   *)
(* the -c file, comments and all, insertBuild looks for the end of the     *)
(* last entry of the OS by line patterns and puts them there, and          *)
(* validateMerge parses the result before it is installed.  The merge is   *)
(* one step here; ConfigMerge has its file operations.                     *)
(*                                                                         *)
(* A line is what the patterns and the parser tell apart: what kind of key *)
(* it holds, its name, its column, and whether a comment follows the key.  *)
(* A build is the set of fields it has: entries of one file have the same  *)
(* packages more often than not.                                           *)
(***************************************************************************)
EXTENDS Naturals, Sequences, SequencesExt

CONSTANTS
    OSes,       \* the OSes with a section in a file
    Labels,     \* the labels of builds
    Fields,     \* the fields a build may have
    Sources,    \* -c files: a text, and the OS and the label that are built
    Typed,      \* the lines a person writes
    MaxLines,   \* bound on the lines a person writes
    MaxMerges   \* bound on the merges

VARIABLES
    file,       \* the lines of rpm-build-config.yaml
    last,       \* the -c file of the last merge
    merges      \* merges tried so far

vars == <<file, last, merges>>

\* `oses:` is above every line; the columns are those of the house style.
Line(k, n, col, note) == [kind |-> k, name |-> n, column |-> col, noted |-> note]
OSLine(o, note) == Line("os", o, 2, note)
BuildsLine == Line("builds", "builds", 4, FALSE)
LabelLine(l, note) == Line("label", l, 6, note)
FieldLine(f) == Line("field", f, 8, FALSE)
Comment(col) == Line("comment", "#", col, FALSE)
Blank == Line("blank", "blank", 0, FALSE)

Lines == {OSLine(o, n) : o \in OSes, n \in BOOLEAN} \cup {BuildsLine, Blank}
         \cup {LabelLine(l, n) : l \in Labels, n \in BOOLEAN}
         \cup {FieldLine(f) : f \in Fields} \cup {Comment(c) : c \in {0, 2, 6, 8}}

ASSUME TypedAssumption == Typed \subseteq Lines
ASSUME BoundsAssumption == MaxLines \in Nat /\ MaxMerges \in Nat

-----------------------------------------------------------------------------
(* What the parser makes of a text. *)

IsKey(l) == l.kind \notin {"comment", "blank"}
IsOS(l) == l.kind = "os"
IsLabel(l) == l.kind = "label"

\* The last line before i that holds a key, starts a section, starts an entry; or 0.
KeyBefore(t, i) == SelectLastInSubSeq(t, 1, i - 1, IsKey)
SectionOf(t, i) == SelectLastInSubSeq(t, 1, i - 1, IsOS)
EntryOf(t, i) == SelectLastInSubSeq(t, 1, i - 1, IsLabel)

\* The kinds of key that may come before a key.
MayFollow(k) == CASE k = "os" -> {"none", "os", "builds", "label", "field"}
                  [] k = "builds" -> {"os"}
                  [] k = "label" -> {"builds", "label", "field"}
                  [] k = "field" -> {"label", "field"}
KindBefore(t, i) == LET k == KeyBefore(t, i) IN IF k = 0 THEN "none" ELSE t[k].kind

\* The place of a key: its name in the mapping it belongs to.
Place(t, i) == <<t[i].kind, t[i].name, CASE t[i].kind = "os" -> 0
                                         [] t[i].kind = "field" -> EntryOf(t, i)
                                         [] OTHER -> SectionOf(t, i)>>

\* Every key is where it may be, none twice in a mapping: anything else is an error
\* of the YAML decoder, which takes known fields only.
Keys(t) == {i \in DOMAIN t : IsKey(t[i])}
Loads(t) ==
    /\ \A i \in Keys(t) : KindBefore(t, i) \in MayFollow(t[i].kind)
    /\ IsInjective([i \in Keys(t) |-> Place(t, i)])

FieldsOf(t, i) == {t[j].name : j \in {k \in Keys(t) : t[k].kind = "field" /\ EntryOf(t, k) = i}}

\* The table of entries, and the sections, of a text that loads.
Entries(t) == {[os |-> t[SectionOf(t, i)].name, label |-> t[i].name, build |-> FieldsOf(t, i)] :
                  i \in {j \in DOMAIN t : IsLabel(t[j])}}
Sections(t) == {t[i].name : i \in {j \in DOMAIN t : IsOS(t[j])}}
Has(t, o, l) == \E e \in Entries(t) : e.os = o /\ e.label = l
BuildOf(t, o, l) == (CHOOSE e \in Entries(t) : e.os = o /\ e.label = l).build

-----------------------------------------------------------------------------
(* The patterns. *)

\* osLineRe and labelLineRe take a key with nothing behind it; outerBoundaryRe any
\* key at the column of an OS; realEntryRe any key of an entry that ends its line.
PlainOS(o) == OSLine(o, FALSE)
PlainLabel(l) == IsLabel(l) /\ ~l.noted

\* indentOf: a line that ends an entry, by its column alone.
EndsEntry(l) == l.kind # "blank" /\ l.column < 6

\* The line of the section's header, and the `builds:` that must come right after it.
OSIdx(t, o) == SelectInSeq(t, LAMBDA l : l = PlainOS(o))
BuildsIdx(t, o) == OSIdx(t, o) + 1
SectionFound(t, o) ==
    OSIdx(t, o) # 0 /\ BuildsIdx(t, o) <= Len(t) /\ t[BuildsIdx(t, o)] = BuildsLine

\* The first line in from..to of which Test holds, or else the line after them.
FirstOr(t, from, to, Test(_)) ==
    LET i == SelectInSubSeq(t, from, to, Test) IN IF i = 0 THEN to + 1 ELSE i

\* The next OS, or the end of the text.
OuterEnd(t, o) == FirstOr(t, BuildsIdx(t, o) + 1, Len(t), IsOS)
Anchor(t, o) == SelectLastInSubSeq(t, BuildsIdx(t, o) + 1, OuterEnd(t, o) - 1, PlainLabel)

\* Mutant: after the anchor's own line.
InsertPointAtAnchor(t, o) ==
    IF Anchor(t, o) = 0 THEN BuildsIdx(t, o) + 1 ELSE Anchor(t, o) + 1

\* insertBuild puts the entry before this line: right below `builds:` when the
\* section has no entry, or below the last one, which a line further left ends.
InsertPoint(t, o) ==
    IF Anchor(t, o) = 0 THEN BuildsIdx(t, o) + 1
    ELSE FirstOr(t, Anchor(t, o) + 1, OuterEnd(t, o) - 1, EndsEntry)

LabelIdx(t, o, l) ==
    SelectInSubSeq(t, BuildsIdx(t, o) + 1, OuterEnd(t, o) - 1, LAMBDA x : x = LabelLine(l, FALSE))

\* Mutant: the comments above the label are left behind.
StartIdxAtLabel(t, o, l) == LabelIdx(t, o, l)

\* The first of the comments at the label's column that stand right above it.
StartIdx(t, o, l) ==
    Min({i \in BuildsIdx(t, o) + 1..LabelIdx(t, o, l) :
            \A j \in i..LabelIdx(t, o, l) - 1 : t[j] = Comment(6)})

\* entryLinesFor: from there to a line further left, without blank lines at the end.
EntryLines(t, o, l) ==
    LET end == FirstOr(t, LabelIdx(t, o, l) + 1, OuterEnd(t, o) - 1, EndsEntry)
    IN  SubSeq(t, StartIdx(t, o, l),
               SelectLastInSubSeq(t, LabelIdx(t, o, l), end - 1, LAMBDA x : x # Blank))

-----------------------------------------------------------------------------
(* MergeBuild. *)

\* A build ran from each -c file, so that it loads and resolves.
ASSUME SourcesAssumption ==
    /\ Sources # {}
    /\ \A s \in Sources :
          /\ s.text \in Seq(Lines) /\ s.os \in OSes /\ s.label \in Labels
          /\ Loads(s.text) /\ Has(s.text, s.os, s.label)
          /\ "srpm" \in BuildOf(s.text, s.os, s.label)

Wanted(s) == [os |-> s.os, label |-> s.label, build |-> BuildOf(s.text, s.os, s.label)]

\* There is no entry yet, and both texts have the shape the patterns look for.
Mergeable(t, s) ==
    /\ ~Has(t, s.os, s.label) /\ s.os \in Sections(t)
    /\ SectionFound(t, s.os)
    /\ SectionFound(s.text, s.os) /\ LabelIdx(s.text, s.os, s.label) # 0

Spliced(t, s) ==
    SubSeq(t, 1, InsertPoint(t, s.os) - 1) \o EntryLines(s.text, s.os, s.label)
        \o SubSeq(t, InsertPoint(t, s.os), Len(t))

\* Mutants: nothing is read back; only the presence of the entry is looked at.
ValidAlways(t, s) == TRUE
ValidPresent(t, s) == Loads(t) /\ Has(t, s.os, s.label)

\* validateMerge.
Valid(t, s) == Loads(t) /\ Wanted(s) \in Entries(t)

Accepts(t, s) == Mergeable(t, s) /\ Valid(Spliced(t, s), s)

Merge(s) ==
    /\ merges < MaxMerges
    /\ merges' = merges + 1 /\ last' = s
    /\ file' = IF Accepts(file, s) THEN Spliced(file, s) ELSE file

\* A person writes the next line of a file that loads; comments and blank lines do
\* not repeat (a bound on the texts).
Type(l) ==
    /\ merges = 0 /\ Len(file) < MaxLines
    /\ ~IsKey(l) => file # <<>> /\ IsKey(Last(file))
    /\ file' = Append(file, l) /\ Loads(file')
    /\ UNCHANGED <<last, merges>>

Init == file = <<>> /\ last = (CHOOSE s \in Sources : TRUE) /\ merges = 0
Next == (\E l \in Typed : Type(l)) \/ (\E s \in Sources : Merge(s))
Spec == Init /\ [][Next]_vars

-----------------------------------------------------------------------------
(* Properties. *)

\* The config loads, whatever is merged into it (merge.go:157-159).
TypeOK ==
    /\ file \in Seq(Lines) /\ Loads(file)
    /\ last \in Sources
    /\ merges \in 0..MaxMerges

\* An entry's own lines: the comments at its column right above its label, the label,
\* and all down to its last field.
LabelAt(t, e) == CHOOSE i \in DOMAIN t : IsLabel(t[i]) /\ t[i].name = e.label /\ t[SectionOf(t, i)].name = e.os
LastField(t, i) == Max({i} \cup {j \in DOMAIN t : t[j].kind = "field" /\ EntryOf(t, j) = i})
FirstComment(t, i) == Min({j \in 1..i : \A k \in j..i - 1 : t[k] = Comment(6)})
Body(t, e) == SubSeq(t, LabelAt(t, e), LastField(t, LabelAt(t, e)))
Span(t, e) == SubSeq(t, FirstComment(t, LabelAt(t, e)), LastField(t, LabelAt(t, e)))
Contained(x, t) == \E i \in 0..Len(t) - Len(x) : x = SubSeq(t, i + 1, i + Len(x))

\* A line further left in the middle of an entry: the line scan takes it for the end.
Broken(t, e) == \E l \in Range(Body(t, e)) : EndsEntry(l)

\* The scan of the -c file takes in just the entry: no line further left cuts it short,
\* and no other entry of the section follows, which the scan would take along.  The
\* launcher expects one entry in the file, but only warns of more (host.go:114-117).
Exact(s) ==
    /\ ~Broken(s.text, Wanted(s))
    /\ \A e \in Entries(s.text) : e.os = s.os => e.label = s.label

\* A merge that is accepted adds its own entry to the table and changes no other:
\* validateMerge makes up for what the scan cannot see (merge.go:174-193).  It does not
\* when the new entry's lines are not exactly the entry: then fields taken from the
\* entry above may complete it, and entries that follow it come along.
OnlyEntryAdded ==
    [][merges' # merges /\ file' # file /\ Exact(last') =>
          Entries(file') = Entries(file) \cup {Wanted(last')}]_vars

\* The comments that say why an entry is as it is survive: the lines of the new entry
\* and those of every other stay together, comments included (merge.go:93-107, 264-298).
SpansKept ==
    [][merges' # merges /\ file' # file /\ Exact(last') =>
          /\ Contained(Span(last'.text, Wanted(last')), file')
          /\ \A e \in Entries(file) : Contained(Span(file, e), file')]_vars

\* Where nobody writes further left inside an entry and every header is plain, a new
\* entry is never refused, after any merge before it (merge.go:195-207), when its lines in
\* the -c file are exactly the entry (Exact) and its label has no comment on its line.  From
\* other -c files it may be.
Tidy(t, o) ==
    /\ SectionFound(t, o)
    /\ \A e \in Entries(t) : e.os = o => ~Broken(t, e)
TidyNeverRefused ==
    \A s \in Sources :
        (/\ Tidy(file, s.os) /\ ~Has(file, s.os, s.label)
         /\ SectionFound(s.text, s.os) /\ Exact(s)
         /\ ~s.text[LabelAt(s.text, Wanted(s))].noted)
        => Accepts(file, s)
=============================================================================
