------------------------- MODULE ConfigSpliceProofs -------------------------
(***************************************************************************)
(* What a merge does to a text, for texts and entries of any length.  The  *)
(* lines that matter to a line are the last key, the last OS and the last  *)
(* label above it (Prev).  A splice moves what is below it and leaves      *)
(* these alone, except for the fields just below it: they belonged to the  *)
(* entry above and now belong to the new one (Stolen).  validateMerge      *)
(* refuses a text with such fields, and in a tidy text there are none.     *)
(***************************************************************************)
EXTENDS ConfigSplice, SequenceTheorems, WellFoundedInduction, TLAPS

-----------------------------------------------------------------------------
(* Positions. *)

\* A set of positions that is not empty has a first one.
LEMMA MinIs ==
    ASSUME NEW S \in SUBSET Nat, S # {}
    PROVE  Min(S) \in S /\ \A n \in S : Min(S) <= n
<1> DEFINE R == OpToRel(<, Nat)
<1>1. IsWellFoundedOn(R, Nat)
  BY NatLessThanWellFounded
<1>2. PICK m \in S : \A n \in S : <<n, m>> \notin R
  <2> HIDE DEF R
  <2> QED
    BY <1>1, WFMin
<1>3. \A n \in S : ~(n < m)
  BY <1>2 DEF OpToRel
<1>4. \A n \in S : m <= n
  BY <1>3
<1> QED
  BY <1>4 DEF Min

\* One that has a bound has a last one.
LEMMA MaxIs ==
    ASSUME NEW N \in Nat, NEW S \in SUBSET (0..N), S # {}
    PROVE  Max(S) \in S /\ \A n \in S : n <= Max(S)
<1> DEFINE T == {N - n : n \in S}
<1>1. T \in SUBSET Nat /\ T # {}
  <2>1. \A n \in S : n \in 0..N /\ N - n \in Nat
    OBVIOUS
  <2> QED
    BY <2>1
<1>2. Min(T) \in T /\ \A n \in T : Min(T) <= n
  <2> HIDE DEF T
  <2> QED
    BY <1>1, MinIs
<1>3. PICK m \in S : Min(T) = N - m
  BY <1>2
<1>4. ASSUME NEW n \in S PROVE m >= n
  <2>1. N - m <= N - n
    BY <1>2, <1>3
  <2> QED
    BY <2>1
<1>5. Max(S) \in S /\ \A n \in S : Max(S) >= n
  BY <1>4 DEF Max
<1> QED
  BY <1>5

\* k is the last of S above i, or 0.
Prev(S, i, k) ==
    /\ k \in 0..i - 1
    /\ k # 0 => k \in S
    /\ \A j \in k + 1..i - 1 : j \notin S

\* There is one only.
LEMMA PrevUnique ==
    ASSUME NEW S, NEW i \in Nat \ {0}, NEW k, NEW l, Prev(S, i, k), Prev(S, i, l)
    PROVE  k = l
BY DEF Prev

\* The last of the set is that one.
LEMMA LastIsPrev ==
    ASSUME NEW S, NEW i \in Nat \ {0}, NEW I, I = {j \in 1..i - 1 : j \in S}
    PROVE  Prev(S, i, IF I # {} THEN Max(I) ELSE 0)
<1>1. CASE I = {}
  BY <1>1 DEF Prev
<1>2. CASE I # {}
  <2>1. I \in SUBSET (0..i - 1) /\ i - 1 \in Nat
    OBVIOUS
  <2>2. Max(I) \in I /\ \A n \in I : n <= Max(I)
    BY <1>2, <2>1, MaxIs
  <2>3. Max(I) \in 1..i - 1 /\ Max(I) \in S
    BY <2>2
  <2>4. ASSUME NEW j \in Max(I) + 1..i - 1 PROVE j \notin S
    <3>1. j \in 1..i - 1 /\ ~(j <= Max(I))
      BY <2>3
    <3> QED
      BY <2>2, <3>1
  <2> QED
    BY <1>2, <2>3, <2>4 DEF Prev
<1> QED
  BY <1>1, <1>2

\* The positions that a splice of m lines before line n leaves: those above, those of
\* the lines put in, and those below.
Moved(S, F, n, m) ==
    {i \in S : i < n} \cup {n - 1 + j : j \in F} \cup {i + m : i \in {j \in S : j >= n}}

\* What is above the place keeps what is above it.
LEMMA PrevAbove ==
    ASSUME NEW S, S \subseteq Nat \ {0}, NEW m \in Nat, NEW F, F \subseteq 1..m,
           NEW n \in Nat \ {0}, NEW i \in 1..n, NEW k, Prev(S, i, k)
    PROVE  Prev(Moved(S, F, n, m), i, k)
BY DEF Prev, Moved

\* What is below it, and has something in between, moves with that.
LEMMA PrevBelow ==
    ASSUME NEW S, S \subseteq Nat \ {0}, NEW m \in Nat, NEW F, F \subseteq 1..m,
           NEW n \in Nat \ {0}, NEW i \in Nat, i >= n, NEW k, Prev(S, i, k), k >= n
    PROVE  Prev(Moved(S, F, n, m), i + m, k + m)
<1> USE DEF Prev, Moved
<1>1. k + m \in 0..(i + m) - 1 /\ k + m \in Moved(S, F, n, m)
  OBVIOUS
<1>2. ASSUME NEW j \in (k + m) + 1..(i + m) - 1, j \in Moved(S, F, n, m) PROVE FALSE
  <2>1. j \in Nat /\ j > n - 1 + m /\ j - m \in k + 1..i - 1
    OBVIOUS
  <2>2. j - m \in S
    BY <1>2, <2>1
  <2> QED
    BY <2>1, <2>2
<1> QED
  BY <1>1, <1>2

\* What is right below it comes after what was put in, or else after what was above.
LEMMA PrevJustBelow ==
    ASSUME NEW S, S \subseteq Nat \ {0}, NEW m \in Nat, NEW F, F \subseteq 1..m,
           NEW n \in Nat \ {0}, NEW i \in Nat, i >= n, NEW k, Prev(S, i, k), k < n,
           NEW f, Prev(F, m + 1, f)
    PROVE  Prev(Moved(S, F, n, m), i + m, IF f = 0 THEN k ELSE n - 1 + f)
<1> USE DEF Prev, Moved
<1>1. ASSUME NEW j \in Nat, j > n - 1 + f, j <= (i + m) - 1, j \in Moved(S, F, n, m) PROVE FALSE
  <2>1. CASE j \in {n - 1 + g : g \in F}
    BY <1>1, <2>1
  <2>2. CASE j \notin {n - 1 + g : g \in F}
    <3>1. j >= n
      BY <1>1
    <3>2. j - m \in S /\ j - m >= n /\ j - m \in k + 1..i - 1
      BY <1>1, <2>2, <3>1
    <3> QED
      BY <3>2
  <2> QED
    BY <2>1, <2>2
<1>2. CASE f # 0
  <2>1. n - 1 + f \in 0..(i + m) - 1 /\ n - 1 + f \in Moved(S, F, n, m)
    BY <1>2
  <2> QED
    BY <1>1, <1>2, <2>1
<1>3. CASE f = 0
  <2>1. k \in 0..(i + m) - 1 /\ (k # 0 => k \in Moved(S, F, n, m))
    BY <1>3
  <2>2. ASSUME NEW j \in k + 1..(i + m) - 1, j \in Moved(S, F, n, m) PROVE FALSE
    <3>1. CASE j > n - 1 + f
      BY <1>1, <2>2, <3>1
    <3>2. CASE j < n
      <4>1. j \notin S
        BY <2>2, <3>2
      <4> QED
        BY <1>3, <2>2, <3>2, <4>1
    <3> QED
      BY <1>3, <3>1, <3>2
  <2> QED
    BY <1>3, <2>1, <2>2
<1> QED
  BY <1>2, <1>3

\* What was put in comes after what was put in, or else after what is above the place.
LEMMA PrevWithin ==
    ASSUME NEW S, S \subseteq Nat \ {0}, NEW m \in Nat, NEW F, F \subseteq 1..m,
           NEW n \in Nat \ {0}, NEW j \in 1..m, NEW f, Prev(F, j, f), NEW k, Prev(S, n, k)
    PROVE  Prev(Moved(S, F, n, m), n - 1 + j, IF f = 0 THEN k ELSE n - 1 + f)
<1> USE DEF Prev, Moved
<1>1. ASSUME NEW h \in Nat, h > n - 1 + f, h < n - 1 + j, h \in Moved(S, F, n, m) PROVE FALSE
  <2>1. h - (n - 1) \in f + 1..j - 1 /\ h >= n
    BY <1>1
  <2>2. h - (n - 1) \notin F
    BY <2>1
  <2> QED
    BY <1>1, <2>1, <2>2
<1>2. CASE f # 0
  BY <1>1, <1>2
<1>3. CASE f = 0
  <2>1. ASSUME NEW h \in k + 1..(n - 1 + j) - 1, h \in Moved(S, F, n, m) PROVE FALSE
    BY <1>1, <1>3, <2>1
  <2> QED
    BY <1>3, <2>1
<1> QED
  BY <1>2, <1>3

-----------------------------------------------------------------------------
(* Lines. *)

\* What a kind of line says of a line.
LEMMA LineFacts ==
    ASSUME NEW x \in Lines
    PROVE  /\ x.kind \in {"os", "builds", "label", "field", "comment", "blank"}
           /\ IsOS(x) => EndsEntry(x) /\ IsKey(x)
           /\ x.kind = "builds" => x = BuildsLine /\ IsKey(x)
           /\ IsLabel(x) => IsKey(x) /\ ~EndsEntry(x) /\ x # Comment(6)
           /\ PlainLabel(x) => x = LabelLine(x.name, FALSE) /\ IsLabel(x)
           /\ x.kind = "field" => IsKey(x) /\ ~EndsEntry(x) /\ x # Blank /\ x # Comment(6)
           /\ IsKey(x) => x.kind \in {"os", "builds", "label", "field"}
           /\ x = Comment(6) => ~EndsEntry(x) /\ ~IsKey(x) /\ x # Blank
           /\ x = BuildsLine => x # Comment(6) /\ ~IsOS(x) /\ ~IsLabel(x) /\ IsKey(x) /\ x.kind = "builds"
<1>1. ASSUME NEW o \in OSes, NEW b \in BOOLEAN, x = OSLine(o, b)
      PROVE  x.kind = "os" /\ x.column = 2 /\ x.name = o /\ x.noted = b
  BY <1>1 DEF OSLine, Line
<1>2. ASSUME NEW l \in Labels, NEW b \in BOOLEAN, x = LabelLine(l, b)
      PROVE  x.kind = "label" /\ x.column = 6 /\ x.name = l /\ x.noted = b
  BY <1>2 DEF LabelLine, Line
<1>3. ASSUME NEW f \in Fields, x = FieldLine(f)
      PROVE  x.kind = "field" /\ x.column = 8
  BY <1>3 DEF FieldLine, Line
<1>4. ASSUME NEW c \in {0, 2, 6, 8}, x = Comment(c) PROVE x.kind = "comment" /\ x.column = c
  BY <1>4 DEF Comment, Line
<1>5. x = BuildsLine => x.kind = "builds" /\ x.column = 4
  BY DEF BuildsLine, Line
<1>6. x = Blank => x.kind = "blank"
  BY DEF Blank, Line
<1>7. /\ BuildsLine.kind = "builds" /\ Blank.kind = "blank"
      /\ Comment(6).kind = "comment" /\ Comment(6).column = 6
  BY DEF BuildsLine, Blank, Comment, Line
<1>8. \/ \E o \in OSes, b \in BOOLEAN : x = OSLine(o, b)
      \/ x = BuildsLine
      \/ x = Blank
      \/ \E l \in Labels, b \in BOOLEAN : x = LabelLine(l, b)
      \/ \E f \in Fields : x = FieldLine(f)
      \/ \E c \in {0, 2, 6, 8} : x = Comment(c)
  BY DEF Lines
<1>9. ASSUME PlainLabel(x) PROVE x = LabelLine(x.name, FALSE) /\ IsLabel(x)
  <2>1. x.kind = "label" /\ ~x.noted
    BY <1>9 DEF PlainLabel, IsLabel
  <2>2. PICK l \in Labels, b \in BOOLEAN : x = LabelLine(l, b)
    BY <1>1, <1>3, <1>4, <1>5, <1>6, <1>8, <2>1
  <2>3. x.name = l /\ x.noted = b
    BY <1>2, <2>2
  <2>4. b = FALSE
    BY <2>1, <2>3
  <2> QED
    BY <2>1, <2>2, <2>3, <2>4 DEF IsLabel
<1>10. \/ x.kind = "os" /\ x.column = 2
       \/ x.kind = "builds" /\ x = BuildsLine
       \/ x.kind = "blank"
       \/ x.kind = "label" /\ x.column = 6
       \/ x.kind = "field" /\ x.column = 8
       \/ x.kind = "comment"
  BY <1>1, <1>2, <1>3, <1>4, <1>5, <1>6, <1>8
<1>11. /\ x.kind \in {"os", "builds", "label", "field", "comment", "blank"}
       /\ IsKey(x) => x.kind \in {"os", "builds", "label", "field"}
       /\ x.kind = "builds" => x = BuildsLine /\ IsKey(x)
       /\ x = BuildsLine => x # Comment(6) /\ ~IsOS(x) /\ ~IsLabel(x) /\ IsKey(x) /\ x.kind = "builds"
  BY <1>7, <1>10 DEF IsOS, IsKey, IsLabel
<1>12. IsOS(x) => EndsEntry(x) /\ IsKey(x)
  BY <1>10 DEF IsOS, IsKey, EndsEntry
<1>13. IsLabel(x) => IsKey(x) /\ ~EndsEntry(x) /\ x # Comment(6)
  BY <1>7, <1>10 DEF IsLabel, IsKey, EndsEntry
<1>14. x.kind = "field" => IsKey(x) /\ ~EndsEntry(x) /\ x # Blank /\ x # Comment(6)
  BY <1>7, <1>10 DEF IsKey, EndsEntry
<1>15. x = Comment(6) => ~EndsEntry(x) /\ ~IsKey(x) /\ x # Blank
  BY <1>7 DEF IsKey, EndsEntry
<1> QED
  BY <1>9, <1>11, <1>12, <1>13, <1>14, <1>15

LEMMA HeaderFacts ==
    ASSUME NEW o, NEW l
    PROVE  /\ IsOS(PlainOS(o)) /\ PlainOS(o).name = o /\ PlainOS(o) # BuildsLine
           /\ IsLabel(LabelLine(l, FALSE)) /\ LabelLine(l, FALSE).name = l
           /\ ~LabelLine(l, FALSE).noted
BY DEF PlainOS, OSLine, BuildsLine, LabelLine, Line, IsOS, IsLabel

\* The positions of the headers of a text.
OSesIn(t) == {i \in DOMAIN t : IsOS(t[i])}
LabelsIn(t) == {i \in DOMAIN t : IsLabel(t[i])}

LEMMA PositionsAre ==
    ASSUME NEW t \in Seq(Lines)
    PROVE  /\ DOMAIN t = 1..Len(t) /\ Len(t) \in Nat /\ \A i \in 1..Len(t) : t[i] \in Lines
           /\ OSesIn(t) \subseteq 1..Len(t) /\ LabelsIn(t) \subseteq 1..Len(t) /\ Keys(t) \subseteq 1..Len(t)
           /\ OSesIn(t) \subseteq Keys(t) /\ LabelsIn(t) \subseteq Keys(t)
<1>1. DOMAIN t = 1..Len(t) /\ Len(t) \in Nat /\ \A i \in 1..Len(t) : t[i] \in Lines
  OBVIOUS
<1>2. \A i \in 1..Len(t) : (IsOS(t[i]) \/ IsLabel(t[i])) => IsKey(t[i])
  BY <1>1, LineFacts
<1> QED
  BY <1>1, <1>2 DEF OSesIn, LabelsIn, Keys

\* What is above a line is what the searches find.
LEMMA SearchesAre ==
    ASSUME NEW t \in Seq(Lines), NEW i \in 1..Len(t) + 1
    PROVE  /\ Prev(Keys(t), i, KeyBefore(t, i))
           /\ Prev(OSesIn(t), i, SectionOf(t, i))
           /\ Prev(LabelsIn(t), i, EntryOf(t, i))
<1>1. DOMAIN t = 1..Len(t) /\ Len(t) \in Nat /\ i \in Nat \ {0}
  BY PositionsAre
<1>2. Prev(Keys(t), i, KeyBefore(t, i))
  <2> DEFINE I == {j \in 1..i - 1 : IsKey(t[j])}
  <2>1. I = {j \in 1..i - 1 : j \in Keys(t)}
    BY <1>1 DEF Keys
  <2>2. KeyBefore(t, i) = IF I # {} THEN Max(I) ELSE 0
    BY DEF KeyBefore, SelectLastInSubSeq
  <2> HIDE DEF I
  <2> QED
    BY <1>1, <2>1, <2>2, LastIsPrev
<1>3. Prev(OSesIn(t), i, SectionOf(t, i))
  <2> DEFINE I == {j \in 1..i - 1 : IsOS(t[j])}
  <2>1. I = {j \in 1..i - 1 : j \in OSesIn(t)}
    BY <1>1 DEF OSesIn
  <2>2. SectionOf(t, i) = IF I # {} THEN Max(I) ELSE 0
    BY DEF SectionOf, SelectLastInSubSeq
  <2> HIDE DEF I
  <2> QED
    BY <1>1, <2>1, <2>2, LastIsPrev
<1>4. Prev(LabelsIn(t), i, EntryOf(t, i))
  <2> DEFINE I == {j \in 1..i - 1 : IsLabel(t[j])}
  <2>1. I = {j \in 1..i - 1 : j \in LabelsIn(t)}
    BY <1>1 DEF LabelsIn
  <2>2. EntryOf(t, i) = IF I # {} THEN Max(I) ELSE 0
    BY DEF EntryOf, SelectLastInSubSeq
  <2> HIDE DEF I
  <2> QED
    BY <1>1, <2>1, <2>2, LastIsPrev
<1> QED
  BY <1>2, <1>3, <1>4

\* Nothing else is above it.
LEMMA SearchesOnly ==
    ASSUME NEW t \in Seq(Lines), NEW i \in 1..Len(t) + 1, NEW k
    PROVE  /\ Prev(Keys(t), i, k) => KeyBefore(t, i) = k
           /\ Prev(OSesIn(t), i, k) => SectionOf(t, i) = k
           /\ Prev(LabelsIn(t), i, k) => EntryOf(t, i) = k
<1>1. i \in Nat \ {0}
  BY PositionsAre
<1> QED
  BY <1>1, SearchesAre, PrevUnique

-----------------------------------------------------------------------------
(* Texts that load. *)

\* The parts of Loads.
LEMMA LoadsIs ==
    ASSUME NEW t \in Seq(Lines)
    PROVE  Loads(t) <=>
             /\ \A i \in Keys(t) : KindBefore(t, i) \in MayFollow(t[i].kind)
             /\ \A i, j \in Keys(t) : Place(t, i) = Place(t, j) => i = j
BY DEF Loads, IsInjective

\* What may be above a key.
LEMMA Follows ==
    ASSUME NEW t \in Seq(Lines), Loads(t), NEW i \in Keys(t), NEW k, k = KeyBefore(t, i)
    PROVE  /\ k \in 0..i - 1 /\ (k # 0 => k \in Keys(t))
           /\ t[i].kind = "builds" => k # 0 /\ IsOS(t[k])
           /\ t[i].kind = "label" => k # 0 /\ t[k].kind \in {"builds", "label", "field"}
           /\ t[i].kind = "field" => k # 0 /\ t[k].kind \in {"label", "field"}
<1>1. i \in 1..Len(t) + 1
  BY PositionsAre
<1>2. k \in 0..i - 1 /\ (k # 0 => k \in Keys(t))
  BY <1>1, SearchesAre DEF Prev
<1>3. KindBefore(t, i) \in MayFollow(t[i].kind)
  BY LoadsIs
<1> QED
  BY <1>2, <1>3 DEF KindBefore, MayFollow, IsOS

\* A section has one header, an entry of a section one label.
LEMMA HeadersUnique ==
    ASSUME NEW t \in Seq(Lines), Loads(t)
    PROVE  /\ \A i, j \in OSesIn(t) : t[i].name = t[j].name => i = j
           /\ \A i, j \in LabelsIn(t) :
                 t[i].name = t[j].name /\ SectionOf(t, i) = SectionOf(t, j) => i = j
<1>1. \A i, j \in Keys(t) : Place(t, i) = Place(t, j) => i = j
  BY LoadsIs
<1>2. ASSUME NEW i \in OSesIn(t), NEW j \in OSesIn(t), t[i].name = t[j].name PROVE i = j
  <2>1. Place(t, i) = <<"os", t[i].name, 0>> /\ Place(t, j) = <<"os", t[j].name, 0>>
    BY DEF Place, OSesIn, IsOS
  <2> QED
    BY <1>1, <1>2, <2>1, PositionsAre
<1>3. ASSUME NEW i \in LabelsIn(t), NEW j \in LabelsIn(t),
             t[i].name = t[j].name, SectionOf(t, i) = SectionOf(t, j)
      PROVE  i = j
  <2>1. Place(t, i) = <<"label", t[i].name, SectionOf(t, i)>> /\ Place(t, j) = <<"label", t[j].name, SectionOf(t, j)>>
    BY DEF Place, LabelsIn, IsLabel
  <2> QED
    BY <1>1, <1>3, <2>1, PositionsAre
<1> QED
  BY <1>2, <1>3

-----------------------------------------------------------------------------
(* What the patterns find. *)

\* The first of some positions in from..to, or else the one after them.
LEMMA FirstOrIs ==
    ASSUME NEW from \in Nat \ {0}, NEW to \in Nat, from <= to + 1, NEW I \in SUBSET (from..to),
           NEW i, i = IF I # {} THEN Min(I) ELSE 0, NEW f, f = IF i = 0 THEN to + 1 ELSE i
    PROVE  f \in from..to + 1 /\ (f <= to => f \in I) /\ \A j \in I : f <= j
<1>1. CASE I = {}
  <2>1. f = to + 1
    BY <1>1
  <2> QED
    BY <1>1, <2>1
<1>2. CASE I # {}
  <2>1. I \in SUBSET Nat
    OBVIOUS
  <2>2. Min(I) \in I /\ \A n \in I : Min(I) <= n
    BY <1>2, <2>1, MinIs
  <2>3. \A j \in from..to : j \in Nat \ {0} /\ j < to + 1
    OBVIOUS
  <2>4. Min(I) \in from..to
    BY <2>2
  <2>5. f = Min(I)
    BY <1>2, <2>3, <2>4
  <2> QED
    BY <2>2, <2>3, <2>4, <2>5
<1> QED
  BY <1>1, <1>2

\* The last of some positions in from..to, or else 0.
LEMMA LastOrIs ==
    ASSUME NEW from \in Nat \ {0}, NEW to \in Nat, NEW I \in SUBSET (from..to),
           NEW f, f = IF I # {} THEN Max(I) ELSE 0
    PROVE  f \in {0} \cup from..to /\ (f # 0 => f \in I) /\ \A j \in I : j <= f
<1>1. CASE I = {}
  BY <1>1
<1>2. CASE I # {}
  <2>1. I \in SUBSET (0..to)
    OBVIOUS
  <2>2. Max(I) \in I /\ \A n \in I : n <= Max(I)
    BY <1>2, <2>1, MaxIs
  <2> QED
    BY <1>2, <2>2
<1> QED
  BY <1>1, <1>2

\* The first line further left.
LEMMA EndsAt ==
    ASSUME NEW t, NEW from \in Nat \ {0}, NEW to \in Nat, from <= to + 1,
           NEW f, f = FirstOr(t, from, to, EndsEntry)
    PROVE  /\ f \in from..to + 1
           /\ f <= to => EndsEntry(t[f])
           /\ \A j \in from..f - 1 : ~EndsEntry(t[j])
<1> DEFINE I == {i \in from..to : EndsEntry(t[i])}
           i == IF I # {} THEN Min(I) ELSE 0
<1>1. f = IF i = 0 THEN to + 1 ELSE i
  BY DEF FirstOr, SelectInSubSeq
<1>2. f \in from..to + 1 /\ (f <= to => f \in I) /\ \A j \in I : f <= j
  <2>1. I \in SUBSET (from..to)
    OBVIOUS
  <2>2. i = IF I # {} THEN Min(I) ELSE 0
    OBVIOUS
  <2> HIDE DEF I, i
  <2> QED
    BY <1>1, <2>1, <2>2, FirstOrIs
<1>3. f <= to => EndsEntry(t[f])
  BY <1>2
<1>4. ASSUME NEW j \in from..f - 1, EndsEntry(t[j]) PROVE FALSE
  <2>1. j \in from..to
    BY <1>2
  <2>2. f <= j
    BY <1>2, <1>4, <2>1
  <2> QED
    BY <1>2, <2>1, <2>2
<1> QED
  BY <1>2, <1>3, <1>4

\* The section of an OS: its header, `builds:`, and what there is up to the next OS.
LEMMA SectionIs ==
    ASSUME NEW t \in Seq(Lines), NEW o, SectionFound(t, o),
           NEW b, b = BuildsIdx(t, o), NEW u, u = OuterEnd(t, o)
    PROVE  /\ b \in 2..Len(t) /\ t[b - 1] = PlainOS(o) /\ t[b] = BuildsLine
           /\ b - 1 \in OSesIn(t)
           /\ u \in b + 1..Len(t) + 1
           /\ u <= Len(t) => IsOS(t[u])
           /\ \A i \in b..u - 1 : i \notin OSesIn(t)
           /\ \A i \in b..u : SectionOf(t, i) = b - 1
<1>0. DOMAIN t = 1..Len(t) /\ Len(t) \in Nat /\ \A i \in 1..Len(t) : t[i] \in Lines
  BY PositionsAre
<1>1. b \in 2..Len(t) /\ t[b - 1] = PlainOS(o) /\ t[b] = BuildsLine
  <2> DEFINE I == {i \in 1..Len(t) : t[i] = PlainOS(o)}
  <2>1. OSIdx(t, o) = IF I # {} THEN Min(I) ELSE 0
    BY DEF OSIdx, SelectInSeq
  <2>2. OSIdx(t, o) # 0 /\ b = OSIdx(t, o) + 1 /\ b <= Len(t) /\ t[b] = BuildsLine
    BY DEF SectionFound, BuildsIdx
  <2>3. I # {} /\ I \in SUBSET Nat
    BY <2>1, <2>2
  <2>4. OSIdx(t, o) \in I
    <3> HIDE DEF I
    <3> QED
      BY <2>1, <2>3, MinIs
  <2> QED
    BY <1>0, <2>2, <2>4
<1>2. b - 1 \in OSesIn(t) /\ b \notin OSesIn(t)
  <2>1. b - 1 \in 1..Len(t) /\ b \in 1..Len(t) /\ t[b] \in Lines
    BY <1>0, <1>1
  <2>2. IsOS(t[b - 1])
    BY <1>1, HeaderFacts
  <2>3. ~IsOS(t[b])
    BY <1>1, <2>1, LineFacts
  <2> QED
    BY <1>0, <2>1, <2>2, <2>3 DEF OSesIn
<1>3. /\ u \in b + 1..Len(t) + 1
      /\ u <= Len(t) => u \in OSesIn(t)
      /\ \A i \in b + 1..u - 1 : i \notin OSesIn(t)
  <2> DEFINE from == b + 1
             to == Len(t)
             I == {j \in from..to : IsOS(t[j])}
             i == IF I # {} THEN Min(I) ELSE 0
  <2>1. u = IF i = 0 THEN to + 1 ELSE i
    BY DEF OuterEnd, FirstOr, SelectInSubSeq
  <2>2. from \in Nat \ {0} /\ to \in Nat /\ from <= to + 1 /\ I \in SUBSET (from..to)
    BY <1>0, <1>1
  <2>3. u \in from..to + 1 /\ (u <= to => u \in I) /\ \A j \in I : u <= j
    <3>1. i = IF I # {} THEN Min(I) ELSE 0
      OBVIOUS
    <3> HIDE DEF I, i, from, to
    <3> QED
      BY <2>1, <2>2, <3>1, FirstOrIs
  <2>4. u <= Len(t) => u \in OSesIn(t)
    BY <1>0, <1>1, <2>3 DEF OSesIn
  <2>5. ASSUME NEW j \in b + 1..u - 1, j \in OSesIn(t) PROVE FALSE
    <3>1. j \in I
      BY <1>0, <1>1, <2>5 DEF OSesIn
    <3>2. u <= j
      BY <2>3, <3>1
    <3> QED
      BY <1>1, <2>3, <2>5, <3>2
  <2> QED
    BY <2>3, <2>4, <2>5
<1>4. \A i \in b..u - 1 : i \notin OSesIn(t)
  BY <1>0, <1>1, <1>2, <1>3
<1>5. ASSUME NEW i \in b..u PROVE SectionOf(t, i) = b - 1
  <2>1. Prev(OSesIn(t), i, b - 1) /\ i \in 1..Len(t) + 1
    BY <1>0, <1>1, <1>2, <1>3, <1>4 DEF Prev
  <2> QED
    BY <2>1, SearchesOnly
<1>6. u <= Len(t) => IsOS(t[u])
  BY <1>3 DEF OSesIn
<1> QED
  BY <1>1, <1>2, <1>3, <1>4, <1>5, <1>6

\* Where insertBuild puts an entry.
LEMMA PointIs ==
    ASSUME NEW t \in Seq(Lines), NEW o, SectionFound(t, o),
           NEW b, b = BuildsIdx(t, o), NEW u, u = OuterEnd(t, o), NEW n, n = InsertPoint(t, o)
    PROVE  /\ n \in b + 1..u
           /\ n # b + 1 /\ n <= Len(t) => EndsEntry(t[n])
           /\ n <= Len(t) /\ ~EndsEntry(t[n]) =>
                 n = b + 1 /\ \A i \in b + 1..u - 1 : ~PlainLabel(t[i])
<1>0. /\ Len(t) \in Nat /\ b \in 2..Len(t) /\ u \in b + 1..Len(t) + 1
      /\ u <= Len(t) => IsOS(t[u])
      /\ \A i \in 1..Len(t) : t[i] \in Lines
  BY SectionIs, PositionsAre
<1>1. /\ Anchor(t, o) \in {0} \cup b + 1..u - 1
      /\ \A j \in b + 1..u - 1 : j > Anchor(t, o) => ~PlainLabel(t[j])
  <2> DEFINE from == b + 1
             to == u - 1
             I == {i \in from..to : PlainLabel(t[i])}
  <2>1. Anchor(t, o) = IF I # {} THEN Max(I) ELSE 0
    BY DEF Anchor, SelectLastInSubSeq
  <2>2. from \in Nat \ {0} /\ to \in Nat /\ I \in SUBSET (from..to)
    BY <1>0
  <2>3. Anchor(t, o) \in {0} \cup from..to /\ \A j \in I : j <= Anchor(t, o)
    <3> DEFINE a == Anchor(t, o)
    <3>1. a = IF I # {} THEN Max(I) ELSE 0
      BY <2>1
    <3> HIDE DEF I, from, to, a
    <3>2. a \in {0} \cup from..to /\ \A j \in I : j <= a
      BY <2>2, <3>1, LastOrIs
    <3> QED
      BY <3>2 DEF a
  <2> QED
    BY <1>0, <2>3
<1>2. CASE Anchor(t, o) = 0
  <2>1. n = b + 1
    BY <1>2 DEF InsertPoint
  <2>2. \A j \in b + 1..u - 1 : ~PlainLabel(t[j])
    BY <1>0, <1>1, <1>2
  <2> QED
    BY <1>0, <2>1, <2>2
<1>3. CASE Anchor(t, o) # 0
  <2> DEFINE a == Anchor(t, o)
  <2>1. n = FirstOr(t, a + 1, u - 1, EndsEntry)
    BY <1>3 DEF InsertPoint
  <2>2. a + 1 \in Nat \ {0} /\ u - 1 \in Nat /\ a + 1 <= u - 1 + 1 /\ a \in b + 1..u - 1
    BY <1>0, <1>1, <1>3
  <2>3. n \in a + 1..u - 1 + 1 /\ (n <= u - 1 => EndsEntry(t[n]))
    <3> DEFINE from == a + 1
               to == u - 1
    <3>1. from \in Nat \ {0} /\ to \in Nat /\ from <= to + 1 /\ n = FirstOr(t, from, to, EndsEntry)
      BY <2>1, <2>2
    <3> HIDE DEF from, to
    <3>2. n \in from..to + 1 /\ (n <= to => EndsEntry(t[n]))
      BY <3>1, EndsAt
    <3> QED
      BY <3>2 DEF from, to
  <2>4. n = u /\ u <= Len(t) => EndsEntry(t[n])
    <3>1. u <= Len(t) => u \in 1..Len(t) /\ t[u] \in Lines
      BY <1>0
    <3> QED
      BY <1>0, <3>1, LineFacts
  <2> QED
    BY <1>0, <2>2, <2>3, <2>4
<1> QED
  BY <1>2, <1>3

\* The lines that entryLinesFor takes: the comments right above the label, the label,
\* and all up to a line further left, without the blank lines at the end.
Scan(t, o, l, st, p, en) ==
    LET b == BuildsIdx(t, o)
        u == OuterEnd(t, o)
    IN  /\ st \in b + 1..p /\ p \in b + 1..u - 1 /\ en \in p..u - 1
        /\ EntryLines(t, o, l) = SubSeq(t, st, en)
        /\ t[p] = LabelLine(l, FALSE)
        /\ \A j \in st..p - 1 : t[j] = Comment(6)
        /\ st # b + 1 => t[st - 1] # Comment(6)
        /\ \A j \in p + 1..en : ~EndsEntry(t[j])
        /\ \A j \in en + 1..Len(t) : t[j] = Blank \/ \E k \in en + 1..j : EndsEntry(t[k])

LEMMA LabelFound ==
    ASSUME NEW t \in Seq(Lines), NEW o, SectionFound(t, o), NEW l
    PROVE  /\ LabelIdx(t, o, l) # 0 =>
                 /\ LabelIdx(t, o, l) \in BuildsIdx(t, o) + 1..OuterEnd(t, o) - 1
                 /\ t[LabelIdx(t, o, l)] = LabelLine(l, FALSE)
           /\ \A i \in BuildsIdx(t, o) + 1..OuterEnd(t, o) - 1 :
                 t[i] = LabelLine(l, FALSE) => LabelIdx(t, o, l) # 0
<1> DEFINE b == BuildsIdx(t, o)
           u == OuterEnd(t, o)
           I == {i \in b + 1..u - 1 : t[i] = LabelLine(l, FALSE)}
<1>1. b \in Nat /\ u \in Nat
  BY SectionIs, PositionsAre
<1>2. LabelIdx(t, o, l) = IF I # {} THEN Min(I) ELSE 0
  BY DEF LabelIdx, SelectInSubSeq
<1>3. I \in SUBSET Nat /\ \A i \in I : i # 0
  <2> HIDE DEF b, u
  <2>1. \A i \in b + 1..u - 1 : i \in Nat /\ i # 0
    BY <1>1
  <2> QED
    BY <2>1
<1>4. I # {} => Min(I) \in I
  <2> HIDE DEF I
  <2> QED
    BY <1>3, MinIs
<1>5. LabelIdx(t, o, l) # 0 => LabelIdx(t, o, l) \in I
  <2> HIDE DEF I
  <2> QED
    BY <1>2, <1>4
<1>6. I # {} => LabelIdx(t, o, l) # 0
  <2> HIDE DEF I
  <2> QED
    BY <1>2, <1>3, <1>4
<1> QED
  BY <1>5, <1>6

LEMMA StartIs ==
    ASSUME NEW t \in Seq(Lines), NEW o, SectionFound(t, o), NEW l, LabelIdx(t, o, l) # 0,
           NEW b, b = BuildsIdx(t, o), NEW p, p = LabelIdx(t, o, l), NEW st, st = StartIdx(t, o, l)
    PROVE  /\ st \in b + 1..p
           /\ \A j \in st..p - 1 : t[j] = Comment(6)
           /\ st # b + 1 => t[st - 1] # Comment(6)
<1> DEFINE I == {i \in b + 1..p : \A j \in i..p - 1 : t[j] = Comment(6)}
<1>1. b \in Nat /\ p \in Nat /\ p >= b + 1
  <2>1. BuildsIdx(t, o) \in Nat /\ OuterEnd(t, o) \in Nat
    BY SectionIs, PositionsAre
  <2>2. p \in BuildsIdx(t, o) + 1..OuterEnd(t, o) - 1
    BY LabelFound
  <2> QED
    BY <2>1, <2>2
<1>2. st = Min(I)
  BY DEF StartIdx
<1>3. p \in I /\ I \in SUBSET Nat
  BY <1>1
<1>4. st \in I /\ \A i \in I : st <= i
  <2> HIDE DEF I
  <2> QED
    BY <1>2, <1>3, MinIs
<1>5. ASSUME st # b + 1, t[st - 1] = Comment(6) PROVE FALSE
  <2>1. st - 1 \in b + 1..p /\ st \in Nat
    BY <1>1, <1>4, <1>5
  <2>2. \A j \in st - 1..p - 1 : j = st - 1 \/ j \in st..p - 1
    BY <2>1
  <2>3. \A j \in st - 1..p - 1 : t[j] = Comment(6)
    BY <1>4, <1>5, <2>2
  <2>4. st - 1 \in I
    BY <2>1, <2>3
  <2> QED
    BY <1>4, <2>1, <2>4
<1> QED
  BY <1>4, <1>5

LEMMA ScanIs ==
    ASSUME NEW t \in Seq(Lines), NEW o, SectionFound(t, o), NEW l, LabelIdx(t, o, l) # 0
    PROVE  \E st, p, en \in 1..Len(t) : Scan(t, o, l, st, p, en)
<1> DEFINE b == BuildsIdx(t, o)
           u == OuterEnd(t, o)
           p == LabelIdx(t, o, l)
           st == StartIdx(t, o, l)
           from == p + 1
           to == u - 1
           end == FirstOr(t, from, to, EndsEntry)
           before == end - 1
           I == {i \in p..before : t[i] # Blank}
           en == IF I # {} THEN Max(I) ELSE 0
<1>1. /\ Len(t) \in Nat /\ b \in 2..Len(t) /\ u \in b + 1..Len(t) + 1
      /\ u <= Len(t) => IsOS(t[u])
      /\ \A i \in 1..Len(t) : t[i] \in Lines
  BY SectionIs, PositionsAre
<1>2. p \in b + 1..u - 1 /\ t[p] = LabelLine(l, FALSE)
  BY LabelFound
<1>3. /\ st \in b + 1..p
      /\ \A j \in st..p - 1 : t[j] = Comment(6)
      /\ st # b + 1 => t[st - 1] # Comment(6)
  BY StartIs
<1>4. /\ end \in p + 1..u
      /\ end <= u - 1 => EndsEntry(t[end])
      /\ \A j \in p + 1..end - 1 : ~EndsEntry(t[j])
  <2>1. from \in Nat \ {0} /\ to \in Nat /\ from <= to + 1
    BY <1>1, <1>2
  <2>2. /\ end \in from..to + 1
        /\ end <= to => EndsEntry(t[end])
        /\ \A j \in from..end - 1 : ~EndsEntry(t[j])
    <3> DEFINE f == end
    <3>1. f = FirstOr(t, from, to, EndsEntry)
      OBVIOUS
    <3> HIDE DEF from, to, f
    <3> QED
      BY <2>1, <3>1, EndsAt
  <2> HIDE DEF end, b, u, p
  <2> QED
    BY <1>1, <1>2, <2>2
<1>5. EntryLines(t, o, l) = SubSeq(t, st, en)
  BY DEF EntryLines, SelectLastInSubSeq
<1>6. /\ en \in p..end - 1 /\ t[en] # Blank
      /\ \A j \in en + 1..end - 1 : t[j] = Blank
  <2>1. p \in I
    <3>1. t[p] # Blank
      BY <1>2 DEF LabelLine, Blank, Line
    <3> HIDE DEF end, b, u, p
    <3>2. p \in p..before
      BY <1>1, <1>2, <1>4
    <3> QED
      BY <3>1, <3>2
  <2>2. p \in Nat \ {0} /\ before \in Nat /\ I \in SUBSET (p..before)
    BY <1>1, <1>2, <1>4
  <2>3. /\ en \in {0} \cup p..before /\ (en # 0 => en \in I) /\ \A j \in I : j <= en
    <3>1. en = IF I # {} THEN Max(I) ELSE 0
      OBVIOUS
    <3> HIDE DEF I, before, p, en
    <3> QED
      BY <2>2, <3>1, LastOrIs
  <2>4. en \in I
    <3> HIDE DEF I, en
    <3> QED
      BY <2>1, <2>2, <2>3
  <2>5. ASSUME NEW j \in en + 1..end - 1, t[j] # Blank PROVE FALSE
    <3>1. j \in I
      BY <1>1, <1>2, <1>4, <2>4, <2>5
    <3> HIDE DEF I, en
    <3>2. j <= en
      BY <2>3, <3>1
    <3>3. j \in Nat /\ en \in Nat /\ j > en
      BY <2>2, <2>4, <2>5
    <3> QED
      BY <3>2, <3>3
  <2> HIDE DEF en
  <2> QED
    BY <2>4, <2>5
<1> HIDE DEF en, end, b, u, p, st
<1>7. ASSUME NEW j \in en + 1..Len(t), t[j] # Blank PROVE \E k \in en + 1..j : EndsEntry(t[k])
  <2>1. j >= end
    BY <1>1, <1>2, <1>4, <1>6, <1>7
  <2>2. end \in en + 1..j
    BY <1>1, <1>2, <1>4, <1>6, <1>7, <2>1
  <2>3. EndsEntry(t[end])
    <3>1. CASE end <= u - 1
      BY <1>4, <3>1
    <3>2. CASE end > u - 1
      <4>1. end = u /\ u <= Len(t) /\ t[u] \in Lines
        BY <1>1, <1>2, <1>4, <1>6, <1>7, <2>1, <3>2
      <4> QED
        BY <1>1, <4>1, LineFacts
    <3> QED
      BY <1>1, <1>4, <3>1, <3>2
  <2> QED
    BY <2>2, <2>3
<1>8. /\ en \in p..u - 1 /\ \A j \in p + 1..en : ~EndsEntry(t[j])
      /\ en \in 1..Len(t) /\ p \in 1..Len(t) /\ st \in 1..Len(t)
  BY <1>1, <1>2, <1>3, <1>4, <1>6
<1>9. Scan(t, o, l, st, p, en)
  BY <1>2, <1>3, <1>5, <1>7, <1>8 DEF Scan, b, u
<1> QED
  BY <1>8, <1>9

-----------------------------------------------------------------------------
(* A splice: the lines of E before line n of t. *)

Shift(i, n, m) == IF i < n THEN i ELSE i + m

IsSplice(t, n, E, y) ==
    /\ t \in Seq(Lines) /\ E \in Seq(Lines) /\ y \in Seq(Lines) /\ n \in 1..Len(t) + 1
    /\ Len(y) = Len(t) + Len(E)
    /\ \A i \in 1..Len(t) : y[Shift(i, n, Len(E))] = t[i]
    /\ \A j \in 1..Len(E) : y[n - 1 + j] = E[j]

LEMMA SpliceIs ==
    ASSUME NEW t \in Seq(Lines), NEW E \in Seq(Lines), NEW n \in 1..Len(t) + 1
    PROVE  IsSplice(t, n, E, SubSeq(t, 1, n - 1) \o E \o SubSeq(t, n, Len(t)))
<1> DEFINE A == SubSeq(t, 1, n - 1)
           B == SubSeq(t, n, Len(t))
           C == A \o E
           y == C \o B
<1>1. /\ Len(t) \in Nat /\ Len(E) \in Nat /\ n \in Nat /\ n - 1 \in Nat
      /\ \A i \in 1..Len(t) : t[i] \in Lines
  OBVIOUS
<1>2. A \in Seq(Lines) /\ Len(A) = n - 1 /\ \A i \in 1..n - 1 : A[i] = t[i]
  OBVIOUS
<1>3. B \in Seq(Lines) /\ Len(B) = Len(t) - n + 1 /\ \A i \in 1..Len(t) - n + 1 : B[i] = t[n - 1 + i]
  <2>1. \A i \in n..Len(t) : t[i] \in Lines
    BY <1>1
  <2>2. B \in Seq(Lines)
    BY <1>1, <2>1
  <2>3. Len(B) = Len(t) - n + 1
    BY <1>1
  <2>4. \A i \in 1..Len(t) - n + 1 : B[i] = t[n - 1 + i]
    BY <1>1
  <2> QED
    BY <2>2, <2>3, <2>4
<1> HIDE DEF A, B
<1>4. /\ C \in Seq(Lines) /\ Len(C) = n - 1 + Len(E)
      /\ \A i \in 1..n - 1 : C[i] = A[i]
      /\ \A j \in 1..Len(E) : C[n - 1 + j] = E[j]
  BY <1>1, <1>2
<1> HIDE DEF C
<1>5. /\ y \in Seq(Lines) /\ Len(y) = n - 1 + Len(E) + Len(B)
      /\ \A i \in 1..n - 1 + Len(E) : y[i] = C[i]
      /\ \A j \in 1..Len(B) : y[n - 1 + Len(E) + j] = B[j]
  <2>1. Len(C) \in Nat /\ Len(B) \in Nat /\ y \in Seq(Lines) /\ Len(y) = Len(C) + Len(B)
    <3>1. C \in Seq(Lines) /\ B \in Seq(Lines)
      BY <1>3, <1>4
    <3>2. Len(C) \in Nat /\ Len(B) \in Nat
      BY <3>1
    <3> QED
      BY <3>1, <3>2, ConcatProperties
  <2>2. \A i \in 1..Len(C) : y[i] = C[i]
    BY <1>3, <1>4, <2>1
  <2>3. \A j \in 1..Len(B) : y[Len(C) + j] = B[j]
    BY <1>3, <1>4, <2>1
  <2> HIDE DEF y
  <2> QED
    BY <1>4, <2>1, <2>2, <2>3
<1> HIDE DEF y
<1>6. ASSUME NEW i \in 1..Len(t) PROVE y[Shift(i, n, Len(E))] = t[i]
  <2>1. CASE i < n
    BY <1>1, <1>2, <1>4, <1>5, <2>1 DEF Shift
  <2>2. CASE i >= n
    <3>1. i - n + 1 \in 1..Len(t) - n + 1 /\ n - 1 + (i - n + 1) = i
      BY <1>1, <2>2
    <3>2. Shift(i, n, Len(E)) = n - 1 + Len(E) + (i - n + 1)
      BY <1>1, <2>2 DEF Shift
    <3> QED
      BY <1>3, <1>5, <3>1, <3>2
  <2> QED
    BY <1>1, <2>1, <2>2
<1>7. ASSUME NEW j \in 1..Len(E) PROVE y[n - 1 + j] = E[j]
  <2>1. n - 1 + j \in 1..n - 1 + Len(E)
    BY <1>1
  <2> QED
    BY <1>4, <1>5, <2>1
<1>8. Len(y) = Len(t) + Len(E)
  BY <1>1, <1>3, <1>5
<1> QED
  BY <1>5, <1>6, <1>7, <1>8 DEF IsSplice, y, C, A, B

\* The lines put in are lines of the text they come from.
LEMMA LinesCut ==
    ASSUME NEW x \in Seq(Lines), NEW st \in 1..Len(x), NEW en \in 1..Len(x), st <= en
    PROVE  /\ SubSeq(x, st, en) \in Seq(Lines) /\ Len(SubSeq(x, st, en)) = en - st + 1
           /\ \A j \in 1..en - st + 1 : SubSeq(x, st, en)[j] = x[st - 1 + j]
<1>1. \A i \in st..en : x[i] \in Lines
  OBVIOUS
<1> QED
  BY <1>1

\* A merge that is not refused splices the entry's lines in.
LEMMA MergeSplices ==
    ASSUME NEW t \in Seq(Lines), NEW s \in Sources, Mergeable(t, s)
    PROVE  \E n \in 1..Len(t) + 1, E \in Seq(Lines) :
              /\ n = InsertPoint(t, s.os) /\ E = EntryLines(s.text, s.os, s.label)
              /\ IsSplice(t, n, E, Spliced(t, s))
<1>1. SectionFound(t, s.os) /\ SectionFound(s.text, s.os) /\ LabelIdx(s.text, s.os, s.label) # 0
  BY DEF Mergeable
<1>2. s.text \in Seq(Lines)
  BY SourcesAssumption
<1>3. PICK st \in 1..Len(s.text), p \in 1..Len(s.text), en \in 1..Len(s.text) :
         Scan(s.text, s.os, s.label, st, p, en)
  BY <1>1, <1>2, ScanIs
<1>4. EntryLines(s.text, s.os, s.label) = SubSeq(s.text, st, en) /\ st <= p /\ p <= en
  BY <1>3 DEF Scan
<1>5. EntryLines(s.text, s.os, s.label) \in Seq(Lines)
  <2>1. st <= en
    BY <1>4
  <2> QED
    BY <1>2, <1>4, <2>1, LinesCut
<1>6. InsertPoint(t, s.os) \in 1..Len(t) + 1
  <2> DEFINE b == BuildsIdx(t, s.os)
             u == OuterEnd(t, s.os)
  <2>1. b \in 2..Len(t) /\ u \in b + 1..Len(t) + 1 /\ Len(t) \in Nat
    BY <1>1, SectionIs, PositionsAre
  <2>2. InsertPoint(t, s.os) \in b + 1..u
    BY <1>1, PointIs
  <2> HIDE DEF b, u
  <2> QED
    BY <2>1, <2>2
<1> QED
  BY <1>5, <1>6, SpliceIs DEF Spliced

-----------------------------------------------------------------------------
(* The config loads. *)

LEMMA NothingLoads ==
    <<>> \in Seq(Lines) /\ Loads(<<>>)
<1>1. Keys(<<>>) = {} /\ <<>> \in Seq(Lines)
  BY DEF Keys
<1> QED
  BY <1>1, LoadsIs

LEMMA TypeStep ==
    ASSUME TypeOK, [Next]_vars
    PROVE  TypeOK'
<1> USE DEF TypeOK
<1>1. ASSUME NEW l \in Typed, Type(l) PROVE TypeOK'
  <2>1. l \in Lines
    BY TypedAssumption
  <2>2. file' \in Seq(Lines) /\ Loads(file')
    BY <1>1, <2>1 DEF Type
  <2>3. last' = last /\ merges' = merges
    BY <1>1 DEF Type
  <2> QED
    BY <2>2, <2>3
<1>2. ASSUME NEW s \in Sources, Merge(s) PROVE TypeOK'
  <2>1. last' \in Sources /\ merges' \in 0..MaxMerges
    BY <1>2, BoundsAssumption DEF Merge
  <2>2. CASE Accepts(file, s)
    <3>1. file' = Spliced(file, s) /\ Mergeable(file, s) /\ Loads(Spliced(file, s))
      BY <1>2, <2>2 DEF Merge, Accepts, Valid
    <3>2. Spliced(file, s) \in Seq(Lines)
      BY <3>1, MergeSplices DEF IsSplice
    <3> QED
      BY <2>1, <3>1, <3>2
  <2>3. CASE ~Accepts(file, s)
    <3>1. file' = file
      BY <1>2, <2>3 DEF Merge
    <3> QED
      BY <2>1, <3>1
  <2> QED
    BY <2>2, <2>3
<1>3. CASE UNCHANGED vars
  BY <1>3 DEF vars
<1> QED
  BY <1>1, <1>2, <1>3 DEF Next

\* The text of the config is one that loads, whatever a person writes in it and
\* whatever is merged into it (merge.go:157-159).
THEOREM TypeCorrect == Spec => []TypeOK
<1>1. Init => TypeOK
  BY NothingLoads, SourcesAssumption, BoundsAssumption DEF Init, TypeOK
<1>2. TypeOK /\ [Next]_vars => TypeOK'
  BY TypeStep
<1> QED
  BY <1>1, <1>2, PTL DEF Spec

-----------------------------------------------------------------------------
(* What a splice does to what is above a line. *)

\* G has the positions that S has in the N lines of a text, and F in m lines put in.
Carried(S, F, G, N, n, m) ==
    /\ N \in Nat /\ m \in Nat /\ n \in 1..N + 1
    /\ S \subseteq 1..N /\ F \subseteq 1..m /\ G \subseteq 1..N + m
    /\ \A i \in 1..N : Shift(i, n, m) \in G <=> i \in S
    /\ \A j \in 1..m : n - 1 + j \in G <=> j \in F

LEMMA MovedIs ==
    ASSUME NEW S, NEW F, NEW G, NEW N, NEW n, NEW m, Carried(S, F, G, N, n, m)
    PROVE  G = Moved(S, F, n, m)
<1> USE DEF Carried
<1>1. ASSUME NEW g \in G PROVE g \in Moved(S, F, n, m)
  <2>1. CASE g < n
    <3>1. g \in 1..N /\ Shift(g, n, m) = g
      BY <2>1 DEF Shift
    <3> QED
      BY <2>1, <3>1 DEF Moved
  <2>2. CASE g >= n /\ g < n + m
    <3>1. g - (n - 1) \in 1..m /\ n - 1 + (g - (n - 1)) = g
      BY <2>2
    <3> QED
      BY <3>1 DEF Moved
  <2>3. CASE g >= n + m
    <3>1. g - m \in 1..N /\ Shift(g - m, n, m) = g /\ g - m >= n /\ g = (g - m) + m
      BY <2>3 DEF Shift
    <3>2. g - m \in S
      BY <3>1
    <3> QED
      BY <3>1, <3>2 DEF Moved
  <2> QED
    BY <2>1, <2>2, <2>3
<1>2. ASSUME NEW g \in Moved(S, F, n, m) PROVE g \in G
  <2>1. CASE g \in S /\ g < n
    <3>1. g \in 1..N /\ Shift(g, n, m) = g
      BY <2>1 DEF Shift
    <3> QED
      BY <2>1, <3>1
  <2>2. ASSUME NEW j \in F, g = n - 1 + j PROVE g \in G
    BY <2>2
  <2>3. ASSUME NEW i \in S, i >= n, g = i + m PROVE g \in G
    <3>1. i \in 1..N /\ Shift(i, n, m) = g
      BY <2>3 DEF Shift
    <3> QED
      BY <3>1
  <2> QED
    BY <2>1, <2>2, <2>3 DEF Moved
<1> QED
  BY <1>1, <1>2

LEMMA SplicePositions ==
    ASSUME NEW t, NEW n, NEW E, NEW y, IsSplice(t, n, E, y)
    PROVE  /\ OSesIn(y) = Moved(OSesIn(t), OSesIn(E), n, Len(E))
           /\ LabelsIn(y) = Moved(LabelsIn(t), LabelsIn(E), n, Len(E))
           /\ Keys(y) = Moved(Keys(t), Keys(E), n, Len(E))
<1> DEFINE N == Len(t)
           m == Len(E)
<1>1. /\ N \in Nat /\ m \in Nat /\ n \in 1..N + 1 /\ Len(y) = N + m
      /\ DOMAIN t = 1..N /\ DOMAIN E = 1..m /\ DOMAIN y = 1..N + m
      /\ \A i \in 1..N : y[Shift(i, n, m)] = t[i]
      /\ \A j \in 1..m : y[n - 1 + j] = E[j]
  BY PositionsAre DEF IsSplice
<1> HIDE DEF N, m
<1>0. N \in Nat /\ m \in Nat /\ n \in 1..N + 1
  BY <1>1
<1>2. /\ \A i \in 1..N : Shift(i, n, m) \in DOMAIN y
      /\ \A j \in 1..m : n - 1 + j \in DOMAIN y
  BY <1>1 DEF Shift
<1>3. OSesIn(y) = Moved(OSesIn(t), OSesIn(E), n, m)
  <2> DEFINE S == OSesIn(t)
             F == OSesIn(E)
             G == OSesIn(y)
  <2>1. S \subseteq 1..N /\ F \subseteq 1..m /\ G \subseteq 1..N + m
    BY <1>1 DEF OSesIn
  <2>2. \A i \in 1..N : Shift(i, n, m) \in G <=> i \in S
    BY <1>1, <1>2 DEF OSesIn
  <2>3. \A j \in 1..m : n - 1 + j \in G <=> j \in F
    BY <1>1, <1>2 DEF OSesIn
  <2> HIDE DEF S, F, G
  <2>4. Carried(S, F, G, N, n, m)
    BY <1>0, <2>1, <2>2, <2>3 DEF Carried
  <2>5. G = Moved(S, F, n, m)
    BY <2>4, MovedIs
  <2> QED
    BY <2>5 DEF S, F, G
<1>4. LabelsIn(y) = Moved(LabelsIn(t), LabelsIn(E), n, m)
  <2> DEFINE S == LabelsIn(t)
             F == LabelsIn(E)
             G == LabelsIn(y)
  <2>1. S \subseteq 1..N /\ F \subseteq 1..m /\ G \subseteq 1..N + m
    BY <1>1 DEF LabelsIn
  <2>2. \A i \in 1..N : Shift(i, n, m) \in G <=> i \in S
    BY <1>1, <1>2 DEF LabelsIn
  <2>3. \A j \in 1..m : n - 1 + j \in G <=> j \in F
    BY <1>1, <1>2 DEF LabelsIn
  <2> HIDE DEF S, F, G
  <2>4. Carried(S, F, G, N, n, m)
    BY <1>0, <2>1, <2>2, <2>3 DEF Carried
  <2>5. G = Moved(S, F, n, m)
    BY <2>4, MovedIs
  <2> QED
    BY <2>5 DEF S, F, G
<1>5. Keys(y) = Moved(Keys(t), Keys(E), n, m)
  <2> DEFINE S == Keys(t)
             F == Keys(E)
             G == Keys(y)
  <2>1. S \subseteq 1..N /\ F \subseteq 1..m /\ G \subseteq 1..N + m
    BY <1>1 DEF Keys
  <2>2. \A i \in 1..N : Shift(i, n, m) \in G <=> i \in S
    BY <1>1, <1>2 DEF Keys
  <2>3. \A j \in 1..m : n - 1 + j \in G <=> j \in F
    BY <1>1, <1>2 DEF Keys
  <2> HIDE DEF S, F, G
  <2>4. Carried(S, F, G, N, n, m)
    BY <1>0, <2>1, <2>2, <2>3 DEF Carried
  <2>5. G = Moved(S, F, n, m)
    BY <2>4, MovedIs
  <2> QED
    BY <2>5 DEF S, F, G
<1> QED
  BY <1>3, <1>4, <1>5 DEF m

\* The lines of one entry: comments, a label, the fields of the build once each with
\* comments and blank lines between, none of them further left.
OneEntry(E, q, e) ==
    /\ E \in Seq(Lines) /\ q \in 1..Len(E)
    /\ \A i \in 1..q - 1 : E[i] = Comment(6)
    /\ E[q] = LabelLine(e.label, FALSE)
    /\ \A i \in q + 1..Len(E) : E[i].kind \in {"field", "comment", "blank"} /\ ~EndsEntry(E[i])
    /\ e.build = {E[i].name : i \in {j \in q + 1..Len(E) : E[j].kind = "field"}}
    /\ \A i, j \in q + 1..Len(E) :
          E[i].kind = "field" /\ E[j].kind = "field" /\ E[i].name = E[j].name => i = j

LEMMA OneEntryKeys ==
    ASSUME NEW E, NEW q, NEW e, OneEntry(E, q, e)
    PROVE  /\ OSesIn(E) = {} /\ LabelsIn(E) = {q}
           /\ q \in Keys(E) /\ Keys(E) \subseteq q..Len(E)
           /\ \A f \in Keys(E) : E[f].kind \in {"label", "field"} /\ (f # q => E[f].kind = "field")
<1>1. /\ DOMAIN E = 1..Len(E) /\ Len(E) \in Nat /\ q \in 1..Len(E)
      /\ \A i \in 1..Len(E) : E[i] \in Lines
  BY PositionsAre DEF OneEntry
<1>2. ASSUME NEW i \in 1..q - 1 PROVE ~IsKey(E[i]) /\ ~IsOS(E[i]) /\ ~IsLabel(E[i])
  <2>1. E[i] = Comment(6) /\ E[i] \in Lines
    BY <1>1, <1>2 DEF OneEntry
  <2> QED
    BY <2>1, LineFacts
<1>3. IsLabel(E[q]) /\ ~IsOS(E[q]) /\ IsKey(E[q]) /\ E[q].kind = "label"
  <2>1. IsLabel(E[q])
    BY HeaderFacts DEF OneEntry
  <2> QED
    BY <2>1 DEF IsLabel, IsOS, IsKey
<1>4. ASSUME NEW i \in q + 1..Len(E)
      PROVE  ~IsOS(E[i]) /\ ~IsLabel(E[i]) /\ (IsKey(E[i]) => E[i].kind = "field")
  BY DEF OneEntry, IsOS, IsLabel, IsKey
<1>5. \A i \in 1..Len(E) : i \in 1..q - 1 \/ i = q \/ i \in q + 1..Len(E)
  BY <1>1
<1> QED
  BY <1>1, <1>2, <1>3, <1>4, <1>5 DEF OSesIn, LabelsIn, Keys

\* What is above the lines put in: their own label and fields, or what is above the place.
LEMMA PrevOfNew ==
    ASSUME NEW t, NEW n, NEW E, NEW y, IsSplice(t, n, E, y), NEW q, NEW e, OneEntry(E, q, e)
    PROVE  /\ SectionOf(y, n - 1 + q) = SectionOf(t, n)
           /\ KeyBefore(y, n - 1 + q) = KeyBefore(t, n)
           /\ \A j \in q + 1..Len(E) :
                 /\ EntryOf(y, n - 1 + j) = n - 1 + q
                 /\ \E f \in Keys(E) : KeyBefore(y, n - 1 + j) = n - 1 + f
<1> DEFINE m == Len(E)
<1>1. /\ m \in Nat /\ n \in 1..Len(t) + 1 /\ n \in Nat \ {0} /\ Len(t) \in Nat /\ q \in 1..m
      /\ Len(y) = Len(t) + m /\ t \in Seq(Lines) /\ y \in Seq(Lines) /\ E \in Seq(Lines)
  BY PositionsAre DEF IsSplice, OneEntry
<1>2. /\ OSesIn(E) = {} /\ LabelsIn(E) = {q}
      /\ q \in Keys(E) /\ Keys(E) \subseteq q..m
  BY OneEntryKeys
<1>3. /\ OSesIn(y) = Moved(OSesIn(t), OSesIn(E), n, m)
      /\ LabelsIn(y) = Moved(LabelsIn(t), LabelsIn(E), n, m)
      /\ Keys(y) = Moved(Keys(t), Keys(E), n, m)
  BY SplicePositions
<1>4. /\ OSesIn(t) \subseteq Nat \ {0} /\ LabelsIn(t) \subseteq Nat \ {0} /\ Keys(t) \subseteq Nat \ {0}
      /\ OSesIn(E) \subseteq 1..m /\ LabelsIn(E) \subseteq 1..m /\ Keys(E) \subseteq 1..m
  BY <1>1, PositionsAre
<1> HIDE DEF m
<1>5. ASSUME NEW j \in 1..m PROVE n - 1 + j \in 1..Len(y) + 1
  BY <1>1
<1>6. SectionOf(y, n - 1 + q) = SectionOf(t, n)
  <2> DEFINE S == OSesIn(t)
             F == OSesIn(E)
             k == SectionOf(t, n)
  <2>1. Prev(S, n, k)
    BY <1>1, SearchesAre
  <2>2. Prev(F, q, 0)
    BY <1>1, <1>2 DEF Prev
  <2>3. S \subseteq Nat \ {0} /\ F \subseteq 1..m
    BY <1>4
  <2> HIDE DEF S, F, k
  <2>4. Prev(Moved(S, F, n, m), n - 1 + q, k)
    BY <1>1, <2>1, <2>2, <2>3, PrevWithin
  <2> QED
    BY <1>1, <1>3, <1>5, <2>4, SearchesOnly DEF S, F, k
<1>7. KeyBefore(y, n - 1 + q) = KeyBefore(t, n)
  <2> DEFINE S == Keys(t)
             F == Keys(E)
             k == KeyBefore(t, n)
  <2>1. Prev(S, n, k)
    BY <1>1, SearchesAre
  <2>2. Prev(F, q, 0)
    BY <1>1, <1>2 DEF Prev
  <2>3. S \subseteq Nat \ {0} /\ F \subseteq 1..m
    BY <1>4
  <2> HIDE DEF S, F, k
  <2>4. Prev(Moved(S, F, n, m), n - 1 + q, k)
    BY <1>1, <2>1, <2>2, <2>3, PrevWithin
  <2> QED
    BY <1>1, <1>3, <1>5, <2>4, SearchesOnly DEF S, F, k
<1>8. ASSUME NEW j \in q + 1..m
      PROVE  /\ EntryOf(y, n - 1 + j) = n - 1 + q
             /\ \E f \in Keys(E) : KeyBefore(y, n - 1 + j) = n - 1 + f
  <2>0. j \in 1..m /\ j \in Nat /\ n - 1 + j \in 1..Len(y) + 1
    BY <1>1, <1>5
  <2>1. EntryOf(y, n - 1 + j) = n - 1 + q
    <3> DEFINE S == LabelsIn(t)
               F == LabelsIn(E)
               k == EntryOf(t, n)
    <3>1. Prev(S, n, k)
      BY <1>1, SearchesAre
    <3>2. Prev(F, j, q) /\ q # 0
      BY <1>1, <1>2 DEF Prev
    <3>3. S \subseteq Nat \ {0} /\ F \subseteq 1..m
      BY <1>4
    <3> HIDE DEF S, F, k
    <3>4. Prev(Moved(S, F, n, m), n - 1 + j, n - 1 + q)
      BY <1>1, <2>0, <3>1, <3>2, <3>3, PrevWithin
    <3> QED
      BY <1>1, <1>3, <2>0, <3>4, SearchesOnly DEF S, F, k
  <2>2. PICK f \in Keys(E) : Prev(Keys(E), j, f)
    <3>1. j \in 1..Len(E) + 1
      BY <1>1, <2>0 DEF m
    <3>2. Prev(Keys(E), j, KeyBefore(E, j))
      BY <1>1, <3>1, SearchesAre
    <3>3. KeyBefore(E, j) # 0
      BY <1>1, <1>2, <3>2 DEF Prev
    <3> QED
      BY <3>2, <3>3 DEF Prev
  <2>3. KeyBefore(y, n - 1 + j) = n - 1 + f
    <3> DEFINE S == Keys(t)
               F == Keys(E)
               k == KeyBefore(t, n)
    <3>1. Prev(S, n, k)
      BY <1>1, SearchesAre
    <3>2. Prev(F, j, f) /\ f # 0
      BY <1>1, <1>2, <2>2
    <3>3. S \subseteq Nat \ {0} /\ F \subseteq 1..m
      BY <1>4
    <3> HIDE DEF S, F, k
    <3>4. Prev(Moved(S, F, n, m), n - 1 + j, n - 1 + f)
      BY <1>1, <2>0, <3>1, <3>2, <3>3, PrevWithin
    <3> QED
      BY <1>1, <1>3, <2>0, <3>4, SearchesOnly DEF S, F, k
  <2> QED
    BY <2>1, <2>3
<1> QED
  BY <1>6, <1>7, <1>8 DEF m

\* What the lines put in have no header of, their place does not cut off from its section.
LEMMA SectionOfOld ==
    ASSUME NEW t, NEW n, NEW E, NEW y, IsSplice(t, n, E, y), OSesIn(E) = {},
           NEW m, m = Len(E), NEW i \in 1..Len(t)
    PROVE  SectionOf(y, Shift(i, n, m)) = Shift(SectionOf(t, i), n, m)
<1> DEFINE S == OSesIn(t)
           F == OSesIn(E)
           k == SectionOf(t, i)
           G == Moved(S, F, n, m)
           a == Shift(i, n, m)
<1>1. /\ m \in Nat /\ n \in 1..Len(t) + 1 /\ n \in Nat \ {0} /\ Len(t) \in Nat
      /\ Len(y) = Len(t) + m /\ t \in Seq(Lines) /\ y \in Seq(Lines) /\ E \in Seq(Lines)
  BY PositionsAre DEF IsSplice
<1>2. OSesIn(y) = G
  BY SplicePositions
<1>3. /\ i \in Nat /\ a \in 1..Len(y) + 1
      /\ i < n => a = i /\ i \in 1..n
      /\ i >= n => a = i + m
  BY <1>1 DEF Shift
<1>4. Prev(S, i, k)
  <2>1. i \in 1..Len(t) + 1
    BY <1>1
  <2> QED
    BY <1>1, <2>1, SearchesAre
<1>5. S \subseteq Nat \ {0} /\ F \subseteq 1..m /\ k \in 0..i - 1 /\ Prev(F, m + 1, 0)
  BY <1>1, <1>4, PositionsAre DEF Prev
<1>6. \A h : Prev(G, a, h) => SectionOf(y, a) = h
  BY <1>1, <1>2, <1>3, SearchesOnly
<1> HIDE DEF S, F, k, a
<1>7. CASE i < n
  <2>1. Prev(G, i, k)
    BY <1>1, <1>3, <1>4, <1>5, <1>7, PrevAbove
  <2>2. Shift(k, n, m) = k
    BY <1>1, <1>3, <1>5, <1>7 DEF Shift
  <2> QED
    BY <1>3, <1>6, <1>7, <2>1, <2>2 DEF k, a
<1>8. CASE i >= n /\ k >= n
  <2>1. Prev(G, i + m, k + m)
    BY <1>1, <1>3, <1>4, <1>5, <1>8, PrevBelow
  <2>2. Shift(k, n, m) = k + m
    BY <1>1, <1>3, <1>5, <1>8 DEF Shift
  <2> QED
    BY <1>3, <1>6, <1>8, <2>1, <2>2 DEF k, a
<1>9. CASE i >= n /\ k < n
  <2>1. Prev(G, i + m, k)
    BY <1>1, <1>3, <1>4, <1>5, <1>9, PrevJustBelow
  <2>2. Shift(k, n, m) = k
    BY <1>9 DEF Shift
  <2> QED
    BY <1>3, <1>6, <1>9, <2>1, <2>2 DEF k, a
<1> QED
  BY <1>1, <1>3, <1>5, <1>7, <1>8, <1>9

\* What is above a line of the text moves with it, but for the fields right below the
\* place: the new entry is above them.
LEMMA PrevOfOld ==
    ASSUME NEW t, NEW n, NEW E, NEW y, IsSplice(t, n, E, y), NEW q, NEW e, OneEntry(E, q, e),
           NEW m, m = Len(E), NEW i \in 1..Len(t)
    PROVE  /\ SectionOf(y, Shift(i, n, m)) = Shift(SectionOf(t, i), n, m)
           /\ IF i >= n /\ EntryOf(t, i) < n
              THEN EntryOf(y, Shift(i, n, m)) = n - 1 + q
              ELSE EntryOf(y, Shift(i, n, m)) = Shift(EntryOf(t, i), n, m)
           /\ IF i >= n /\ KeyBefore(t, i) < n
              THEN \E f \in Keys(E) : KeyBefore(y, Shift(i, n, m)) = n - 1 + f
              ELSE KeyBefore(y, Shift(i, n, m)) = Shift(KeyBefore(t, i), n, m)
<1>1. /\ m \in Nat /\ n \in 1..Len(t) + 1 /\ n \in Nat \ {0} /\ Len(t) \in Nat /\ q \in 1..m
      /\ Len(y) = Len(t) + m /\ t \in Seq(Lines) /\ y \in Seq(Lines) /\ E \in Seq(Lines)
  BY PositionsAre DEF IsSplice, OneEntry
<1>2. /\ OSesIn(E) = {} /\ LabelsIn(E) = {q}
      /\ q \in Keys(E) /\ Keys(E) \subseteq q..m
  BY OneEntryKeys
<1>3. /\ OSesIn(y) = Moved(OSesIn(t), OSesIn(E), n, m)
      /\ LabelsIn(y) = Moved(LabelsIn(t), LabelsIn(E), n, m)
      /\ Keys(y) = Moved(Keys(t), Keys(E), n, m)
  BY SplicePositions
<1>4. /\ OSesIn(t) \subseteq Nat \ {0} /\ LabelsIn(t) \subseteq Nat \ {0} /\ Keys(t) \subseteq Nat \ {0}
      /\ OSesIn(E) \subseteq 1..m /\ LabelsIn(E) \subseteq 1..m /\ Keys(E) \subseteq 1..m
  BY <1>1, PositionsAre
<1>5. /\ i \in Nat /\ Shift(i, n, m) \in 1..Len(y) + 1
      /\ i < n => Shift(i, n, m) = i /\ i \in 1..n
      /\ i >= n => Shift(i, n, m) = i + m
  BY <1>1 DEF Shift
<1>6. /\ Prev(OSesIn(t), i, SectionOf(t, i)) /\ Prev(LabelsIn(t), i, EntryOf(t, i))
      /\ Prev(Keys(t), i, KeyBefore(t, i))
  BY <1>1, SearchesAre
<1>7. /\ SectionOf(t, i) \in 0..i - 1 /\ EntryOf(t, i) \in 0..i - 1 /\ KeyBefore(t, i) \in 0..i - 1
  BY <1>6 DEF Prev
<1>8. /\ Prev(OSesIn(E), m + 1, 0) /\ Prev(LabelsIn(E), m + 1, q) /\ q # 0
  BY <1>1, <1>2 DEF Prev
<1>9. PICK f \in Keys(E) : Prev(Keys(E), m + 1, f)
  <2>1. m + 1 \in 1..Len(E) + 1
    BY <1>1
  <2>2. Prev(Keys(E), m + 1, KeyBefore(E, m + 1))
    BY <1>1, <2>1, SearchesAre
  <2>3. KeyBefore(E, m + 1) # 0
    BY <1>1, <1>2, <2>2 DEF Prev
  <2> QED
    BY <2>2, <2>3 DEF Prev
<1>10. f # 0
  BY <1>4
<1>11. SectionOf(y, Shift(i, n, m)) = Shift(SectionOf(t, i), n, m)
  BY <1>2, SectionOfOld
<1>12. IF i >= n /\ EntryOf(t, i) < n
       THEN EntryOf(y, Shift(i, n, m)) = n - 1 + q
       ELSE EntryOf(y, Shift(i, n, m)) = Shift(EntryOf(t, i), n, m)
  <2> DEFINE S == LabelsIn(t)
             F == LabelsIn(E)
             k == EntryOf(t, i)
             G == Moved(S, F, n, m)
             a == Shift(i, n, m)
  <2>1. S \subseteq Nat \ {0} /\ F \subseteq 1..m /\ Prev(S, i, k) /\ k \in 0..i - 1 /\ Prev(F, m + 1, q)
    BY <1>4, <1>6, <1>7, <1>8
  <2>2. a \in 1..Len(y) + 1 /\ (i < n => a = i) /\ (i >= n => a = i + m)
    BY <1>5
  <2>0. \A h : Prev(G, a, h) => EntryOf(y, a) = h
    BY <1>1, <1>3, <2>2, SearchesOnly
  <2> HIDE DEF S, F, k, a
  <2>3. CASE i < n
    <3>1. Prev(G, i, k)
      BY <1>1, <1>5, <2>1, <2>3, PrevAbove
    <3>2. Shift(k, n, m) = k
      BY <1>1, <2>1, <2>3 DEF Shift
    <3> QED
      BY <1>1, <1>5, <2>0, <2>2, <2>3, <3>1, <3>2 DEF k, a
  <2>4. CASE i >= n /\ k >= n
    <3>1. Prev(G, i + m, k + m)
      BY <1>1, <1>5, <2>1, <2>4, PrevBelow
    <3>2. Shift(k, n, m) = k + m
      BY <1>1, <2>1, <2>4 DEF Shift
    <3>3. ~(k < n)
      BY <1>1, <2>1, <2>4
    <3> QED
      BY <2>0, <2>2, <2>4, <3>1, <3>2, <3>3 DEF k, a
  <2>5. CASE i >= n /\ k < n
    <3>1. Prev(G, i + m, n - 1 + q)
      BY <1>1, <1>5, <1>8, <2>1, <2>5, PrevJustBelow
    <3> QED
      BY <2>0, <2>2, <2>5, <3>1 DEF k, a
  <2> QED
    BY <1>1, <1>5, <2>1, <2>3, <2>4, <2>5
<1>13. IF i >= n /\ KeyBefore(t, i) < n
       THEN KeyBefore(y, Shift(i, n, m)) = n - 1 + f
       ELSE KeyBefore(y, Shift(i, n, m)) = Shift(KeyBefore(t, i), n, m)
  <2> DEFINE S == Keys(t)
             F == Keys(E)
             k == KeyBefore(t, i)
             G == Moved(S, F, n, m)
             a == Shift(i, n, m)
  <2>1. S \subseteq Nat \ {0} /\ F \subseteq 1..m /\ Prev(S, i, k) /\ k \in 0..i - 1 /\ Prev(F, m + 1, f)
    BY <1>4, <1>6, <1>7, <1>9
  <2>2. a \in 1..Len(y) + 1 /\ (i < n => a = i) /\ (i >= n => a = i + m)
    BY <1>5
  <2>0. \A h : Prev(G, a, h) => KeyBefore(y, a) = h
    BY <1>1, <1>3, <2>2, SearchesOnly
  <2> HIDE DEF S, F, k, a
  <2>3. CASE i < n
    <3>1. Prev(G, i, k)
      BY <1>1, <1>5, <2>1, <2>3, PrevAbove
    <3>2. Shift(k, n, m) = k
      BY <1>1, <2>1, <2>3 DEF Shift
    <3> QED
      BY <1>1, <1>5, <2>0, <2>2, <2>3, <3>1, <3>2 DEF k, a
  <2>4. CASE i >= n /\ k >= n
    <3>1. Prev(G, i + m, k + m)
      BY <1>1, <1>5, <2>1, <2>4, PrevBelow
    <3>2. Shift(k, n, m) = k + m
      BY <1>1, <2>1, <2>4 DEF Shift
    <3>3. ~(k < n)
      BY <1>1, <2>1, <2>4
    <3> QED
      BY <2>0, <2>2, <2>4, <3>1, <3>2, <3>3 DEF k, a
  <2>5. CASE i >= n /\ k < n
    <3>1. Prev(G, i + m, n - 1 + f)
      BY <1>1, <1>5, <1>10, <2>1, <2>5, PrevJustBelow
    <3> QED
      BY <2>0, <2>2, <2>5, <3>1 DEF k, a
  <2> QED
    BY <1>1, <1>5, <2>1, <2>3, <2>4, <2>5
<1> QED
  BY <1>11, <1>12, <1>13

\* The fields right below the place that belong to the entry above it: the new entry
\* would take them over.
Stolen(t, n) == {i \in DOMAIN t : t[i].kind = "field" /\ i >= n /\ EntryOf(t, i) < n}

\* An entry's lines put into the section of its OS.
Adds(t, e, n, E, q, y) ==
    /\ Loads(t) /\ SectionFound(t, e.os) /\ n = InsertPoint(t, e.os)
    /\ e = [os |-> e.os, label |-> e.label, build |-> e.build]
    /\ IsSplice(t, n, E, y) /\ OneEntry(E, q, e)

\* Where its lines are: those of the text (Shift), those put in, and no other.
Bounds(t, n, E, q, y, m) ==
    /\ t \in Seq(Lines) /\ E \in Seq(Lines) /\ y \in Seq(Lines)
    /\ Len(t) \in Nat /\ m \in Nat /\ Len(y) = Len(t) + m
    /\ DOMAIN t = 1..Len(t) /\ DOMAIN E = 1..m /\ DOMAIN y = 1..Len(t) + m
    /\ n \in 1..Len(t) + 1 /\ n \in Nat /\ q \in 1..m /\ q \in Nat
    /\ \A i \in 1..Len(t) : Shift(i, n, m) \in 1..Len(t) + m /\ y[Shift(i, n, m)] = t[i] /\ t[i] \in Lines
    /\ \A j \in 1..m : n - 1 + j \in 1..Len(t) + m /\ y[n - 1 + j] = E[j]
    /\ \A i \in Nat, k \in Nat : Shift(i, n, m) = Shift(k, n, m) => i = k
    /\ \A i \in Nat, j \in 1..m : Shift(i, n, m) # n - 1 + j
    /\ \A a \in 1..Len(t) + m : \/ \E i \in 1..Len(t) : a = Shift(i, n, m)
                                \/ \E j \in 1..m : a = n - 1 + j

LEMMA AddsBounds ==
    ASSUME NEW t, NEW e, NEW n, NEW E, NEW q, NEW y, Adds(t, e, n, E, q, y)
    PROVE  Bounds(t, n, E, q, y, Len(E))
<1> DEFINE m == Len(E)
<1>1. /\ t \in Seq(Lines) /\ E \in Seq(Lines) /\ y \in Seq(Lines)
      /\ Len(y) = Len(t) + m /\ n \in 1..Len(t) + 1 /\ q \in 1..m
      /\ \A i \in 1..Len(t) : y[Shift(i, n, m)] = t[i]
      /\ \A j \in 1..m : y[n - 1 + j] = E[j]
  BY DEF Adds, IsSplice, OneEntry
<1>2. /\ Len(t) \in Nat /\ m \in Nat /\ \A i \in 1..Len(t) : t[i] \in Lines
      /\ DOMAIN t = 1..Len(t) /\ DOMAIN E = 1..m /\ DOMAIN y = 1..Len(t) + m
  BY <1>1, PositionsAre
<1>3. /\ \A i \in 1..Len(t) : Shift(i, n, m) \in 1..Len(t) + m
      /\ \A j \in 1..m : n - 1 + j \in 1..Len(t) + m
  BY <1>1, <1>2 DEF Shift
<1>4. /\ \A i \in Nat, k \in Nat : Shift(i, n, m) = Shift(k, n, m) => i = k
      /\ \A i \in Nat, j \in 1..m : Shift(i, n, m) # n - 1 + j
  BY <1>1, <1>2 DEF Shift
<1>5. ASSUME NEW a \in 1..Len(t) + m
      PROVE  \/ \E i \in 1..Len(t) : a = Shift(i, n, m)
             \/ \E j \in 1..m : a = n - 1 + j
  <2>1. CASE a < n
    <3>1. a \in 1..Len(t) /\ a = Shift(a, n, m)
      BY <1>1, <1>2, <2>1 DEF Shift
    <3> QED
      BY <3>1
  <2>2. CASE a >= n /\ a < n + m
    <3>1. a - (n - 1) \in 1..m /\ a = n - 1 + (a - (n - 1))
      BY <1>1, <1>2, <2>2
    <3> QED
      BY <3>1
  <2>3. CASE a >= n + m
    <3>1. a - m \in 1..Len(t) /\ a = Shift(a - m, n, m)
      BY <1>1, <1>2, <2>3 DEF Shift
    <3> QED
      BY <3>1
  <2> QED
    BY <1>1, <1>2, <2>1, <2>2, <2>3
<1> HIDE DEF m
<1>6. Bounds(t, n, E, q, y, m)
  BY <1>1, <1>2, <1>3, <1>4, <1>5 DEF Bounds
<1> QED
  BY <1>6 DEF m

\* The place is in the section, below its `builds:`.
LEMMA PlaceIs ==
    ASSUME NEW t, NEW e, NEW n, NEW E, NEW q, NEW y, Adds(t, e, n, E, q, y),
           NEW b, b = BuildsIdx(t, e.os)
    PROVE  /\ b \in 2..n - 1 /\ b \in Keys(t) /\ t[b].kind = "builds" /\ t[b] = BuildsLine
           /\ \A i \in b..n - 1 : i \notin OSesIn(t)
           /\ \A i \in b..n : SectionOf(t, i) = b - 1
           /\ b - 1 \in OSesIn(t) /\ t[b - 1].name = e.os
           /\ KeyBefore(t, n) \in b..n - 1 /\ KeyBefore(t, n) \in Keys(t)
           /\ n # b + 1 /\ n <= Len(t) => EndsEntry(t[n])
<1> DEFINE u == OuterEnd(t, e.os)
<1>1. t \in Seq(Lines) /\ Loads(t) /\ SectionFound(t, e.os) /\ n = InsertPoint(t, e.os)
      /\ Len(t) \in Nat /\ n \in 1..Len(t) + 1
  <2>1. t \in Seq(Lines) /\ Len(t) \in Nat /\ n \in 1..Len(t) + 1
    BY AddsBounds DEF Bounds
  <2> QED
    BY <2>1 DEF Adds
<1>2. /\ b \in 2..Len(t) /\ t[b - 1] = PlainOS(e.os) /\ t[b] = BuildsLine
      /\ b - 1 \in OSesIn(t)
      /\ u \in b + 1..Len(t) + 1
      /\ \A i \in b..u - 1 : i \notin OSesIn(t)
      /\ \A i \in b..u : SectionOf(t, i) = b - 1
  BY <1>1, SectionIs
<1>3. n \in b + 1..u /\ (n # b + 1 /\ n <= Len(t) => EndsEntry(t[n]))
  BY <1>1, PointIs
<1> HIDE DEF u
<1>4. b \in Keys(t) /\ t[b].kind = "builds"
  <2>1. t[b] \in Lines
    BY <1>1, <1>2
  <2>2. IsKey(t[b]) /\ t[b].kind = "builds"
    BY <1>2, <2>1, LineFacts
  <2> QED
    BY <1>1, <1>2, <2>2 DEF Keys
<1>5. Prev(Keys(t), n, KeyBefore(t, n))
  BY <1>1, SearchesAre
<1>6. KeyBefore(t, n) \in b..n - 1 /\ KeyBefore(t, n) \in Keys(t)
  BY <1>1, <1>2, <1>3, <1>4, <1>5 DEF Prev
<1>7. t[b - 1].name = e.os
  BY <1>2, HeaderFacts
<1>8. /\ b \in 2..n - 1
      /\ \A i \in b..n - 1 : i \in b..u - 1
      /\ \A i \in b..n : i \in b..u
  BY <1>1, <1>2, <1>3
<1> QED
  BY <1>2, <1>3, <1>4, <1>6, <1>7, <1>8

\* The fields of the entry at a label.
InEntry(t, i) == {j \in DOMAIN t : t[j].kind = "field" /\ EntryOf(t, j) = i}

LEMMA FieldsAre ==
    ASSUME NEW t, NEW i
    PROVE  FieldsOf(t, i) = {t[j].name : j \in InEntry(t, i)}
<1>1. InEntry(t, i) = {j \in {k \in Keys(t) : t[k].kind = "field" /\ EntryOf(t, k) = i} : TRUE}
  BY DEF InEntry, Keys, IsKey
<1>2. {k \in Keys(t) : t[k].kind = "field" /\ EntryOf(t, k) = i} = InEntry(t, i)
  BY <1>1
<1> QED
  BY <1>2 DEF FieldsOf

\* The fields of the text are where they were; those of the new entry are below its label.
LEMMA FieldsMove ==
    ASSUME NEW t, NEW e, NEW n, NEW E, NEW q, NEW y, Adds(t, e, n, E, q, y), NEW m, m = Len(E)
    PROVE  /\ \A i \in 1..Len(t), k \in Nat :
                 ~(i >= n /\ EntryOf(t, i) < n) =>
                    (Shift(i, n, m) \in InEntry(y, Shift(k, n, m)) <=> i \in InEntry(t, k))
           /\ \A j \in 1..m, k \in Nat : n - 1 + j \notin InEntry(y, Shift(k, n, m))
           /\ \A j \in 1..m : n - 1 + j \in InEntry(y, n - 1 + q) <=> j \in q + 1..m /\ E[j].kind = "field"
           /\ \A i \in 1..Len(t) : Shift(i, n, m) \in InEntry(y, n - 1 + q) <=> i \in Stolen(t, n)
           /\ \A i \in Stolen(t, n), k \in Nat : Shift(i, n, m) \notin InEntry(y, Shift(k, n, m))
<1>0. IsSplice(t, n, E, y) /\ OneEntry(E, q, e)
  BY DEF Adds
<1>1. /\ Len(t) \in Nat /\ m \in Nat /\ n \in Nat /\ q \in 1..m /\ t \in Seq(Lines)
      /\ DOMAIN t = 1..Len(t) /\ DOMAIN y = 1..Len(t) + m
      /\ \A i \in 1..Len(t) : Shift(i, n, m) \in 1..Len(t) + m /\ y[Shift(i, n, m)] = t[i]
      /\ \A j \in 1..m : n - 1 + j \in 1..Len(t) + m /\ y[n - 1 + j] = E[j]
      /\ \A i \in Nat, k \in Nat : Shift(i, n, m) = Shift(k, n, m) => i = k
      /\ \A i \in Nat, j \in 1..m : Shift(i, n, m) # n - 1 + j
  BY AddsBounds DEF Bounds
<1>2. ASSUME NEW i \in 1..Len(t)
      PROVE  /\ EntryOf(t, i) \in Nat
             /\ IF i >= n /\ EntryOf(t, i) < n
                THEN EntryOf(y, Shift(i, n, m)) = n - 1 + q
                ELSE EntryOf(y, Shift(i, n, m)) = Shift(EntryOf(t, i), n, m)
  <2>1. i \in 1..Len(t) + 1
    BY <1>1
  <2>2. EntryOf(t, i) \in Nat
    BY <1>1, <2>1, SearchesAre DEF Prev
  <2> QED
    BY <1>0, <2>2, PrevOfOld
<1>3. /\ \A j \in q + 1..m : EntryOf(y, n - 1 + j) = n - 1 + q
      /\ \A j \in 1..q : E[j].kind # "field"
  <2>1. \A j \in q + 1..m : EntryOf(y, n - 1 + j) = n - 1 + q
    BY <1>0, PrevOfNew
  <2>2. ASSUME NEW j \in 1..q, E[j].kind = "field" PROVE FALSE
    <3>1. j \in 1..m /\ DOMAIN E = 1..m
      BY <1>1, AddsBounds DEF Bounds
    <3>2. j \in Keys(E)
      BY <2>2, <3>1 DEF Keys, IsKey
    <3>3. j = q
      BY <1>0, <1>1, <3>2, OneEntryKeys
    <3>4. IsLabel(E[q])
      BY <1>0, HeaderFacts DEF OneEntry
    <3> QED
      BY <2>2, <3>3, <3>4 DEF IsLabel
  <2> QED
    BY <2>1, <2>2
<1>4. ASSUME NEW i \in 1..Len(t), NEW k \in Nat, ~(i >= n /\ EntryOf(t, i) < n)
      PROVE  Shift(i, n, m) \in InEntry(y, Shift(k, n, m)) <=> i \in InEntry(t, k)
  <2>1. EntryOf(y, Shift(i, n, m)) = Shift(EntryOf(t, i), n, m) /\ EntryOf(t, i) \in Nat
    BY <1>2, <1>4
  <2>2. EntryOf(y, Shift(i, n, m)) = Shift(k, n, m) <=> EntryOf(t, i) = k
    BY <1>1, <2>1
  <2> QED
    BY <1>1, <2>2 DEF InEntry
<1>5. ASSUME NEW j \in 1..m, NEW k \in Nat PROVE n - 1 + j \notin InEntry(y, Shift(k, n, m))
  <2>1. CASE j \in q + 1..m
    <3>1. EntryOf(y, n - 1 + j) # Shift(k, n, m)
      BY <1>1, <1>3, <2>1
    <3> QED
      BY <3>1 DEF InEntry
  <2>2. CASE j \in 1..q
    BY <1>1, <1>3, <2>2 DEF InEntry
  <2> QED
    BY <1>1, <2>1, <2>2
<1>6. ASSUME NEW j \in 1..m
      PROVE  n - 1 + j \in InEntry(y, n - 1 + q) <=> j \in q + 1..m /\ E[j].kind = "field"
  <2>1. CASE j \in q + 1..m
    BY <1>1, <1>3, <2>1 DEF InEntry
  <2>2. CASE j \in 1..q
    <3>1. y[n - 1 + j].kind # "field"
      BY <1>1, <1>3, <2>2
    <3> QED
      BY <1>1, <2>2, <3>1 DEF InEntry
  <2> QED
    BY <1>1, <2>1, <2>2
<1>7. ASSUME NEW i \in 1..Len(t)
      PROVE  Shift(i, n, m) \in InEntry(y, n - 1 + q) <=> i \in Stolen(t, n)
  <2>1. CASE i >= n /\ EntryOf(t, i) < n
    <3>1. EntryOf(y, Shift(i, n, m)) = n - 1 + q
      BY <1>2, <2>1
    <3> QED
      BY <1>1, <2>1, <3>1 DEF InEntry, Stolen
  <2>2. CASE ~(i >= n /\ EntryOf(t, i) < n)
    <3>1. EntryOf(y, Shift(i, n, m)) = Shift(EntryOf(t, i), n, m) /\ EntryOf(t, i) \in Nat
      BY <1>2, <2>2
    <3>2. EntryOf(y, Shift(i, n, m)) # n - 1 + q
      BY <1>1, <3>1
    <3> QED
      BY <2>2, <3>2 DEF InEntry, Stolen
  <2> QED
    BY <2>1, <2>2
<1>8. ASSUME NEW i \in Stolen(t, n), NEW k \in Nat PROVE Shift(i, n, m) \notin InEntry(y, Shift(k, n, m))
  <2>1. i \in 1..Len(t) /\ i >= n /\ EntryOf(t, i) < n
    BY <1>1, <1>8 DEF Stolen
  <2>2. EntryOf(y, Shift(i, n, m)) = n - 1 + q
    BY <1>2, <2>1
  <2>3. EntryOf(y, Shift(i, n, m)) # Shift(k, n, m)
    BY <1>1, <2>2
  <2> QED
    BY <2>3 DEF InEntry
<1> QED
  BY <1>4, <1>5, <1>6, <1>7, <1>8

-----------------------------------------------------------------------------
(* The sections and entries of a text that loads. *)

\* What is not a header of an OS is below one.
LEMMA KeysHaveSection ==
    ASSUME NEW t \in Seq(Lines), Loads(t), NEW i \in Keys(t), t[i].kind # "os"
    PROVE  SectionOf(t, i) \in OSesIn(t)
<1> DEFINE S == {j \in Keys(t) : t[j].kind # "os" /\ \A h \in 1..j - 1 : h \notin OSesIn(t)}
<1>0. /\ DOMAIN t = 1..Len(t) /\ Len(t) \in Nat /\ Keys(t) \subseteq 1..Len(t)
      /\ Prev(OSesIn(t), i, SectionOf(t, i)) /\ i \in Nat
  <2>1. DOMAIN t = 1..Len(t) /\ Len(t) \in Nat /\ Keys(t) \subseteq 1..Len(t)
    BY PositionsAre
  <2>2. i \in 1..Len(t) + 1
    BY <2>1
  <2> QED
    BY <2>1, <2>2, SearchesAre
<1>1. SUFFICES ASSUME S # {} PROVE FALSE
  <2>1. \E h \in 1..i - 1 : h \in OSesIn(t)
    BY <1>1
  <2> QED
    BY <1>0, <2>1 DEF Prev
<1>2. S \in SUBSET Nat
  BY <1>0
<1>3. PICK j \in S : \A h \in S : j <= h
  <2> HIDE DEF S
  <2> QED
    BY <1>1, <1>2, MinIs
<1>4. j \in Keys(t) /\ j \in 1..Len(t) /\ t[j].kind # "os" /\ t[j] \in Lines /\ IsKey(t[j])
  BY <1>0 DEF Keys
<1> DEFINE k == KeyBefore(t, j)
<1>5. k \in 0..j - 1 /\ (k # 0 => k \in Keys(t)) /\ k # 0
  <2>1. t[j].kind \in {"builds", "label", "field"}
    BY <1>4, LineFacts
  <2> QED
    BY <1>4, <2>1, Follows
<1> HIDE DEF k
<1>6. CASE IsOS(t[k])
  <2>1. k \in OSesIn(t) /\ k \in 1..j - 1
    BY <1>0, <1>5, <1>6 DEF OSesIn
  <2> QED
    BY <1>3, <2>1
<1>7. CASE ~IsOS(t[k])
  <2>1. \A h \in 1..k - 1 : h \in 1..j - 1
    BY <1>0, <1>4, <1>5
  <2>2. k \in S
    BY <1>3, <1>5, <1>7, <2>1 DEF IsOS
  <2> HIDE DEF S
  <2>3. j <= k
    BY <1>3, <2>2
  <2> QED
    BY <1>0, <1>4, <1>5, <2>3
<1> QED
  BY <1>6, <1>7

\* A field is below a label, with nothing but fields in between.
LEMMA FieldsHaveEntry ==
    ASSUME NEW t \in Seq(Lines), Loads(t), NEW i \in Keys(t), t[i].kind = "field"
    PROVE  /\ EntryOf(t, i) \in LabelsIn(t)
           /\ \A k \in Keys(t) : k > EntryOf(t, i) /\ k < i => t[k].kind = "field"
<1> DEFINE P(j) == /\ EntryOf(t, j) \in LabelsIn(t)
                   /\ \A k \in Keys(t) : k > EntryOf(t, j) /\ k < j => t[k].kind = "field"
           S == {j \in Keys(t) : t[j].kind = "field" /\ ~P(j)}
<1>0. /\ DOMAIN t = 1..Len(t) /\ Len(t) \in Nat /\ Keys(t) \subseteq 1..Len(t)
      /\ LabelsIn(t) \subseteq Keys(t)
  BY PositionsAre
<1>1. SUFFICES ASSUME S # {} PROVE FALSE
  BY <1>1
<1>2. S \in SUBSET Nat
  BY <1>0
<1>3. PICK j \in S : \A h \in S : j <= h
  <2> HIDE DEF S
  <2> QED
    BY <1>1, <1>2, MinIs
<1> HIDE DEF P
<1>4. j \in Keys(t) /\ j \in 1..Len(t) /\ t[j].kind = "field" /\ ~P(j) /\ j \in 1..Len(t) + 1
  BY <1>0, <1>3
<1> DEFINE k == KeyBefore(t, j)
<1>5. k \in 0..j - 1 /\ k \in Keys(t) /\ t[k].kind \in {"label", "field"}
  BY <1>4, Follows
<1>6. Prev(Keys(t), j, k)
  BY <1>4, SearchesAre
<1> HIDE DEF k
<1>7. k \in Nat /\ j \in Nat /\ k < j /\ k \in 1..Len(t) + 1 /\ \A h \in Keys(t) : h < j => h <= k
  BY <1>0, <1>4, <1>5, <1>6 DEF Prev
<1>8. CASE t[k].kind = "label"
  <2>1. k \in LabelsIn(t)
    BY <1>0, <1>5, <1>8 DEF LabelsIn, IsLabel
  <2>2. Prev(LabelsIn(t), j, k)
    BY <1>0, <1>5, <1>7, <2>1 DEF Prev
  <2>3. EntryOf(t, j) = k
    BY <1>4, <2>2, SearchesOnly
  <2>4. P(j)
    BY <1>0, <1>7, <2>1, <2>3 DEF P
  <2> QED
    BY <1>4, <2>4
<1>9. CASE t[k].kind = "field"
  <2>1. P(k)
    <3>1. k \notin S
      <4> HIDE DEF S
      <4>1. ~(j <= k)
        BY <1>7
      <4> QED
        BY <1>3, <4>1
    <3> QED
      BY <1>5, <1>9, <3>1
  <2>2. Prev(LabelsIn(t), k, EntryOf(t, k)) /\ k \notin LabelsIn(t)
    <3>1. k \notin LabelsIn(t)
      BY <1>9 DEF LabelsIn, IsLabel
    <3> QED
      BY <1>7, <3>1, SearchesAre
  <2>3. Prev(LabelsIn(t), j, EntryOf(t, k))
    BY <1>0, <1>5, <1>7, <2>2 DEF Prev
  <2>4. EntryOf(t, j) = EntryOf(t, k)
    BY <1>4, <2>3, SearchesOnly
  <2>5. \A h \in Keys(t) : h < j => h = k \/ h < k
    BY <1>0, <1>7
  <2>6. P(j)
    BY <1>9, <2>1, <2>4, <2>5 DEF P
  <2> QED
    BY <1>4, <2>6
<1> QED
  BY <1>5, <1>8, <1>9

\* The entry at a label.
EntryAt(t, i) == [os |-> t[SectionOf(t, i)].name, label |-> t[i].name, build |-> FieldsOf(t, i)]

LEMMA EntriesAre ==
    ASSUME NEW t
    PROVE  Entries(t) = {EntryAt(t, i) : i \in LabelsIn(t)}
BY DEF Entries, EntryAt, LabelsIn

\* A label and a section name one entry.
LEMMA EntryUnique ==
    ASSUME NEW t \in Seq(Lines), Loads(t), NEW i \in LabelsIn(t), NEW k \in LabelsIn(t),
           t[i].name = t[k].name, t[SectionOf(t, i)].name = t[SectionOf(t, k)].name
    PROVE  i = k
<1>1. i \in Keys(t) /\ k \in Keys(t) /\ t[i].kind # "os" /\ t[k].kind # "os"
  BY PositionsAre DEF LabelsIn, IsLabel
<1>2. SectionOf(t, i) \in OSesIn(t) /\ SectionOf(t, k) \in OSesIn(t)
  BY <1>1, KeysHaveSection
<1>3. SectionOf(t, i) = SectionOf(t, k)
  BY <1>2, HeadersUnique
<1> QED
  BY <1>3, HeadersUnique

\* An entry of the table is at one label.
LEMMA LabelAtIs ==
    ASSUME NEW t \in Seq(Lines), Loads(t), NEW e \in Entries(t)
    PROVE  LabelAt(t, e) \in LabelsIn(t) /\ e = EntryAt(t, LabelAt(t, e))
<1>1. PICK i \in LabelsIn(t) : e = EntryAt(t, i)
  BY EntriesAre
<1>2. /\ i \in DOMAIN t /\ IsLabel(t[i]) /\ t[i].name = e.label
      /\ t[SectionOf(t, i)].name = e.os
  BY <1>1 DEF EntryAt, LabelsIn
<1>3. /\ LabelAt(t, e) \in DOMAIN t /\ IsLabel(t[LabelAt(t, e)]) /\ t[LabelAt(t, e)].name = e.label
      /\ t[SectionOf(t, LabelAt(t, e))].name = e.os
  BY <1>2 DEF LabelAt
<1>4. LabelAt(t, e) \in LabelsIn(t)
  BY <1>3 DEF LabelsIn
<1>5. LabelAt(t, e) = i
  BY <1>2, <1>3, <1>4, EntryUnique
<1> QED
  BY <1>1, <1>4, <1>5

-----------------------------------------------------------------------------
(* The table after a splice. *)

\* Where no field is taken over, every entry keeps its fields and the new one has its own.
LEMMA FieldsAfter ==
    ASSUME NEW t, NEW e, NEW n, NEW E, NEW q, NEW y, Adds(t, e, n, E, q, y), NEW m, m = Len(E),
           Stolen(t, n) = {}
    PROVE  /\ \A k \in 1..Len(t) : FieldsOf(y, Shift(k, n, m)) = FieldsOf(t, k)
           /\ FieldsOf(y, n - 1 + q) = e.build
<1>1. Bounds(t, n, E, q, y, m)
  BY AddsBounds
<1>2. ASSUME NEW k \in 1..Len(t) PROVE FieldsOf(y, Shift(k, n, m)) = FieldsOf(t, k)
  <2> DEFINE A == InEntry(y, Shift(k, n, m))
             B == InEntry(t, k)
  <2>1. \A i \in B : i \in 1..Len(t) /\ t[i].kind = "field"
    BY <1>1 DEF InEntry, Bounds
  <2>2. \A i \in 1..Len(t) : t[i].kind = "field" => ~(i >= n /\ EntryOf(t, i) < n)
    BY <1>1 DEF Stolen, Bounds
  <2>3. ASSUME NEW a \in A PROVE \E i \in B : y[a].name = t[i].name
    <3>1. a \in 1..Len(t) + m /\ y[a].kind = "field"
      BY <1>1 DEF InEntry, Bounds
    <3>2. \A j \in 1..m : a # n - 1 + j
      BY FieldsMove
    <3>3. PICK i \in 1..Len(t) : a = Shift(i, n, m)
      BY <1>1, <3>1, <3>2 DEF Bounds
    <3>4. y[a] = t[i]
      BY <1>1, <3>3 DEF Bounds
    <3>5. i \in B
      BY <2>2, <3>1, <3>3, <3>4, FieldsMove
    <3> QED
      BY <3>4, <3>5
  <2>4. ASSUME NEW i \in B PROVE \E a \in A : y[a].name = t[i].name
    <3>1. Shift(i, n, m) \in A
      BY <2>1, <2>2, FieldsMove
    <3>2. y[Shift(i, n, m)] = t[i]
      BY <1>1, <2>1 DEF Bounds
    <3> QED
      BY <3>1, <3>2
  <2>5. FieldsOf(y, Shift(k, n, m)) = {y[a].name : a \in A} /\ FieldsOf(t, k) = {t[i].name : i \in B}
    BY FieldsAre
  <2> HIDE DEF A, B
  <2> QED
    BY <2>3, <2>4, <2>5
<1>3. FieldsOf(y, n - 1 + q) = e.build
  <2> DEFINE A == InEntry(y, n - 1 + q)
             B == {j \in q + 1..m : E[j].kind = "field"}
  <2>1. ASSUME NEW a \in A PROVE \E j \in B : y[a].name = E[j].name
    <3>1. a \in 1..Len(t) + m
      BY <1>1 DEF InEntry, Bounds
    <3>2. \A i \in 1..Len(t) : a # Shift(i, n, m)
      BY FieldsMove
    <3>3. PICK j \in 1..m : a = n - 1 + j
      BY <1>1, <3>1, <3>2 DEF Bounds
    <3>4. y[a] = E[j]
      BY <1>1, <3>3 DEF Bounds
    <3>5. j \in B
      BY <3>3, FieldsMove
    <3> QED
      BY <3>4, <3>5
  <2>2. ASSUME NEW j \in B PROVE \E a \in A : y[a].name = E[j].name
    <3>1. j \in 1..m
      BY <1>1 DEF Bounds
    <3>2. j \in q + 1..m /\ E[j].kind = "field"
      OBVIOUS
    <3>3. n - 1 + j \in A
      BY <3>1, <3>2, FieldsMove
    <3>4. y[n - 1 + j] = E[j]
      BY <1>1, <3>1 DEF Bounds
    <3> HIDE DEF A
    <3> QED
      BY <3>3, <3>4
  <2>3. FieldsOf(y, n - 1 + q) = {y[a].name : a \in A} /\ e.build = {E[j].name : j \in B}
    BY FieldsAre DEF Adds, OneEntry
  <2> HIDE DEF A, B
  <2> QED
    BY <2>1, <2>2, <2>3
<1> QED
  BY <1>2, <1>3

\* Where the lines put in and those of the text are labels.
LEMMA LabelsMove ==
    ASSUME NEW t, NEW e, NEW n, NEW E, NEW q, NEW y, Adds(t, e, n, E, q, y), NEW m, m = Len(E)
    PROVE  /\ \A i \in LabelsIn(t) : i \in 1..Len(t) /\ Shift(i, n, m) \in LabelsIn(y)
           /\ n - 1 + q \in LabelsIn(y) /\ y[n - 1 + q].name = e.label
           /\ \A a \in LabelsIn(y) : a = n - 1 + q \/ \E i \in LabelsIn(t) : a = Shift(i, n, m)
<1>1. Bounds(t, n, E, q, y, m)
  BY AddsBounds
<1>2. OneEntry(E, q, e)
  BY DEF Adds
<1>3. LabelsIn(E) = {q}
  BY <1>2, OneEntryKeys
<1>4. ASSUME NEW i \in LabelsIn(t) PROVE i \in 1..Len(t) /\ Shift(i, n, m) \in LabelsIn(y)
  BY <1>1 DEF Bounds, LabelsIn
<1>5. n - 1 + q \in LabelsIn(y) /\ y[n - 1 + q].name = e.label
  <2>1. y[n - 1 + q] = LabelLine(e.label, FALSE) /\ n - 1 + q \in DOMAIN y
    BY <1>1, <1>2 DEF Bounds, OneEntry
  <2> QED
    BY <2>1, HeaderFacts DEF LabelsIn
<1>6. ASSUME NEW a \in LabelsIn(y), a # n - 1 + q PROVE \E i \in LabelsIn(t) : a = Shift(i, n, m)
  <2>1. a \in 1..Len(t) + m /\ IsLabel(y[a])
    BY <1>1 DEF Bounds, LabelsIn
  <2>2. ASSUME NEW j \in 1..m, a = n - 1 + j PROVE FALSE
    <3>1. IsLabel(E[j]) /\ j \in DOMAIN E
      BY <1>1, <2>1, <2>2 DEF Bounds
    <3> QED
      BY <1>3, <1>6, <2>2, <3>1 DEF LabelsIn
  <2>3. PICK i \in 1..Len(t) : a = Shift(i, n, m)
    BY <1>1, <2>1, <2>2 DEF Bounds
  <2>4. i \in LabelsIn(t)
    BY <1>1, <2>1, <2>3 DEF Bounds, LabelsIn
  <2> QED
    BY <2>3, <2>4
<1> QED
  BY <1>4, <1>5, <1>6

\* The new entry is in the section of its OS, every other where it was.
LEMMA SectionsMove ==
    ASSUME NEW t, NEW e, NEW n, NEW E, NEW q, NEW y, Adds(t, e, n, E, q, y), NEW m, m = Len(E)
    PROVE  /\ y[SectionOf(y, n - 1 + q)].name = e.os
           /\ \A i \in LabelsIn(t) : y[SectionOf(y, Shift(i, n, m))] = t[SectionOf(t, i)]
<1>1. Bounds(t, n, E, q, y, m)
  BY AddsBounds
<1>2. IsSplice(t, n, E, y) /\ OneEntry(E, q, e) /\ Loads(t) /\ t \in Seq(Lines)
  BY DEF Adds, IsSplice
<1>3. y[SectionOf(y, n - 1 + q)].name = e.os
  <2> DEFINE b == BuildsIdx(t, e.os)
  <2>1. /\ b \in 2..n - 1 /\ t[b - 1].name = e.os
        /\ \A i \in b..n : SectionOf(t, i) = b - 1
    BY PlaceIs
  <2> HIDE DEF b
  <2>0. n \in Nat /\ n \in 1..Len(t) + 1 /\ Len(t) \in Nat
    BY <1>1 DEF Bounds
  <2>2. SectionOf(t, n) = b - 1 /\ b - 1 \in 1..Len(t) /\ b - 1 < n
    BY <2>0, <2>1
  <2>3. SectionOf(y, n - 1 + q) = b - 1
    BY <1>2, <2>2, PrevOfNew
  <2>4. y[b - 1] = t[b - 1]
    <3>1. Shift(b - 1, n, m) = b - 1
      BY <2>2 DEF Shift
    <3> QED
      BY <1>1, <2>2, <3>1 DEF Bounds
  <2> QED
    BY <2>1, <2>3, <2>4
<1>4. ASSUME NEW i \in LabelsIn(t) PROVE y[SectionOf(y, Shift(i, n, m))] = t[SectionOf(t, i)]
  <2>1. i \in 1..Len(t) /\ i \in Keys(t) /\ t[i].kind # "os"
    BY <1>2, PositionsAre DEF LabelsIn, IsLabel
  <2>2. SectionOf(t, i) \in 1..Len(t)
    BY <1>2, <2>1, KeysHaveSection, PositionsAre
  <2>3. SectionOf(y, Shift(i, n, m)) = Shift(SectionOf(t, i), n, m)
    BY <1>2, <2>1, PrevOfOld
  <2> QED
    BY <1>1, <2>2, <2>3 DEF Bounds
<1> QED
  BY <1>3, <1>4

\* Then the table has one entry more.
LEMMA EntriesAfter ==
    ASSUME NEW t, NEW e, NEW n, NEW E, NEW q, NEW y, Adds(t, e, n, E, q, y), Stolen(t, n) = {}
    PROVE  Entries(y) = Entries(t) \cup {e}
<1> DEFINE m == Len(E)
           Q == n - 1 + q
<1>0. m = Len(E)
  OBVIOUS
<1> HIDE DEF m
<1>1. EntryAt(y, Q) = e
  <2>1. y[SectionOf(y, Q)].name = e.os /\ y[Q].name = e.label /\ FieldsOf(y, Q) = e.build
    BY <1>0, SectionsMove, LabelsMove, FieldsAfter
  <2>2. e = [os |-> e.os, label |-> e.label, build |-> e.build]
    BY DEF Adds
  <2> HIDE DEF Q
  <2> QED
    BY <2>1, <2>2 DEF EntryAt
<1>2. ASSUME NEW i \in LabelsIn(t) PROVE EntryAt(y, Shift(i, n, m)) = EntryAt(t, i)
  <2>1. Bounds(t, n, E, q, y, m) /\ i \in 1..Len(t)
    BY <1>0, AddsBounds, LabelsMove
  <2>2. y[Shift(i, n, m)] = t[i]
    BY <2>1 DEF Bounds
  <2>3. y[SectionOf(y, Shift(i, n, m))] = t[SectionOf(t, i)]
    BY <1>0, SectionsMove
  <2>4. FieldsOf(y, Shift(i, n, m)) = FieldsOf(t, i)
    BY <1>0, <2>1, FieldsAfter
  <2> QED
    BY <2>2, <2>3, <2>4 DEF EntryAt
<1>3. /\ \A i \in LabelsIn(t) : Shift(i, n, m) \in LabelsIn(y)
      /\ Q \in LabelsIn(y)
      /\ \A a \in LabelsIn(y) : a = Q \/ \E i \in LabelsIn(t) : a = Shift(i, n, m)
  BY <1>0, LabelsMove
<1> HIDE DEF Q
<1>4. \A a \in LabelsIn(y) : EntryAt(y, a) = e \/ \E i \in LabelsIn(t) : EntryAt(y, a) = EntryAt(t, i)
  BY <1>1, <1>2, <1>3
<1>5. \A i \in LabelsIn(t) : \E a \in LabelsIn(y) : EntryAt(y, a) = EntryAt(t, i)
  BY <1>2, <1>3
<1>6. \E a \in LabelsIn(y) : EntryAt(y, a) = e
  BY <1>1, <1>3
<1> QED
  BY <1>4, <1>5, <1>6, EntriesAre

\* validateMerge lets no field be taken over: the new entry would have it twice, or
\* have a field that it does not want.
LEMMA NoneStolen ==
    ASSUME NEW t, NEW e, NEW n, NEW E, NEW q, NEW y, Adds(t, e, n, E, q, y),
           Loads(y), e \in Entries(y)
    PROVE  Stolen(t, n) = {}
<1> DEFINE m == Len(E)
           Q == n - 1 + q
<1>0. m = Len(E)
  OBVIOUS
<1> HIDE DEF m
<1>1. Bounds(t, n, E, q, y, m)
  BY <1>0, AddsBounds
<1>2. y \in Seq(Lines)
  BY <1>1 DEF Bounds
<1>3. FieldsOf(y, Q) = e.build
  <2>1. PICK a \in LabelsIn(y) : e = EntryAt(y, a)
    BY EntriesAre
  <2>2. y[a].name = e.label /\ y[SectionOf(y, a)].name = e.os /\ FieldsOf(y, a) = e.build
    BY <2>1 DEF EntryAt
  <2>3. Q \in LabelsIn(y) /\ y[Q].name = e.label /\ y[SectionOf(y, Q)].name = e.os
    BY <1>0, LabelsMove, SectionsMove
  <2> HIDE DEF Q
  <2>4. a = Q
    BY <1>2, <2>2, <2>3, EntryUnique
  <2> QED
    BY <2>2, <2>4
<1>4. ASSUME NEW z \in Stolen(t, n) PROVE FALSE
  <2> DEFINE a == Shift(z, n, m)
  <2>1. z \in 1..Len(t) /\ t[z].kind = "field" /\ z >= n
    BY <1>1 DEF Stolen, Bounds
  <2>2. a \in InEntry(y, Q) /\ y[a] = t[z]
    BY <1>1, <2>1, <1>0, FieldsMove DEF Bounds
  <2>3. y[a].name \in e.build
    BY <1>3, <2>2, FieldsAre
  <2>4. PICK j \in q + 1..m : E[j].kind = "field" /\ E[j].name = y[a].name
    BY <1>0, <2>3 DEF Adds, OneEntry
  <2>5. j \in 1..m
    BY <1>1 DEF Bounds
  <2>6. n - 1 + j \in InEntry(y, Q) /\ y[n - 1 + j] = E[j]
    <3>1. n - 1 + j \in InEntry(y, Q)
      BY <1>0, <2>4, <2>5, FieldsMove
    <3> QED
      BY <1>1, <2>5, <3>1 DEF Bounds
  <2>7. a # n - 1 + j
    <3>1. z \in Nat
      BY <1>1, <2>1 DEF Bounds
    <3> QED
      BY <1>1, <2>5, <3>1 DEF Bounds
  <2> DEFINE c == n - 1 + j
  <2> HIDE DEF a, c, Q
  <2>8. Place(y, a) = Place(y, c)
    <3>1. /\ y[a].kind = "field" /\ EntryOf(y, a) = Q /\ y[c].kind = "field" /\ EntryOf(y, c) = Q
          /\ y[c].name = y[a].name
      BY <2>2, <2>4, <2>6 DEF InEntry, c
    <3> QED
      BY <3>1 DEF Place
  <2>9. a \in Keys(y) /\ c \in Keys(y)
    BY <2>2, <2>6 DEF InEntry, Keys, IsKey, c
  <2> QED
    BY <1>2, <2>7, <2>8, <2>9, LoadsIs DEF c
<1> QED
  BY <1>4

\* Where the keys of the splice come from.
LEMMA KeysMove ==
    ASSUME NEW t, NEW e, NEW n, NEW E, NEW q, NEW y, Adds(t, e, n, E, q, y), NEW m, m = Len(E),
           NEW a \in Keys(y)
    PROVE  \/ \E i \in Keys(t) : i \in 1..Len(t) /\ a = Shift(i, n, m) /\ y[a] = t[i]
           \/ a = n - 1 + q /\ IsLabel(y[a])
           \/ \E j \in q + 1..m : j \in 1..m /\ E[j].kind = "field" /\ a = n - 1 + j /\ y[a] = E[j]
<1>1. Bounds(t, n, E, q, y, m) /\ OneEntry(E, q, e)
  BY AddsBounds DEF Adds
<1>2. a \in 1..Len(t) + m /\ IsKey(y[a])
  BY <1>1 DEF Bounds, Keys
<1>3. ASSUME NEW i \in 1..Len(t), a = Shift(i, n, m) PROVE i \in Keys(t) /\ y[a] = t[i]
  BY <1>1, <1>2, <1>3 DEF Bounds, Keys
<1>4. ASSUME NEW j \in 1..m, a = n - 1 + j
      PROVE  \/ a = n - 1 + q /\ IsLabel(y[a])
             \/ j \in q + 1..m /\ E[j].kind = "field" /\ y[a] = E[j]
  <2>1. y[a] = E[j] /\ j \in Keys(E)
    BY <1>1, <1>2, <1>4 DEF Bounds, Keys
  <2>2. j \in q..Len(E) /\ (j # q => E[j].kind = "field")
    BY <1>1, <2>1, OneEntryKeys
  <2>3. CASE j = q
    <3>1. y[a] = LabelLine(e.label, FALSE)
      BY <1>1, <2>1, <2>3 DEF OneEntry
    <3> QED
      BY <1>4, <2>3, <3>1, HeaderFacts
  <2>4. CASE j # q
    BY <1>1, <2>1, <2>2, <2>4 DEF Bounds
  <2> QED
    BY <2>3, <2>4
<1>5. \/ \E i \in 1..Len(t) : a = Shift(i, n, m)
      \/ \E j \in 1..m : a = n - 1 + j
  BY <1>1, <1>2 DEF Bounds
<1> QED
  BY <1>3, <1>4, <1>5

\* Each key of the splice comes after one that it may follow.
LEMMA KindsAfter ==
    ASSUME NEW t, NEW e, NEW n, NEW E, NEW q, NEW y, Adds(t, e, n, E, q, y), NEW m, m = Len(E),
           Stolen(t, n) = {}, NEW a \in Keys(y)
    PROVE  KindBefore(y, a) \in MayFollow(y[a].kind)
<1>1. Bounds(t, n, E, q, y, m) /\ OneEntry(E, q, e) /\ IsSplice(t, n, E, y) /\ Loads(t)
  BY AddsBounds DEF Adds
<1>2. t \in Seq(Lines) /\ DOMAIN t = 1..Len(t) /\ Len(t) \in Nat /\ m \in Nat /\ n \in Nat \ {0} /\ q \in 1..m
  BY <1>1 DEF Bounds
<1> DEFINE b == BuildsIdx(t, e.os)
<1>3. /\ b \in 2..n - 1 /\ b \in Keys(t)
      /\ \A i \in b..n - 1 : i \notin OSesIn(t)
      /\ KeyBefore(t, n) \in b..n - 1 /\ KeyBefore(t, n) \in Keys(t)
  BY PlaceIs
<1> HIDE DEF b
<1>4. ASSUME NEW f \in Keys(E), KeyBefore(y, a) = n - 1 + f PROVE KindBefore(y, a) \in {"label", "field"}
  <2>1. f \in 1..m /\ E[f].kind \in {"label", "field"}
    <3>1. f \in q..Len(E) /\ E[f].kind \in {"label", "field"}
      BY <1>1, OneEntryKeys
    <3> QED
      BY <1>2, <3>1
  <2>2. n - 1 + f # 0 /\ y[n - 1 + f] = E[f]
    BY <1>1, <1>2, <2>1 DEF Bounds
  <2> QED
    BY <1>4, <2>1, <2>2 DEF KindBefore
<1>5. ASSUME NEW i \in Keys(t), i \in 1..Len(t), a = Shift(i, n, m), y[a] = t[i]
      PROVE  KindBefore(y, a) \in MayFollow(y[a].kind)
  <2> DEFINE k == KeyBefore(t, i)
  <2>1. i \in 1..Len(t) + 1 /\ i \in Nat
    BY <1>2, <1>5
  <2>2. Prev(Keys(t), i, k) /\ Prev(LabelsIn(t), i, EntryOf(t, i))
    BY <1>2, <2>1, SearchesAre
  <2>3. k \in 0..i - 1 /\ (k # 0 => k \in 1..Len(t))
    BY <1>2, <2>1, <2>2 DEF Prev
  <2>4. KindBefore(t, i) \in MayFollow(t[i].kind)
    BY <1>1, <1>2, LoadsIs
  <2>5. CASE ~(i >= n /\ k < n)
    <3>1. KeyBefore(y, a) = Shift(k, n, m)
      BY <1>1, <1>5, <2>5, PrevOfOld
    <3> HIDE DEF k
    <3>2. CASE k = 0
      <4>1. KeyBefore(y, a) = 0
        BY <1>2, <3>1, <3>2 DEF Shift
      <4>2. KindBefore(y, a) = "none" /\ KindBefore(t, i) = "none"
        BY <3>2, <4>1 DEF KindBefore, k
      <4> QED
        BY <1>5, <2>4, <4>2
    <3>3. CASE k # 0
      <4>1. Shift(k, n, m) # 0 /\ y[Shift(k, n, m)] = t[k]
        BY <1>1, <1>2, <2>3, <3>3 DEF Bounds, Shift
      <4>2. KindBefore(y, a) = t[k].kind /\ KindBefore(t, i) = t[k].kind
        BY <3>1, <3>3, <4>1 DEF KindBefore, k
      <4> QED
        BY <1>5, <2>4, <4>2
    <3> QED
      BY <3>2, <3>3
  <2>6. CASE i >= n /\ k < n
    <3>1. PICK f \in Keys(E) : KeyBefore(y, a) = n - 1 + f
      BY <1>1, <1>5, <2>6, PrevOfOld
    <3>2. KindBefore(y, a) \in {"label", "field"}
      BY <1>4, <3>1
    <3>3. k \in b..n - 1
      <4> HIDE DEF k
      <4> QED
        BY <1>2, <1>3, <2>1, <2>2, <2>3, <2>6 DEF Prev
    <3>4. t[i].kind # "builds"
      <4>1. ~IsOS(t[k])
        <5>1. k \in DOMAIN t /\ k \notin OSesIn(t)
          BY <1>2, <1>3, <2>3, <3>3
        <5> QED
          BY <5>1 DEF OSesIn
      <4> QED
        BY <1>1, <1>2, <4>1, Follows
    <3>5. t[i].kind # "field"
      <4>1. EntryOf(t, i) < n
        <5> DEFINE h == EntryOf(t, i)
        <5>1. LabelsIn(t) \subseteq Keys(t)
          BY <1>2, PositionsAre
        <5> HIDE DEF k, h
        <5>2. h \in 0..i - 1 /\ (h # 0 => h \in Keys(t))
          BY <2>2, <5>1 DEF Prev, h
        <5>3. h <= k
          BY <2>1, <2>2, <2>3, <5>2 DEF Prev
        <5>4. h < n
          BY <1>2, <2>1, <2>3, <2>6, <5>2, <5>3
        <5> QED
          BY <5>4 DEF h
      <4>2. i \notin Stolen(t, n)
        OBVIOUS
      <4> QED
        BY <1>2, <1>5, <2>6, <4>1, <4>2 DEF Stolen
    <3>6. t[i].kind \in {"os", "label"}
      <4>1. t[i] \in Lines /\ IsKey(t[i])
        BY <1>2, <1>5 DEF Keys
      <4> QED
        BY <3>4, <3>5, <4>1, LineFacts
    <3> QED
      BY <1>5, <3>2, <3>6 DEF MayFollow
  <2> QED
    BY <2>5, <2>6
<1>6. CASE a = n - 1 + q /\ IsLabel(y[a])
  <2> DEFINE k == KeyBefore(t, n)
  <2>1. KeyBefore(y, a) = k
    BY <1>1, <1>6, PrevOfNew
  <2>2. k \in b..n - 1 /\ k \in Keys(t)
    BY <1>3
  <2> HIDE DEF k
  <2>3. k \in 1..Len(t) /\ Shift(k, n, m) = k /\ k # 0
    BY <1>2, <1>3, <2>2 DEF Shift, Keys
  <2>4. y[k] = t[k] /\ t[k] \in Lines
    BY <1>1, <2>3 DEF Bounds
  <2>5. ~IsOS(t[k]) /\ IsKey(t[k])
    BY <1>2, <1>3, <2>2, <2>3 DEF OSesIn, Keys
  <2>6. t[k].kind \in {"builds", "label", "field"}
    BY <2>4, <2>5, LineFacts DEF IsOS
  <2>7. KindBefore(y, a) = t[k].kind
    BY <2>1, <2>3, <2>4 DEF KindBefore
  <2> QED
    BY <1>6, <2>6, <2>7 DEF MayFollow, IsLabel
<1>7. ASSUME NEW j \in q + 1..m, E[j].kind = "field", a = n - 1 + j, y[a] = E[j]
      PROVE  KindBefore(y, a) \in MayFollow(y[a].kind)
  <2>1. PICK f \in Keys(E) : KeyBefore(y, a) = n - 1 + f
    BY <1>1, <1>7, PrevOfNew
  <2>2. KindBefore(y, a) \in {"label", "field"}
    BY <1>4, <2>1
  <2> QED
    BY <1>7, <2>2 DEF MayFollow
<1> QED
  BY <1>5, <1>6, <1>7, KeysMove

\* Two keys have one place when they are the same in what says where they are.
LEMMA SamePlace ==
    ASSUME NEW t \in Seq(Lines), NEW i \in Keys(t), NEW k \in Keys(t)
    PROVE  Place(t, i) = Place(t, k) <=>
              /\ t[i].kind = t[k].kind /\ t[i].name = t[k].name
              /\ t[i].kind = "field" => EntryOf(t, i) = EntryOf(t, k)
              /\ t[i].kind \in {"builds", "label"} => SectionOf(t, i) = SectionOf(t, k)
<1>1. t[i].kind \in {"os", "builds", "label", "field"}
  <2>1. t[i] \in Lines /\ IsKey(t[i])
    BY PositionsAre DEF Keys
  <2> QED
    BY <2>1, LineFacts
<1>2. CASE t[i].kind = "os"
  BY <1>2 DEF Place
<1>3. CASE t[i].kind = "field"
  BY <1>3 DEF Place
<1>4. CASE t[i].kind \in {"builds", "label"}
  BY <1>4 DEF Place
<1> QED
  BY <1>1, <1>2, <1>3, <1>4

\* Where no field is taken over and the section has no such label, no key is there twice.
LEMMA PlacesAfter ==
    ASSUME NEW t, NEW e, NEW n, NEW E, NEW q, NEW y, Adds(t, e, n, E, q, y), NEW m, m = Len(E),
           Stolen(t, n) = {},
           \A i \in LabelsIn(t) : ~(t[i].name = e.label /\ t[SectionOf(t, i)].name = e.os),
           NEW a \in Keys(y), NEW c \in Keys(y), Place(y, a) = Place(y, c)
    PROVE  a = c
<1>1. Bounds(t, n, E, q, y, m) /\ OneEntry(E, q, e) /\ IsSplice(t, n, E, y) /\ Loads(t)
  BY AddsBounds DEF Adds
<1>2. /\ t \in Seq(Lines) /\ y \in Seq(Lines) /\ DOMAIN t = 1..Len(t) /\ DOMAIN y = 1..Len(t) + m
      /\ Len(t) \in Nat /\ m \in Nat /\ n \in Nat \ {0} /\ q \in 1..m
  BY <1>1 DEF Bounds
<1> DEFINE Q == n - 1 + q
           Old(g) == \E i \in Keys(t) : i \in 1..Len(t) /\ g = Shift(i, n, m) /\ y[g] = t[i]
           Label(g) == g = Q /\ IsLabel(y[g])
           Field(g) == \E j \in q + 1..m : j \in 1..m /\ E[j].kind = "field" /\ g = n - 1 + j /\ y[g] = E[j]
<1>3. \A g \in Keys(y) : Old(g) \/ Label(g) \/ Field(g)
  BY KeysMove
<1>4. /\ y[a].kind = y[c].kind /\ y[a].name = y[c].name
      /\ y[a].kind = "field" => EntryOf(y, a) = EntryOf(y, c)
      /\ y[a].kind \in {"builds", "label"} => SectionOf(y, a) = SectionOf(y, c)
  BY <1>2, SamePlace
<1>5. ASSUME NEW g \in Keys(y), Old(g), y[g].kind = "field" PROVE EntryOf(y, g) # Q
  <2>1. PICK i \in Keys(t) : i \in 1..Len(t) /\ g = Shift(i, n, m) /\ y[g] = t[i]
    BY <1>5
  <2>2. g \notin InEntry(y, Q)
    BY <2>1, FieldsMove
  <2>3. g \in DOMAIN y
    BY DEF Keys
  <2> QED
    BY <1>5, <2>2, <2>3 DEF InEntry
<1>6. ASSUME NEW g \in Keys(y), Field(g) PROVE y[g].kind = "field" /\ EntryOf(y, g) = Q
  <2>1. PICK j \in q + 1..m : j \in 1..m /\ E[j].kind = "field" /\ g = n - 1 + j /\ y[g] = E[j]
    BY <1>6
  <2>2. g \in InEntry(y, Q)
    BY <2>1, FieldsMove
  <2> QED
    BY <2>1, <2>2 DEF InEntry
<1>7. ASSUME NEW g \in Keys(y), Old(g), IsLabel(y[g])
      PROVE  ~(y[g].name = y[Q].name /\ SectionOf(y, g) = SectionOf(y, Q))
  <2>1. PICK i \in Keys(t) : i \in 1..Len(t) /\ g = Shift(i, n, m) /\ y[g] = t[i]
    BY <1>7
  <2>2. i \in LabelsIn(t)
    BY <1>2, <1>7, <2>1 DEF LabelsIn
  <2>3. y[SectionOf(y, g)] = t[SectionOf(t, i)] /\ y[SectionOf(y, Q)].name = e.os
    BY <2>1, <2>2, SectionsMove
  <2>4. y[Q].name = e.label
    BY LabelsMove
  <2> QED
    BY <2>1, <2>2, <2>3, <2>4
<1> HIDE DEF Q
<1>8. CASE Old(a) /\ Old(c)
  <2>1. PICK i \in Keys(t) : i \in 1..Len(t) /\ a = Shift(i, n, m) /\ y[a] = t[i]
    BY <1>8
  <2>2. PICK k \in Keys(t) : k \in 1..Len(t) /\ c = Shift(k, n, m) /\ y[c] = t[k]
    BY <1>8
  <2>3. ASSUME NEW h \in 1..Len(t) PROVE SectionOf(t, h) \in Nat /\ EntryOf(t, h) \in Nat
    <3>1. h \in 1..Len(t) + 1
      BY <1>2
    <3> QED
      BY <1>2, <3>1, SearchesAre DEF Prev
  <2>4. t[i].kind = "field" => EntryOf(t, i) = EntryOf(t, k)
    <3>1. SUFFICES ASSUME t[i].kind = "field" PROVE EntryOf(t, i) = EntryOf(t, k)
      OBVIOUS
    <3>2. t[k].kind = "field"
      BY <1>4, <2>1, <2>2, <3>1
    <3>3. ~(i >= n /\ EntryOf(t, i) < n) /\ ~(k >= n /\ EntryOf(t, k) < n)
      BY <1>2, <2>1, <2>2, <3>1, <3>2 DEF Stolen
    <3>4. EntryOf(y, a) = Shift(EntryOf(t, i), n, m) /\ EntryOf(y, c) = Shift(EntryOf(t, k), n, m)
      BY <1>1, <2>1, <2>2, <3>3, PrevOfOld
    <3>5. Shift(EntryOf(t, i), n, m) = Shift(EntryOf(t, k), n, m)
      BY <1>4, <2>1, <3>1, <3>4
    <3> QED
      BY <1>1, <2>1, <2>2, <2>3, <3>5 DEF Bounds
  <2>5. t[i].kind \in {"builds", "label"} => SectionOf(t, i) = SectionOf(t, k)
    <3>1. SectionOf(y, a) = Shift(SectionOf(t, i), n, m) /\ SectionOf(y, c) = Shift(SectionOf(t, k), n, m)
      BY <1>1, <2>1, <2>2, PrevOfOld
    <3> QED
      BY <1>1, <1>4, <2>1, <2>2, <2>3, <3>1 DEF Bounds
  <2>6. Place(t, i) = Place(t, k)
    BY <1>2, <1>4, <2>1, <2>2, <2>4, <2>5, SamePlace
  <2>7. i = k
    BY <1>1, <1>2, <2>6, LoadsIs
  <2> QED
    BY <2>1, <2>2, <2>7
<1>9. CASE Field(a) /\ Field(c)
  <2>1. PICK i \in q + 1..m : i \in 1..m /\ E[i].kind = "field" /\ a = n - 1 + i /\ y[a] = E[i]
    BY <1>9
  <2>2. PICK k \in q + 1..m : k \in 1..m /\ E[k].kind = "field" /\ c = n - 1 + k /\ y[c] = E[k]
    BY <1>9
  <2>3. i = k
    BY <1>1, <1>4, <2>1, <2>2 DEF OneEntry
  <2> QED
    BY <2>1, <2>2, <2>3
<1>10. CASE Label(a) /\ Label(c)
  BY <1>10
<1>11. CASE Old(a) /\ Field(c)
  BY <1>4, <1>5, <1>6, <1>11
<1>12. CASE Field(a) /\ Old(c)
  BY <1>4, <1>5, <1>6, <1>12
<1>13. CASE Label(a) /\ Field(c)
  BY <1>4, <1>6, <1>13 DEF IsLabel
<1>14. CASE Field(a) /\ Label(c)
  BY <1>4, <1>6, <1>14 DEF IsLabel
<1>15. CASE Old(a) /\ Label(c)
  BY <1>4, <1>7, <1>15 DEF IsLabel
<1>16. CASE Label(a) /\ Old(c)
  BY <1>4, <1>7, <1>16 DEF IsLabel
<1> HIDE DEF Old, Label, Field
<1> QED
  BY <1>3, <1>8, <1>9, <1>10, <1>11, <1>12, <1>13, <1>14, <1>15, <1>16

LEMMA LoadsAfter ==
    ASSUME NEW t, NEW e, NEW n, NEW E, NEW q, NEW y, Adds(t, e, n, E, q, y),
           Stolen(t, n) = {},
           \A i \in LabelsIn(t) : ~(t[i].name = e.label /\ t[SectionOf(t, i)].name = e.os)
    PROVE  Loads(y)
<1> DEFINE m == Len(E)
<1>0. m = Len(E)
  OBVIOUS
<1> HIDE DEF m
<1>1. y \in Seq(Lines)
  BY <1>0, AddsBounds DEF Bounds
<1>2. \A a \in Keys(y) : KindBefore(y, a) \in MayFollow(y[a].kind)
  BY <1>0, KindsAfter
<1>3. \A a, c \in Keys(y) : Place(y, a) = Place(y, c) => a = c
  BY <1>0, PlacesAfter
<1> QED
  BY <1>1, <1>2, <1>3, LoadsIs

-----------------------------------------------------------------------------
(* What entryLinesFor takes from a -c file. *)

\* The last line of an entry.
LEMMA LastFieldIs ==
    ASSUME NEW t \in Seq(Lines), NEW i \in 1..Len(t)
    PROVE  /\ LastField(t, i) \in i..Len(t)
           /\ LastField(t, i) = i \/ LastField(t, i) \in InEntry(t, i)
           /\ \A j \in InEntry(t, i) : j > i /\ j <= LastField(t, i)
<1> DEFINE I == {i} \cup InEntry(t, i)
<1>1. LastField(t, i) = Max(I)
  BY DEF LastField, InEntry
<1>2. DOMAIN t = 1..Len(t) /\ Len(t) \in Nat
  BY PositionsAre
<1>3. ASSUME NEW j \in InEntry(t, i) PROVE j \in i + 1..Len(t)
  <2>1. j \in 1..Len(t) /\ EntryOf(t, j) = i /\ j \in 1..Len(t) + 1
    BY <1>2 DEF InEntry
  <2>2. Prev(LabelsIn(t), j, EntryOf(t, j))
    BY <2>1, SearchesAre
  <2> QED
    BY <1>2, <2>1, <2>2 DEF Prev
<1>4. I \in SUBSET (0..Len(t)) /\ i \in I
  BY <1>2, <1>3
<1>5. Max(I) \in I /\ \A j \in I : j <= Max(I)
  <2> HIDE DEF I
  <2> QED
    BY <1>2, <1>4, MaxIs
<1>6. \A j \in I : j \in i..Len(t)
  BY <1>2, <1>3
<1>7. LastField(t, i) \in I /\ \A j \in I : j <= LastField(t, i)
  BY <1>1, <1>5
<1>8. LastField(t, i) \in i..Len(t)
  BY <1>6, <1>7
<1> QED
  BY <1>2, <1>3, <1>7, <1>8

\* An entry that is not broken has no line further left.
LEMMA NotBroken ==
    ASSUME NEW t \in Seq(Lines), NEW e, NEW i \in 1..Len(t), i = LabelAt(t, e), ~Broken(t, e),
           NEW k \in i..LastField(t, i)
    PROVE  ~EndsEntry(t[k])
<1> DEFINE f == LastField(t, i)
<1>1. f \in i..Len(t) /\ Len(t) \in Nat
  BY LastFieldIs, PositionsAre
<1>2. Body(t, e) = SubSeq(t, i, f)
  BY DEF Body
<1> HIDE DEF f
<1>3. f \in 1..Len(t) /\ i <= f /\ k \in i..f
  BY <1>1 DEF f
<1>4. /\ SubSeq(t, i, f) \in Seq(Lines) /\ Len(SubSeq(t, i, f)) = f - i + 1
      /\ \A j \in 1..f - i + 1 : SubSeq(t, i, f)[j] = t[i - 1 + j]
  BY <1>3, LinesCut
<1>5. k - i + 1 \in 1..f - i + 1 /\ i - 1 + (k - i + 1) = k
  BY <1>1, <1>3
<1>6. Body(t, e)[k - i + 1] = t[k] /\ k - i + 1 \in DOMAIN Body(t, e)
  <2> DEFINE h == k - i + 1
             x == SubSeq(t, i, f)
  <2>1. h \in 1..f - i + 1 /\ i - 1 + h = k /\ Body(t, e) = x
    BY <1>2, <1>5
  <2>2. x \in Seq(Lines) /\ Len(x) = f - i + 1 /\ \A j \in 1..f - i + 1 : x[j] = t[i - 1 + j]
    BY <1>4
  <2> HIDE DEF h, x
  <2>3. x[h] = t[k] /\ h \in DOMAIN x
    BY <2>1, <2>2
  <2> QED
    BY <2>1, <2>3 DEF h
<1>7. t[k] \in Range(Body(t, e))
  BY <1>6 DEF Range
<1> QED
  BY <1>7 DEF Broken

\* The wanted entry is in its -c file.
LEMMA WantedIs ==
    ASSUME NEW s \in Sources
    PROVE  /\ Wanted(s) \in Entries(s.text)
           /\ Wanted(s).os = s.os /\ Wanted(s).label = s.label
           /\ Wanted(s) = [os |-> Wanted(s).os, label |-> Wanted(s).label, build |-> Wanted(s).build]
<1> DEFINE c == CHOOSE e \in Entries(s.text) : e.os = s.os /\ e.label = s.label
<1>1. \E e \in Entries(s.text) : e.os = s.os /\ e.label = s.label
  BY SourcesAssumption DEF Has
<1>2. c \in Entries(s.text) /\ c.os = s.os /\ c.label = s.label
  BY <1>1
<1>3. Wanted(s) = [os |-> s.os, label |-> s.label, build |-> c.build]
  BY DEF Wanted, BuildOf
<1> HIDE DEF c
<1>4. PICK i \in LabelsIn(s.text) : c = EntryAt(s.text, i)
  BY <1>2, EntriesAre
<1>5. c = [os |-> c.os, label |-> c.label, build |-> c.build]
  BY <1>4 DEF EntryAt
<1> QED
  BY <1>2, <1>3, <1>5

\* Where it takes in just the entry, its lines are those of one entry.
LEMMA ScanOneEntry ==
    ASSUME NEW s \in Sources, NEW x, x = s.text, SectionFound(x, s.os), LabelIdx(x, s.os, s.label) # 0,
           Exact(s), NEW e, e = Wanted(s)
    PROVE  \E st, p, en \in 1..Len(x) :
              /\ Scan(x, s.os, s.label, st, p, en)
              /\ OneEntry(SubSeq(x, st, en), p - st + 1, e)
              /\ LabelAt(x, e) = p /\ LastField(x, p) \in p..en
<1> DEFINE b == BuildsIdx(x, s.os)
           u == OuterEnd(x, s.os)
<1>1. /\ x \in Seq(Lines) /\ Loads(x) /\ DOMAIN x = 1..Len(x) /\ Len(x) \in Nat
      /\ \A i \in 1..Len(x) : x[i] \in Lines
  BY SourcesAssumption, PositionsAre
<1>2. PICK st \in 1..Len(x), p \in 1..Len(x), en \in 1..Len(x) : Scan(x, s.os, s.label, st, p, en)
  BY <1>1, ScanIs
<1>3. /\ st \in b + 1..p /\ p \in b + 1..u - 1 /\ en \in p..u - 1
      /\ x[p] = LabelLine(s.label, FALSE)
      /\ \A j \in st..p - 1 : x[j] = Comment(6)
      /\ \A j \in p + 1..en : ~EndsEntry(x[j])
      /\ \A j \in en + 1..Len(x) : x[j] = Blank \/ \E k \in en + 1..j : EndsEntry(x[k])
  BY <1>2 DEF Scan
<1>4. /\ b \in 2..Len(x) /\ u \in b + 1..Len(x) + 1 /\ x[b - 1] = PlainOS(s.os)
      /\ \A i \in b..u - 1 : i \notin OSesIn(x)
      /\ \A i \in b..u : SectionOf(x, i) = b - 1
  BY <1>1, SectionIs
<1> HIDE DEF b, u
<1>5. p \in LabelsIn(x) /\ x[p].name = s.label
  <2>1. IsLabel(LabelLine(s.label, FALSE)) /\ LabelLine(s.label, FALSE).name = s.label
    BY HeaderFacts
  <2> QED
    BY <1>1, <1>3, <2>1 DEF LabelsIn
<1>6. x[b - 1].name = s.os
  BY <1>4, HeaderFacts
<1>7. ASSUME NEW i \in LabelsIn(x), i \in b..u PROVE x[i].name = s.label => i = p
  <2>1. SectionOf(x, i) = b - 1 /\ SectionOf(x, p) = b - 1
    BY <1>3, <1>4, <1>7
  <2> QED
    BY <1>1, <1>5, <2>1, HeadersUnique
<1>8. LabelAt(x, e) = p /\ e.label = s.label /\ e.build = FieldsOf(x, p)
  <2>1. e \in Entries(x) /\ e.os = s.os /\ e.label = s.label
    BY WantedIs
  <2>2. LabelAt(x, e) \in LabelsIn(x) /\ e = EntryAt(x, LabelAt(x, e))
    BY <1>1, <2>1, LabelAtIs
  <2>3. x[LabelAt(x, e)].name = s.label /\ x[SectionOf(x, LabelAt(x, e))].name = s.os
    BY <2>1, <2>2 DEF EntryAt
  <2>4. SectionOf(x, p) = b - 1
    BY <1>3, <1>4
  <2>5. LabelAt(x, e) = p
    <3> DEFINE i == LabelAt(x, e)
    <3>1. i \in LabelsIn(x) /\ x[i].name = x[p].name /\ x[SectionOf(x, i)].name = x[SectionOf(x, p)].name
      BY <1>5, <1>6, <2>2, <2>3, <2>4
    <3> HIDE DEF i
    <3>2. i = p
      BY <1>1, <1>5, <3>1, EntryUnique
    <3> QED
      BY <3>2 DEF i
  <2> QED
    BY <2>1, <2>2, <2>5 DEF EntryAt
<1>9. ASSUME NEW i \in p + 1..en
      PROVE  /\ i \in 1..Len(x) /\ ~EndsEntry(x[i]) /\ i \notin LabelsIn(x)
             /\ x[i].kind \in {"field", "comment", "blank"}
  <2>1. i \in 1..Len(x) /\ i \in b..u - 1 /\ i \in b..u /\ i > p
    BY <1>1, <1>3, <1>4
  <2>2. ~IsOS(x[i])
    BY <1>1, <1>4, <2>1 DEF OSesIn
  <2>3. ~IsLabel(x[i])
    <3>1. SUFFICES ASSUME IsLabel(x[i]) PROVE FALSE
      OBVIOUS
    <3>2. i \in LabelsIn(x)
      BY <1>1, <2>1, <3>1 DEF LabelsIn
    <3>3. EntryAt(x, i).os = s.os /\ EntryAt(x, i) \in Entries(x) /\ EntryAt(x, i).label = x[i].name
      <4>1. SectionOf(x, i) = b - 1
        BY <1>4, <2>1
      <4> QED
        BY <1>6, <3>2, <4>1, EntriesAre DEF EntryAt
    <3>4. x[i].name = s.label
      BY <3>3 DEF Exact
    <3> QED
      BY <1>7, <2>1, <3>2, <3>4
  <2>4. x[i].kind # "builds"
    <3>1. SUFFICES ASSUME x[i].kind = "builds" PROVE FALSE
      OBVIOUS
    <3>2. i \in Keys(x) /\ p \in Keys(x)
      BY <1>1, <1>5, <2>1, <3>1, PositionsAre DEF Keys, IsKey
    <3>3. Prev(Keys(x), i, KeyBefore(x, i)) /\ i \in 1..Len(x) + 1
      BY <1>1, <2>1, SearchesAre
    <3> DEFINE k == KeyBefore(x, i)
    <3>4. k # 0 /\ IsOS(x[k])
      BY <1>1, <3>1, <3>2, Follows
    <3> HIDE DEF k
    <3>5. k \in p..i - 1
      BY <1>1, <1>3, <1>4, <2>1, <3>2, <3>3 DEF Prev, k
    <3>6. k \in b..u - 1 /\ k \in DOMAIN x
      BY <1>1, <1>3, <1>4, <2>1, <3>5
    <3> QED
      BY <1>4, <3>4, <3>6 DEF OSesIn
  <2>5. ~EndsEntry(x[i])
    BY <1>3
  <2>6. x[i].kind \in {"field", "comment", "blank"}
    BY <1>1, <2>1, <2>2, <2>3, <2>4, LineFacts DEF IsOS, IsLabel
  <2> QED
    BY <2>1, <2>3, <2>5, <2>6 DEF LabelsIn
<1>10. /\ LastField(x, p) \in p..Len(x)
       /\ LastField(x, p) = p \/ LastField(x, p) \in InEntry(x, p)
       /\ \A j \in InEntry(x, p) : j > p /\ j <= LastField(x, p)
  BY <1>1, LastFieldIs
<1>11. ASSUME NEW j \in InEntry(x, p) PROVE j \in p + 1..en
  <2>1. j \in 1..Len(x) /\ x[j].kind = "field" /\ j > p /\ j <= LastField(x, p)
    BY <1>1, <1>10 DEF InEntry
  <2>2. SUFFICES ASSUME j > en PROVE FALSE
    BY <1>3, <1>4, <2>1
  <2>3. x[j] # Blank
    BY <1>1, <2>1, LineFacts
  <2>4. PICK k \in en + 1..j : EndsEntry(x[k])
    BY <1>3, <2>1, <2>2, <2>3
  <2>5. k \in p..LastField(x, p)
    BY <1>3, <1>10, <2>1
  <2> QED
    BY <1>1, <1>8, <2>4, <2>5, NotBroken DEF Exact
<1>12. LastField(x, p) \in p..en
  BY <1>3, <1>10, <1>11
<1>13. ASSUME NEW i \in p + 1..en PROVE i \in InEntry(x, p) <=> x[i].kind = "field"
  <2>1. i \in 1..Len(x) + 1 /\ i \in 1..Len(x)
    BY <1>9
  <2>2. \A h \in p + 1..i - 1 : h \in p + 1..en
    BY <1>3
  <2>3. \A h \in p + 1..i - 1 : h \notin LabelsIn(x)
    BY <1>9, <2>2
  <2>4. p \in 0..i - 1
    OBVIOUS
  <2>5. Prev(LabelsIn(x), i, p)
    BY <1>5, <2>3, <2>4 DEF Prev
  <2>6. EntryOf(x, i) = p
    BY <1>1, <2>1, <2>5, SearchesOnly
  <2> QED
    BY <1>1, <2>1, <2>6 DEF InEntry
<1> DEFINE E == SubSeq(x, st, en)
           q == p - st + 1
           m == en - st + 1
<1>14. /\ st <= en /\ st <= p /\ p <= en /\ q \in 1..m /\ m \in Nat /\ st - 1 + q = p
  <2>1. st \in Nat \ {0} /\ p \in Nat /\ en \in Nat
    BY <1>1
  <2>2. b \in Nat /\ u \in Nat
    BY <1>1, <1>4
  <2>3. st <= p /\ p <= en
    BY <1>3, <2>1, <2>2
  <2> QED
    BY <2>1, <2>3
<1>15. E \in Seq(Lines) /\ Len(E) = m /\ \A j \in 1..m : E[j] = x[st - 1 + j]
  BY <1>1, <1>14, LinesCut
<1>16. \A j \in q + 1..m : st - 1 + j \in p + 1..en /\ j \in 1..m
  BY <1>14
<1> HIDE DEF E, q, m
<1>17. OneEntry(E, q, e)
  <2>1. E \in Seq(Lines) /\ q \in 1..Len(E)
    BY <1>14, <1>15
  <2>2. ASSUME NEW i \in 1..q - 1 PROVE E[i] = Comment(6)
    <3>1. st - 1 + i \in st..p - 1 /\ i \in 1..m
      BY <1>14
    <3> QED
      BY <1>3, <1>15, <3>1
  <2>3. E[q] = LabelLine(e.label, FALSE)
    BY <1>3, <1>8, <1>14, <1>15
  <2>4. \A i \in q + 1..m : E[i].kind \in {"field", "comment", "blank"} /\ ~EndsEntry(E[i])
    BY <1>9, <1>15, <1>16
  <2>5. e.build = {E[i].name : i \in {j \in q + 1..m : E[j].kind = "field"}}
    <3> DEFINE F == {j \in q + 1..m : E[j].kind = "field"}
               I == InEntry(x, p)
    <3>1. ASSUME NEW j \in F PROVE \E i \in I : E[j].name = x[i].name
      <4>1. st - 1 + j \in I /\ E[j] = x[st - 1 + j]
        BY <1>13, <1>15, <1>16
      <4> QED
        BY <4>1
    <3>2. ASSUME NEW i \in I PROVE \E j \in F : E[j].name = x[i].name
      <4>1. i \in p + 1..en /\ x[i].kind = "field"
        BY <1>11, <1>13
      <4>2. i - st + 1 \in q + 1..m /\ st - 1 + (i - st + 1) = i
        BY <1>14, <4>1 DEF q, m
      <4> DEFINE j == i - st + 1
      <4>3. j \in q + 1..m /\ st - 1 + j = i
        BY <4>2
      <4> HIDE DEF j
      <4>4. E[j] = x[i]
        BY <1>15, <1>16, <4>3
      <4>5. j \in F
        BY <4>1, <4>3, <4>4
      <4> HIDE DEF F
      <4> QED
        BY <4>4, <4>5
    <3>3. e.build = {x[i].name : i \in I}
      BY <1>8, FieldsAre
    <3> HIDE DEF F, I
    <3>4. e.build = {E[j].name : j \in F}
      BY <3>1, <3>2, <3>3
    <3> QED
      BY <3>4 DEF F
  <2>6. ASSUME NEW i \in q + 1..m, NEW k \in q + 1..m, E[i].kind = "field", E[k].kind = "field", E[i].name = E[k].name
        PROVE  i = k
    <3> DEFINE a == st - 1 + i
               c == st - 1 + k
    <3>1. a \in InEntry(x, p) /\ c \in InEntry(x, p) /\ x[a] = E[i] /\ x[c] = E[k]
      BY <1>13, <1>15, <1>16, <2>6
    <3> HIDE DEF a, c
    <3>2. a \in Keys(x) /\ c \in Keys(x)
      BY <3>1 DEF InEntry, Keys, IsKey
    <3>3. Place(x, a) = Place(x, c)
      BY <1>1, <2>6, <3>1, <3>2, SamePlace DEF InEntry
    <3>4. a = c
      BY <1>1, <3>2, <3>3, LoadsIs
    <3> QED
      BY <1>14, <3>4 DEF a, c
  <2> QED
    BY <1>15, <2>1, <2>2, <2>3, <2>4, <2>5, <2>6 DEF OneEntry
<1>18. OneEntry(SubSeq(x, st, en), p - st + 1, e)
  BY <1>17 DEF E, q
<1> QED
  BY <1>2, <1>8, <1>12, <1>18

-----------------------------------------------------------------------------
(* A merge adds its own entry, and no other changes. *)

\* A merge whose scan takes in just the entry puts that into the section.
LEMMA MergeAdds ==
    ASSUME NEW t \in Seq(Lines), Loads(t), NEW s \in Sources, Mergeable(t, s), Exact(s),
           NEW x, x = s.text, NEW e, e = Wanted(s)
    PROVE  \E st, p, en \in 1..Len(x), n \in Nat :
              /\ Scan(x, s.os, s.label, st, p, en)
              /\ Adds(t, e, n, SubSeq(x, st, en), p - st + 1, Spliced(t, s))
              /\ LabelAt(x, e) = p /\ LastField(x, p) \in p..en
<1>1. SectionFound(t, s.os) /\ SectionFound(x, s.os) /\ LabelIdx(x, s.os, s.label) # 0
  BY DEF Mergeable
<1>2. PICK st \in 1..Len(x), p \in 1..Len(x), en \in 1..Len(x) :
         /\ Scan(x, s.os, s.label, st, p, en)
         /\ OneEntry(SubSeq(x, st, en), p - st + 1, e)
         /\ LabelAt(x, e) = p /\ LastField(x, p) \in p..en
  BY <1>1, ScanOneEntry
<1>3. PICK n \in 1..Len(t) + 1, E \in Seq(Lines) :
         /\ n = InsertPoint(t, s.os) /\ E = EntryLines(x, s.os, s.label)
         /\ IsSplice(t, n, E, Spliced(t, s))
  BY MergeSplices
<1>4. E = SubSeq(x, st, en)
  BY <1>2, <1>3 DEF Scan
<1>5. e.os = s.os /\ e = [os |-> e.os, label |-> e.label, build |-> e.build]
  BY WantedIs
<1>6. Adds(t, e, n, SubSeq(x, st, en), p - st + 1, Spliced(t, s))
  BY <1>1, <1>2, <1>3, <1>4, <1>5 DEF Adds
<1>7. n \in Nat
  OBVIOUS
<1> QED
  BY <1>2, <1>6, <1>7

\* A merge that is accepted.
LEMMA MergeIs ==
    ASSUME TypeOK, [Next]_vars, merges' # merges, file' # file
    PROVE  /\ last' \in Sources /\ Mergeable(file, last') /\ Valid(file', last')
           /\ file' = Spliced(file, last')
<1>1. ASSUME NEW l \in Typed, Type(l) PROVE FALSE
  BY <1>1 DEF Type
<1>2. ~UNCHANGED vars
  BY DEF vars
<1>3. PICK s \in Sources : Merge(s)
  BY <1>1, <1>2 DEF Next
<1>4. last' = s /\ Accepts(file, s) /\ file' = Spliced(file, s)
  BY <1>3 DEF Merge
<1> QED
  BY <1>4 DEF Accepts

\* A merge that is accepted adds its own entry to the table of the config and changes
\* no other, for texts, entries and comments of any shape, where the scan of the -c
\* file takes in just the entry (merge.go:174-193).
THEOREM MergesAddTheirEntry == Spec => OnlyEntryAdded
<1>1. ASSUME TypeOK, [Next]_vars, merges' # merges, file' # file, Exact(last')
      PROVE  Entries(file') = Entries(file) \cup {Wanted(last')}
  <2> DEFINE s == last'
             x == s.text
             e == Wanted(s)
  <2>1. /\ s \in Sources /\ Mergeable(file, s) /\ Valid(file', s) /\ file' = Spliced(file, s)
        /\ file \in Seq(Lines) /\ Loads(file)
    BY <1>1, MergeIs DEF TypeOK
  <2>2. PICK st \in 1..Len(x), p \in 1..Len(x), en \in 1..Len(x), n \in Nat :
           Adds(file, e, n, SubSeq(x, st, en), p - st + 1, file')
    BY <1>1, <2>1, MergeAdds
  <2> DEFINE E == SubSeq(x, st, en)
             q == p - st + 1
  <2>3. Adds(file, e, n, E, q, file') /\ Loads(file') /\ e \in Entries(file')
    BY <2>1, <2>2 DEF Valid
  <2> HIDE DEF e, E, q
  <2>4. Stolen(file, n) = {}
    BY <2>3, NoneStolen
  <2>5. Entries(file') = Entries(file) \cup {e}
    BY <2>3, <2>4, EntriesAfter
  <2> QED
    BY <2>5 DEF e
<1>2. TypeOK /\ [Next]_vars => [merges' # merges /\ file' # file /\ Exact(last') =>
                                   Entries(file') = Entries(file) \cup {Wanted(last')}]_vars
  BY <1>1
<1> QED
  BY <1>2, TypeCorrect, PTL DEF Spec, OnlyEntryAdded

-----------------------------------------------------------------------------
(* The lines of an entry stay together. *)

\* Lines f..l of w stand in y from line a on.
LEMMA ContainedIs ==
    ASSUME NEW w \in Seq(Lines), NEW y \in Seq(Lines), NEW f \in 1..Len(w), NEW l \in 1..Len(w), f <= l,
           NEW a \in 1..Len(y), a + (l - f) \in 1..Len(y), \A j \in f..l : y[a + (j - f)] = w[j]
    PROVE  Contained(SubSeq(w, f, l), y)
<1> DEFINE c == a + (l - f)
           A == SubSeq(w, f, l)
           B == SubSeq(y, a, c)
<1>0. f \in Nat /\ l \in Nat /\ a \in Nat \ {0} /\ Len(y) \in Nat
  OBVIOUS
<1>1. a <= c /\ c \in 1..Len(y) /\ c - a + 1 = l - f + 1 /\ c = a - 1 + (l - f + 1)
  BY <1>0
<1> HIDE DEF c
<1>2. A \in Seq(Lines) /\ Len(A) = l - f + 1 /\ \A j \in 1..l - f + 1 : A[j] = w[f - 1 + j]
  BY LinesCut
<1>3. B \in Seq(Lines) /\ Len(B) = l - f + 1 /\ \A j \in 1..l - f + 1 : B[j] = y[a - 1 + j]
  <2>1. B \in Seq(Lines) /\ Len(B) = c - a + 1 /\ \A j \in 1..c - a + 1 : B[j] = y[a - 1 + j]
    BY <1>1, LinesCut
  <2> QED
    BY <1>1, <2>1
<1> HIDE DEF A, B
<1>4. ASSUME NEW j \in 1..l - f + 1 PROVE A[j] = B[j]
  <2>1. f - 1 + j \in f..l /\ a + ((f - 1 + j) - f) = a - 1 + j
    BY <1>0
  <2> QED
    BY <1>2, <1>3, <2>1
<1>5. A = B
  BY <1>2, <1>3, <1>4, SeqEqual
<1>6. a - 1 \in 0..Len(y) - Len(A) /\ A = SubSeq(y, (a - 1) + 1, (a - 1) + Len(A))
  <2>1. (a - 1) + 1 = a /\ (a - 1) + Len(A) = c
    BY <1>0, <1>1, <1>2
  <2>2. a - 1 \in 0..Len(y) - Len(A)
    BY <1>0, <1>1, <1>2
  <2> QED
    BY <1>5, <2>1, <2>2 DEF B
<1>7. Contained(A, y)
  BY <1>6 DEF Contained
<1> QED
  BY <1>7 DEF A

LEMMA FirstCommentIs ==
    ASSUME NEW t \in Seq(Lines), NEW i \in 1..Len(t)
    PROVE  FirstComment(t, i) \in 1..i /\ \A k \in FirstComment(t, i)..i - 1 : t[k] = Comment(6)
<1> DEFINE I == {j \in 1..i : \A k \in j..i - 1 : t[k] = Comment(6)}
<1>1. i \in I /\ I \in SUBSET Nat
  OBVIOUS
<1>2. FirstComment(t, i) = Min(I)
  BY DEF FirstComment
<1>3. Min(I) \in I
  <2> HIDE DEF I
  <2> QED
    BY <1>1, MinIs
<1> QED
  BY <1>2, <1>3

\* The new entry's comments and lines are among those that the scan took.
LEMMA NewSpanKept ==
    ASSUME NEW x \in Seq(Lines), NEW o, NEW l, SectionFound(x, o),
           NEW st \in 1..Len(x), NEW p \in 1..Len(x), NEW en \in 1..Len(x), Scan(x, o, l, st, p, en),
           NEW e, LabelAt(x, e) = p, LastField(x, p) \in p..en,
           NEW t, NEW n, NEW y, IsSplice(t, n, SubSeq(x, st, en), y)
    PROVE  Contained(Span(x, e), y)
<1> DEFINE b == BuildsIdx(x, o)
           f == FirstComment(x, p)
           g == LastField(x, p)
           E == SubSeq(x, st, en)
           m == en - st + 1
<1>1. /\ st \in b + 1..p /\ en >= p /\ (st # b + 1 => x[st - 1] # Comment(6))
  BY DEF Scan
<1>2. b \in 2..Len(x) /\ x[b] = BuildsLine /\ x[b] \in Lines /\ Len(x) \in Nat
  <2>1. b \in 2..Len(x) /\ x[b] = BuildsLine
    BY SectionIs
  <2> HIDE DEF b
  <2> QED
    BY <2>1, PositionsAre
<1>3. f \in 1..p /\ \A k \in f..p - 1 : x[k] = Comment(6)
  BY FirstCommentIs
<1> HIDE DEF b, f, g
<1>4. f >= st
  <2>1. SUFFICES ASSUME f < st PROVE FALSE
    BY <1>2, <1>3
  <2>2. st - 1 \in f..p - 1
    BY <1>1, <1>2, <1>3, <2>1
  <2>3. x[st - 1] = Comment(6)
    BY <1>3, <2>2
  <2>4. st - 1 = b
    BY <1>1, <1>2, <2>3
  <2> QED
    BY <1>2, <2>3, <2>4, LineFacts
<1>5. f \in st..p /\ g \in p..en /\ st <= en
  BY <1>1, <1>2, <1>3, <1>4 DEF g
<1>6. E \in Seq(Lines) /\ Len(E) = m /\ \A j \in 1..m : E[j] = x[st - 1 + j]
  BY <1>5, LinesCut
<1> HIDE DEF E
<1>7. /\ y \in Seq(Lines) /\ n \in 1..Len(t) + 1 /\ Len(t) \in Nat /\ Len(y) = Len(t) + m
      /\ \A j \in 1..m : y[n - 1 + j] = E[j]
  <2>1. IsSplice(t, n, E, y)
    BY DEF E
  <2> HIDE DEF m
  <2> QED
    BY <1>6, <2>1, PositionsAre DEF IsSplice
<1> DEFINE a == n - 1 + (f - st + 1)
<1>8. /\ f \in 1..Len(x) /\ g \in 1..Len(x) /\ f <= g
      /\ a \in 1..Len(y) /\ a + (g - f) \in 1..Len(y)
  <2>1. st \in Nat \ {0} /\ p \in Nat /\ p <= Len(x) /\ en \in Nat /\ en <= Len(x) /\ st <= p
    BY <1>2, <1>5
  <2>2. f \in Nat /\ f >= st /\ f <= p /\ g \in Nat /\ g >= p /\ g <= en
    BY <1>5, <2>1
  <2>3. n \in Nat \ {0} /\ n <= Len(t) + 1 /\ Len(y) = Len(t) + (en - st + 1) /\ Len(t) \in Nat
    BY <1>7
  <2>4. f \in 1..Len(x) /\ g \in 1..Len(x) /\ f <= g
    BY <1>2, <2>1, <2>2
  <2>5. a \in Nat \ {0} /\ a + (g - f) = n - 1 + (g - st + 1) /\ a <= a + (g - f)
    BY <2>1, <2>2, <2>3
  <2>6. a + (g - f) \in Nat \ {0} /\ a + (g - f) <= Len(y) /\ a <= Len(y)
    BY <2>1, <2>2, <2>3, <2>5
  <2> HIDE DEF a
  <2> QED
    BY <2>3, <2>4, <2>5, <2>6, <1>7
<1>9. ASSUME NEW j \in f..g PROVE y[a + (j - f)] = x[j]
  <2>1. j - st + 1 \in 1..m /\ a + (j - f) = n - 1 + (j - st + 1) /\ st - 1 + (j - st + 1) = j
    BY <1>2, <1>5, <1>7
  <2> DEFINE h == j - st + 1
  <2>2. h \in 1..m /\ a + (j - f) = n - 1 + h /\ st - 1 + h = j
    BY <2>1
  <2> HIDE DEF h, a, m
  <2> QED
    BY <1>6, <1>7, <2>2
<1> HIDE DEF a
<1>10. Contained(SubSeq(x, f, g), y)
  BY <1>7, <1>8, <1>9, ContainedIs
<1> QED
  BY <1>10 DEF Span, f, g

\* The lines of every other entry are all above the place or all below it.
LEMMA OldSpansKept ==
    ASSUME NEW t, NEW w, NEW n, NEW E, NEW q, NEW y, Adds(t, w, n, E, q, y), Stolen(t, n) = {},
           NEW e \in Entries(t)
    PROVE  Contained(Span(t, e), y)
<1> DEFINE m == Len(E)
           i == LabelAt(t, e)
           f == FirstComment(t, i)
           g == LastField(t, i)
           b == BuildsIdx(t, w.os)
<1>1. Bounds(t, n, E, q, y, m) /\ Loads(t)
  BY AddsBounds DEF Adds
<1>2. /\ t \in Seq(Lines) /\ y \in Seq(Lines) /\ Len(t) \in Nat /\ m \in Nat /\ Len(y) = Len(t) + m
      /\ n \in 1..Len(t) + 1 /\ DOMAIN t = 1..Len(t)
      /\ \A j \in 1..Len(t) : y[Shift(j, n, m)] = t[j] /\ t[j] \in Lines
  BY <1>1 DEF Bounds
<1>3. i \in 1..Len(t) /\ IsLabel(t[i])
  <2>1. i \in LabelsIn(t)
    BY <1>1, <1>2, LabelAtIs
  <2> QED
    BY <1>2, <2>1 DEF LabelsIn
<1>4. f \in 1..i /\ \A k \in f..i - 1 : t[k] = Comment(6)
  BY <1>2, <1>3, FirstCommentIs
<1>5. g \in i..Len(t) /\ (g = i \/ g \in InEntry(t, i))
  BY <1>2, <1>3, LastFieldIs
<1>6. b \in 2..n - 1 /\ t[b] = BuildsLine /\ (n # b + 1 /\ n <= Len(t) => EndsEntry(t[n]))
  BY PlaceIs
<1> HIDE DEF m, i, f, g, b
<1>7. CASE g < n
  <2>1. \A j \in f..g : j \in 1..Len(t) /\ Shift(j, n, m) = j /\ f + (j - f) = j
    BY <1>2, <1>3, <1>4, <1>5, <1>7 DEF Shift
  <2>2. \A j \in f..g : y[f + (j - f)] = t[j]
    BY <1>2, <2>1
  <2>3. f \in 1..Len(t) /\ g \in 1..Len(t) /\ f <= g /\ f \in 1..Len(y) /\ f + (g - f) \in 1..Len(y)
    BY <1>2, <1>3, <1>4, <1>5
  <2>4. Contained(SubSeq(t, f, g), y)
    BY <1>2, <2>2, <2>3, ContainedIs
  <2> QED
    BY <2>4 DEF Span, f, g, i
<1>8. CASE f >= n
  <2> DEFINE a == f + m
  <2>1. \A j \in f..g : j \in 1..Len(t) /\ Shift(j, n, m) = j + m /\ a + (j - f) = j + m
    BY <1>2, <1>3, <1>4, <1>5, <1>8 DEF Shift
  <2>2. \A j \in f..g : y[a + (j - f)] = t[j]
    BY <1>2, <2>1
  <2>3. f \in 1..Len(t) /\ g \in 1..Len(t) /\ f <= g /\ a \in 1..Len(y) /\ a + (g - f) \in 1..Len(y)
    BY <1>2, <1>3, <1>4, <1>5
  <2> HIDE DEF a
  <2>4. Contained(SubSeq(t, f, g), y)
    BY <1>2, <2>2, <2>3, ContainedIs
  <2> QED
    BY <2>4 DEF Span, f, g, i
<1>9. CASE f < n /\ g >= n
  <2>1. n \in 1..Len(t) /\ n - 1 \in 1..Len(t) /\ n \in Nat
    BY <1>2, <1>3, <1>4, <1>5, <1>6, <1>9
  <2>2. CASE i < n
    <3>1. g \in InEntry(t, i)
      BY <1>5, <1>9, <2>2, <2>1, <1>3, <1>2
    <3>2. g \in Stolen(t, n)
      BY <1>9, <2>2, <3>1 DEF InEntry, Stolen
    <3> QED
      BY <3>2
  <2>3. CASE i >= n
    <3>1. t[n - 1] = Comment(6)
      <4>1. n - 1 \in f..i - 1
        BY <1>2, <1>3, <1>4, <1>9, <2>1, <2>3
      <4> QED
        BY <1>4, <4>1
    <3>2. t[n] = Comment(6) \/ IsLabel(t[n])
      <4>1. n = i \/ n \in f..i - 1
        BY <1>2, <1>3, <1>4, <1>9, <2>1, <2>3
      <4> QED
        BY <1>3, <1>4, <4>1
    <3>3. ~EndsEntry(t[n])
      BY <1>2, <2>1, <3>2, LineFacts
    <3>4. n = b + 1
      BY <1>6, <2>1, <3>3
    <3>5. b = n - 1
      BY <1>6, <3>4, <2>1
    <3> QED
      BY <1>2, <1>6, <2>1, <3>1, <3>5, LineFacts
  <2> QED
    BY <2>1, <2>2, <2>3, <1>3, <1>2
<1> QED
  BY <1>2, <1>3, <1>4, <1>5, <1>7, <1>8, <1>9

\* A merge that is accepted keeps the lines of the new entry together, and those of
\* every other, with the comments above, inside and behind their keys, where the scan
\* of the -c file takes in just the entry (merge.go:93-107, 264-298).
THEOREM MergesKeepSpans == Spec => SpansKept
<1>1. ASSUME TypeOK, [Next]_vars, merges' # merges, file' # file, Exact(last')
      PROVE  /\ Contained(Span(last'.text, Wanted(last')), file')
             /\ \A e \in Entries(file) : Contained(Span(file, e), file')
  <2> DEFINE s == last'
             x == s.text
             e == Wanted(s)
  <2>1. /\ s \in Sources /\ Mergeable(file, s) /\ Valid(file', s) /\ file' = Spliced(file, s)
        /\ file \in Seq(Lines) /\ Loads(file)
    BY <1>1, MergeIs DEF TypeOK
  <2>2. PICK st \in 1..Len(x), p \in 1..Len(x), en \in 1..Len(x), n \in Nat :
           /\ Scan(x, s.os, s.label, st, p, en)
           /\ Adds(file, e, n, SubSeq(x, st, en), p - st + 1, file')
           /\ LabelAt(x, e) = p /\ LastField(x, p) \in p..en
    BY <1>1, <2>1, MergeAdds
  <2> DEFINE E == SubSeq(x, st, en)
             q == p - st + 1
  <2>3. Adds(file, e, n, E, q, file') /\ Loads(file') /\ e \in Entries(file') /\ IsSplice(file, n, E, file')
    BY <2>1, <2>2 DEF Valid, Adds
  <2>4. x \in Seq(Lines) /\ SectionFound(x, s.os)
    BY <2>1, SourcesAssumption DEF Mergeable
  <2>5. Contained(Span(x, e), file')
    <3> HIDE DEF e, x
    <3> QED
      BY <2>2, <2>3, <2>4, NewSpanKept
  <2> HIDE DEF e, E, q
  <2>6. Stolen(file, n) = {}
    BY <2>3, NoneStolen
  <2>7. \A d \in Entries(file) : Contained(Span(file, d), file')
    BY <2>3, <2>6, OldSpansKept
  <2> QED
    BY <2>5, <2>7 DEF e
<1>2. TypeOK /\ [Next]_vars => [merges' # merges /\ file' # file /\ Exact(last') =>
                                   /\ Contained(Span(last'.text, Wanted(last')), file')
                                   /\ \A e \in Entries(file) : Contained(Span(file, e), file')]_vars
  BY <1>1
<1> QED
  BY <1>2, TypeCorrect, PTL DEF Spec, SpansKept

-----------------------------------------------------------------------------
(* A tidy text takes every new entry. *)

\* Where no entry of the section has a line further left, none reaches below the place.
LEMMA TidyNoneStolen ==
    ASSUME NEW t, NEW e, NEW n, NEW E, NEW q, NEW y, Adds(t, e, n, E, q, y), Tidy(t, e.os)
    PROVE  Stolen(t, n) = {}
<1> DEFINE b == BuildsIdx(t, e.os)
<1>1. /\ t \in Seq(Lines) /\ DOMAIN t = 1..Len(t) /\ Len(t) \in Nat /\ n \in Nat
      /\ \A i \in 1..Len(t) : t[i] \in Lines
  BY AddsBounds DEF Bounds
<1>2. Loads(t)
  BY DEF Adds
<1>3. /\ b \in 2..n - 1 /\ b \in Keys(t) /\ t[b].kind = "builds"
      /\ \A i \in b..n : SectionOf(t, i) = b - 1
      /\ t[b - 1].name = e.os
      /\ n # b + 1 /\ n <= Len(t) => EndsEntry(t[n])
  BY PlaceIs
<1> HIDE DEF b
<1>4. ASSUME NEW z \in Stolen(t, n) PROVE FALSE
  <2> DEFINE k == EntryOf(t, z)
  <2>1. z \in 1..Len(t) /\ t[z].kind = "field" /\ z >= n /\ k < n
    BY <1>1 DEF Stolen
  <2>2. z \in Keys(t)
    BY <1>1, <2>1 DEF Keys, IsKey
  <2>3. /\ k \in LabelsIn(t)
        /\ \A h \in Keys(t) : h > k /\ h < z => t[h].kind = "field"
    BY <1>1, <1>2, <2>1, <2>2, FieldsHaveEntry
  <2>4. z \in InEntry(t, k)
    BY <1>1, <2>1 DEF InEntry
  <2> HIDE DEF k
  <2>5. k \in 1..Len(t) /\ IsLabel(t[k])
    BY <1>1, <2>3 DEF LabelsIn
  <2>6. k > b
    <3>1. k # b
      BY <1>3, <2>5 DEF IsLabel
    <3>2. ~(k < b)
      BY <1>1, <1>3, <2>1, <2>3
    <3> QED
      BY <1>1, <1>3, <2>5, <3>1, <3>2
  <2>7. EntryAt(t, k) \in Entries(t) /\ EntryAt(t, k).os = e.os
    <3>1. SectionOf(t, k) = b - 1
      BY <1>1, <1>3, <2>1, <2>5, <2>6
    <3> QED
      BY <1>3, <2>3, <3>1, EntriesAre DEF EntryAt
  <2> DEFINE d == EntryAt(t, k)
             i == LabelAt(t, d)
  <2>8. d \in Entries(t) /\ ~Broken(t, d)
    BY <2>7 DEF Tidy
  <2>9. i = k
    <3>1. i \in LabelsIn(t) /\ d = EntryAt(t, i)
      <4> HIDE DEF d
      <4> QED
        BY <1>1, <1>2, <2>8, LabelAtIs
    <3>2. t[i].name = t[k].name /\ t[SectionOf(t, i)].name = t[SectionOf(t, k)].name
      <4> HIDE DEF i
      <4>1. d.label = t[i].name /\ d.os = t[SectionOf(t, i)].name
        BY <3>1 DEF EntryAt
      <4>2. d.label = t[k].name /\ d.os = t[SectionOf(t, k)].name
        BY DEF EntryAt
      <4> QED
        BY <4>1, <4>2
    <3> HIDE DEF i
    <3> QED
      BY <1>1, <1>2, <2>3, <3>1, <3>2, EntryUnique
  <2>10. n \in k..LastField(t, k)
    <3>1. LastField(t, k) \in k..Len(t) /\ z <= LastField(t, k)
      BY <1>1, <2>4, <2>5, LastFieldIs
    <3> QED
      BY <1>1, <2>1, <2>5, <3>1
  <2> HIDE DEF d
  <2>11. ~EndsEntry(t[n])
    <3> HIDE DEF i
    <3>1. k = LabelAt(t, d)
      BY <2>9 DEF i
    <3> QED
      BY <1>1, <2>5, <2>8, <2>10, <3>1, NotBroken
  <2>12. n <= Len(t)
    BY <1>1, <2>1
  <2> QED
    BY <1>1, <1>3, <2>1, <2>5, <2>6, <2>11, <2>12
<1> QED
  BY <1>4

\* A label without a comment behind it is found.
LEMMA PlainLabelFound ==
    ASSUME NEW x \in Seq(Lines), Loads(x), NEW o, SectionFound(x, o), NEW e \in Entries(x), e.os = o,
           ~x[LabelAt(x, e)].noted
    PROVE  LabelIdx(x, o, e.label) # 0
<1> DEFINE b == BuildsIdx(x, o)
           u == OuterEnd(x, o)
           i == LabelAt(x, e)
<1>1. /\ b \in 2..Len(x) /\ x[b] = BuildsLine /\ u \in b + 1..Len(x) + 1
      /\ u <= Len(x) => IsOS(x[u])
      /\ b - 1 \in OSesIn(x) /\ x[b - 1] = PlainOS(o)
  BY SectionIs
<1>2. DOMAIN x = 1..Len(x) /\ Len(x) \in Nat /\ \A h \in 1..Len(x) : x[h] \in Lines
  BY PositionsAre
<1>3. i \in LabelsIn(x) /\ e = EntryAt(x, i)
  BY LabelAtIs
<1>4. x[i].name = e.label /\ x[SectionOf(x, i)].name = o
  BY <1>3 DEF EntryAt
<1> HIDE DEF b, u, i
<1>5. i \in 1..Len(x) /\ IsLabel(x[i]) /\ i \in Keys(x) /\ x[i].kind # "os"
  BY <1>2, <1>3, PositionsAre DEF LabelsIn, IsLabel
<1>6. SectionOf(x, i) = b - 1
  <2>1. SectionOf(x, i) \in OSesIn(x)
    BY <1>5, KeysHaveSection
  <2>2. x[b - 1].name = o
    BY <1>1, HeaderFacts
  <2> QED
    BY <1>1, <1>4, <2>1, <2>2, HeadersUnique
<1>7. Prev(OSesIn(x), i, b - 1)
  <2>1. i \in 1..Len(x) + 1
    BY <1>2, <1>5
  <2> QED
    BY <1>6, <2>1, SearchesAre
<1>8. i > b
  <2>1. i # b
    BY <1>1, <1>2, <1>5, LineFacts
  <2> QED
    BY <1>1, <1>2, <1>5, <1>7, <2>1 DEF Prev
<1>9. i < u
  <2>1. SUFFICES ASSUME u <= i PROVE FALSE
    BY <1>1, <1>2, <1>5
  <2>2. u \in 1..Len(x) /\ IsOS(x[u])
    BY <1>1, <1>2, <1>5, <2>1
  <2>3. u \in OSesIn(x)
    BY <1>2, <2>2 DEF OSesIn
  <2>4. u # i
    BY <1>5, <2>2 DEF IsOS
  <2> QED
    BY <1>1, <1>2, <1>5, <1>7, <2>1, <2>3, <2>4 DEF Prev
<1>10. x[i] = LabelLine(e.label, FALSE)
  <2>1. PlainLabel(x[i])
    BY <1>5 DEF PlainLabel, i
  <2> QED
    BY <1>2, <1>4, <1>5, <2>1, LineFacts
<1>11. i \in b + 1..u - 1
  BY <1>1, <1>2, <1>5, <1>8, <1>9
<1> QED
  BY <1>10, <1>11, LabelFound DEF b, u

\* A new entry is never refused in a tidy text.
LEMMA TidyAccepts ==
    ASSUME NEW t \in Seq(Lines), Loads(t), NEW s \in Sources, Tidy(t, s.os), ~Has(t, s.os, s.label),
           SectionFound(s.text, s.os), Exact(s), ~s.text[LabelAt(s.text, Wanted(s))].noted
    PROVE  Accepts(t, s)
<1> DEFINE x == s.text
           e == Wanted(s)
<1>1. x \in Seq(Lines) /\ Loads(x) /\ e \in Entries(x) /\ e.os = s.os /\ e.label = s.label
  BY WantedIs, SourcesAssumption
<1>2. SectionFound(t, s.os) /\ SectionFound(x, s.os)
  BY DEF Tidy
<1>3. LabelIdx(x, s.os, s.label) # 0
  <2>1. LabelIdx(x, s.os, e.label) # 0
    BY <1>1, <1>2, PlainLabelFound
  <2> QED
    BY <1>1, <2>1
<1>4. s.os \in Sections(t)
  <2> DEFINE k == BuildsIdx(t, s.os) - 1
  <2>1. k \in OSesIn(t) /\ t[k] = PlainOS(s.os)
    BY <1>2, SectionIs
  <2> HIDE DEF k
  <2>2. k \in DOMAIN t /\ IsOS(t[k]) /\ t[k].name = s.os
    BY <2>1, HeaderFacts DEF OSesIn
  <2> QED
    BY <2>2 DEF Sections
<1>5. Mergeable(t, s)
  BY <1>2, <1>3, <1>4 DEF Mergeable
<1>6. PICK st \in 1..Len(x), p \in 1..Len(x), en \in 1..Len(x), n \in Nat :
         Adds(t, e, n, SubSeq(x, st, en), p - st + 1, Spliced(t, s))
  BY <1>5, MergeAdds
<1> DEFINE E == SubSeq(x, st, en)
           q == p - st + 1
           y == Spliced(t, s)
<1>7. Adds(t, e, n, E, q, y)
  BY <1>6
<1>8. Stolen(t, n) = {}
  <2>1. Tidy(t, e.os)
    BY <1>1
  <2> HIDE DEF e, E, q, y
  <2> QED
    BY <1>7, <2>1, TidyNoneStolen
<1>9. \A i \in LabelsIn(t) : ~(t[i].name = e.label /\ t[SectionOf(t, i)].name = e.os)
  <2>1. SUFFICES ASSUME NEW i \in LabelsIn(t), t[i].name = e.label, t[SectionOf(t, i)].name = e.os
                 PROVE  FALSE
    OBVIOUS
  <2>2. EntryAt(t, i) \in Entries(t)
    BY EntriesAre
  <2>3. EntryAt(t, i).os = s.os /\ EntryAt(t, i).label = s.label
    BY <1>1, <2>1 DEF EntryAt
  <2> QED
    BY <2>2, <2>3 DEF Has
<1> HIDE DEF e, E, q, y
<1>10. Loads(y) /\ Entries(y) = Entries(t) \cup {e}
  BY <1>7, <1>8, <1>9, LoadsAfter, EntriesAfter
<1>11. Valid(y, s)
  BY <1>10 DEF Valid, e
<1> QED
  BY <1>5, <1>11 DEF Accepts, y

\* Where nobody writes further left inside an entry of the section, an entry that is not
\* there yet, and is cut out of the -c file exactly, is never refused: no merge before it
\* and no comment can make the text such that the scan finds the wrong place
\* (merge.go:195-207).
THEOREM TidyMerges == Spec => []TidyNeverRefused
<1>1. TypeOK => TidyNeverRefused
  BY TidyAccepts DEF TypeOK, TidyNeverRefused
<1> QED
  BY <1>1, TypeCorrect, PTL

-----------------------------------------------------------------------------
(* No entry is lost, whatever is merged. *)

LEMMA HasIs ==
    ASSUME NEW t, NEW o, NEW l
    PROVE  Has(t, o, l) <=> \E i \in LabelsIn(t) : t[i].name = l /\ t[SectionOf(t, i)].name = o
<1>1. \A i : EntryAt(t, i).os = t[SectionOf(t, i)].name /\ EntryAt(t, i).label = t[i].name
  BY DEF EntryAt
<1> QED
  BY <1>1, EntriesAre DEF Has

\* Lines without a header of an OS take no entry out of its section.
LEMMA EntriesStay ==
    ASSUME NEW t, NEW n, NEW E, NEW y, IsSplice(t, n, E, y), OSesIn(E) = {}, Loads(t),
           NEW o, NEW l, Has(t, o, l)
    PROVE  Has(y, o, l)
<1> DEFINE m == Len(E)
<1>0. m = Len(E)
  OBVIOUS
<1> HIDE DEF m
<1>1. /\ t \in Seq(Lines) /\ y \in Seq(Lines) /\ Len(t) \in Nat /\ m \in Nat /\ n \in 1..Len(t) + 1
      /\ DOMAIN t = 1..Len(t) /\ DOMAIN y = 1..Len(t) + m
      /\ \A i \in 1..Len(t) : y[Shift(i, n, m)] = t[i]
  BY <1>0, PositionsAre DEF IsSplice
<1>2. \A i \in 1..Len(t) : Shift(i, n, m) \in DOMAIN y
  BY <1>1 DEF Shift
<1>3. PICK i \in LabelsIn(t) : t[i].name = l /\ t[SectionOf(t, i)].name = o
  BY HasIs
<1>4. i \in 1..Len(t) /\ IsLabel(t[i]) /\ i \in Keys(t) /\ t[i].kind # "os"
  BY <1>1, PositionsAre DEF LabelsIn, IsLabel
<1>5. SectionOf(t, i) \in 1..Len(t)
  BY <1>1, <1>4, KeysHaveSection, PositionsAre
<1> DEFINE a == Shift(i, n, m)
<1>6. a \in LabelsIn(y) /\ y[a].name = l
  BY <1>1, <1>2, <1>3, <1>4 DEF LabelsIn
<1>7. SectionOf(y, a) = Shift(SectionOf(t, i), n, m)
  BY <1>0, <1>4, SectionOfOld
<1> HIDE DEF a
<1>8. y[SectionOf(y, a)].name = o
  BY <1>1, <1>3, <1>5, <1>7
<1> QED
  BY <1>6, <1>8, HasIs

\* entryLinesFor never takes the header of an OS along.
LEMMA ScanWithinSection ==
    ASSUME NEW x \in Seq(Lines), NEW o, SectionFound(x, o), NEW l, LabelIdx(x, o, l) # 0
    PROVE  OSesIn(EntryLines(x, o, l)) = {}
<1> DEFINE b == BuildsIdx(x, o)
           u == OuterEnd(x, o)
<1>1. PICK st \in 1..Len(x), p \in 1..Len(x), en \in 1..Len(x) : Scan(x, o, l, st, p, en)
  BY ScanIs
<1>2. st \in b + 1..p /\ p \in b + 1..u - 1 /\ en \in p..u - 1 /\ EntryLines(x, o, l) = SubSeq(x, st, en)
  BY <1>1 DEF Scan
<1>3. b \in 2..Len(x) /\ u \in b + 1..Len(x) + 1 /\ \A i \in b..u - 1 : i \notin OSesIn(x)
  BY SectionIs
<1>4. DOMAIN x = 1..Len(x) /\ Len(x) \in Nat
  BY PositionsAre
<1> HIDE DEF b, u
<1>5. st <= en /\ \A j \in 1..en - st + 1 : st - 1 + j \in b..u - 1 /\ st - 1 + j \in 1..Len(x)
  BY <1>2, <1>3, <1>4
<1> DEFINE E == SubSeq(x, st, en)
           m == en - st + 1
<1>6. E \in Seq(Lines) /\ Len(E) = m /\ \A j \in 1..m : E[j] = x[st - 1 + j]
  BY <1>5, LinesCut
<1> HIDE DEF E, m
<1>7. \A j \in 1..m : ~IsOS(E[j])
  BY <1>3, <1>4, <1>5, <1>6 DEF OSesIn, m
<1>8. OSesIn(E) = {}
  BY <1>6, <1>7 DEF OSesIn
<1> QED
  BY <1>2, <1>8 DEF E

\* No entry is ever lost from the config: not when a merge goes wrong that
\* validateMerge lets pass (a scan of the -c file that cuts the entry short or takes
\* others along), and not when a person adds lines (merge.go:174-193, 256-275).
THEOREM NoEntryLost ==
    Spec => [][\A o \in OSes, l \in Labels : Has(file, o, l) => Has(file', o, l)]_vars
<1>1. ASSUME TypeOK, [Next]_vars, NEW o \in OSes, NEW l \in Labels, Has(file, o, l)
      PROVE  Has(file', o, l)
  <2>1. ASSUME NEW k \in Typed, Type(k) PROVE Has(file', o, l)
    <3>1. file \in Seq(Lines) /\ Loads(file) /\ file' = Append(file, k) /\ k \in Lines
      BY <1>1, <2>1, TypedAssumption DEF TypeOK, Type
    <3>2. file' \in Seq(Lines) /\ Len(file') = Len(file) + 1 /\ \A i \in 1..Len(file) : file'[i] = file[i]
      BY <3>1
    <3>3. DOMAIN file = 1..Len(file) /\ DOMAIN file' = 1..Len(file') /\ Len(file) \in Nat
      BY <3>1, <3>2, PositionsAre
    <3>4. PICK i \in LabelsIn(file) : file[i].name = l /\ file[SectionOf(file, i)].name = o
      BY <1>1, HasIs
    <3>5. i \in 1..Len(file) /\ IsLabel(file[i]) /\ i \in Keys(file) /\ file[i].kind # "os"
      BY <3>1, <3>3, PositionsAre DEF LabelsIn, IsLabel
    <3> DEFINE h == SectionOf(file, i)
    <3>6. h \in 1..Len(file)
      BY <3>1, <3>5, KeysHaveSection, PositionsAre
    <3>7. Prev(OSesIn(file), i, h)
      <4>1. i \in 1..Len(file) + 1
        BY <3>3, <3>5
      <4> QED
        BY <3>1, <4>1, SearchesAre
    <3>8. \A j \in 1..i : j \in OSesIn(file') <=> j \in OSesIn(file)
      BY <3>2, <3>3, <3>5 DEF OSesIn
    <3> HIDE DEF h
    <3>9. Prev(OSesIn(file'), i, h) /\ i \in 1..Len(file') + 1
      BY <3>2, <3>3, <3>5, <3>6, <3>7, <3>8 DEF Prev
    <3>10. SectionOf(file', i) = h
      BY <3>2, <3>9, SearchesOnly
    <3>11. i \in LabelsIn(file') /\ file'[i].name = l /\ file'[SectionOf(file', i)].name = o
      BY <3>2, <3>3, <3>4, <3>5, <3>6, <3>10 DEF LabelsIn, h
    <3> QED
      BY <3>11, HasIs
  <2>2. ASSUME NEW s \in Sources, Merge(s), file' # file PROVE Has(file', o, l)
    <3>1. Mergeable(file, s) /\ file' = Spliced(file, s) /\ file \in Seq(Lines) /\ Loads(file)
      BY <1>1, <2>2 DEF Merge, Accepts, TypeOK
    <3>2. PICK n \in 1..Len(file) + 1, E \in Seq(Lines) :
             E = EntryLines(s.text, s.os, s.label) /\ IsSplice(file, n, E, file')
      BY <3>1, MergeSplices
    <3>3. OSesIn(E) = {}
      BY <3>1, <3>2, SourcesAssumption, ScanWithinSection DEF Mergeable
    <3> QED
      BY <1>1, <3>1, <3>2, <3>3, EntriesStay
  <2>3. CASE UNCHANGED vars
    <3>1. file' = file
      BY <2>3 DEF vars
    <3> QED
      BY <1>1, <3>1
  <2>4. CASE file' = file
    BY <1>1, <2>4
  <2> QED
    BY <1>1, <2>1, <2>2, <2>3, <2>4 DEF Next
<1>2. TypeOK /\ [Next]_vars => [\A o \in OSes, l \in Labels : Has(file, o, l) => Has(file', o, l)]_vars
  BY <1>1
<1> QED
  BY <1>2, TypeCorrect, PTL DEF Spec
=============================================================================
