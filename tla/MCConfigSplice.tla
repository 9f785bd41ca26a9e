--------------------------- MODULE MCConfigSplice ---------------------------
(* ConfigSplice with the -c files of one entry that differ for it.             *)
EXTENDS ConfigSplice

MCTyped == {OSLine("a", FALSE), OSLine("b", FALSE), BuildsLine, Blank,
            LabelLine("new", FALSE), LabelLine("old", FALSE), LabelLine("old", TRUE),
            FieldLine("srpm"), FieldLine("packages"), Comment(0), Comment(6)}

\* What stands below `builds:` in a -c file: a bare entry, one with a comment above
\* it, one with comments inside and behind it, one that a comment at the margin cuts
\* in two, one with another entry below it.
SRPM == FieldLine("srpm")
Packages == FieldLine("packages")
Source(l, body) == [text |-> <<OSLine("a", FALSE), BuildsLine>> \o body, os |-> "a", label |-> l]
MCSources == LET new == LabelLine("new", FALSE)
                 late == LabelLine("late", FALSE)
             IN  {Source("new", <<new, SRPM>>),
                  Source("new", <<new, Comment(8), Packages, SRPM, Comment(0)>>),
                  Source("new", <<Comment(0), Comment(6), new, SRPM, Comment(0), Packages>>),
                  Source("late", <<Comment(6), late, SRPM, Packages, Blank>>),
                  Source("late", <<late, SRPM, new, Packages>>)}
=============================================================================
