-------------------------- MODULE MCCandidateBuild --------------------------
(* CandidateBuild with files that differ in what a launch, a process of the    *)
(* container or a merge makes of them.                                         *)
EXTENDS CandidateBuild, TLC

OL == [id |-> "ol", major |-> 9]
Stream == [id |-> "centos", major |-> 9]
Fedora == [id |-> "fedora", major |-> 42]
MCOSes == {OL, Stream, Fedora}

Table(b, c) == [o \in MCOSes |-> CASE o = OL -> b [] o = Stream -> c [] OTHER -> "no build"]
Text(loads, b, c) == [loads |-> loads, builds |-> Table(b, c)]
MCTexts == {Text(TRUE, "a", "no build"), Text(TRUE, "b", "no build"), Text(TRUE, "bare", "no build"),
            Text(TRUE, "a", "b"), Text(TRUE, "no build", "b"), Text(FALSE, "a", "no build")}

Main(sections, b) == [loads |-> TRUE, sections |-> sections, builds |-> Table(b, "no build")]
MCMains == {Main({OL, Stream}, "no build"), Main({OL}, "a"), Main({OL}, "b"),
            Main({}, "no build"), [Main({OL}, "no build") EXCEPT !.loads = FALSE]}

Image(o) == [os |-> o, define |-> TRUE]
MCImages == {(OL :> Image(OL)) @@ (Stream :> Image(Stream)),
             (OL :> Image(Stream)) @@ (Stream :> Image(Stream)),
             OL :> Image(Fedora), OL :> Image(OL), Fedora :> Image(Fedora), <<>>}
=============================================================================
