---------------------------- MODULE MCConfigMerge ----------------------------
(* ConfigMerge with three merges: two of one entry with different builds, and *)
(* one of another entry; two of different entries in histories of overlaps.  *)
EXTENDS ConfigMerge, TLC

CONSTANTS p1, p2, p3, k1, k2, b1, b2

MCKeyOf == p1 :> k1 @@ p2 :> k2 @@ p3 :> k1
MCBuildOf == p1 :> b1 @@ p2 :> b2 @@ p3 :> b2
MCExact == {p1, p3}
MCTogether == {{}, {p1, p2}}
=============================================================================
