----------------------------- MODULE MCHostBuild -----------------------------
(* HostBuild on a small instance: two lines of output, success and failure. *)
EXTENDS HostBuild
=============================================================================
