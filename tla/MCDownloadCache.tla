--------------------------- MODULE MCDownloadCache ---------------------------
(* DownloadCache with two processes, a file of two blocks and a few runs. *)
EXTENDS DownloadCache
CONSTANTS p1, p2
=============================================================================
