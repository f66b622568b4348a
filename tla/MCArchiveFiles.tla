--------------------------- MODULE MCArchiveFiles ---------------------------
(* A small instance of the archive path and its users: constants for TLC.  *)
EXTENDS ArchiveFiles, TLC

CONSTANTS p1, p2, q1, r1
=============================================================================
