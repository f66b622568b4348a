------------------------- MODULE MCPositionedReads --------------------------
(* A small instance of the sources: constants for TLC.                     *)
EXTENDS PositionedReads

CONSTANTS t1, t2
=============================================================================
