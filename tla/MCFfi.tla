------------------------------- MODULE MCFfi --------------------------------
(* Small instances of the C interface: constants for TLC.                  *)
EXTENDS Ffi, TLC

CONSTANTS t1, t2, u1, arch, buf, scr

MCHolds == arch :> "archive" @@ buf :> "buffer" @@ scr :> "scratch"

ThreadSymmetry == Permutations(Threads)
=============================================================================
