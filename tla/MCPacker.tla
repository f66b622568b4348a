------------------------------ MODULE MCPacker ------------------------------
(* Small instances of the packer: constants for TLC.                       *)
EXTENDS Packer, TLC

CONSTANTS a, b, c

\* Two spellings of path a, two paths whose hashes collide, a bad path.
MCRawPaths == {"a", "./a", "b", "..", "c"}
MCNormalize == "a" :> a @@ "./a" :> a @@ "b" :> b @@ ".." :> Rejected @@ "c" :> c
MCPathHash == a :> 1 @@ b :> 1 @@ c :> 2
MCPathLen == a :> 1 @@ b :> 2 @@ c :> 3

Opts(k, chunk_size, alignment, mode, protection) ==
    [key |-> k, chunk_size |-> chunk_size, alignment |-> alignment,
     mode |-> mode, protection |-> protection]

\* Padding in several pieces (alignment 8), padding that is always empty
\* (alignment 1), both modes, both protections, and options new refuses.
MCOptionSet == {
    Opts("k", 2, 8, "Debug", "Xor"),
    Opts("k", 2, 1, "Production", "Aead"),
    Opts("k", 3, 4, "Debug", "Aead"),
    Opts("", 2, 8, "Debug", "Xor"),
    Opts("k", 0, 8, "Debug", "Xor"),
    Opts("k", 2, 6, "Debug", "Xor")}
=============================================================================
