------------------------------ MODULE MCPackDir -----------------------------
(* Small instances of pack_dir: constants for TLC.                         *)
EXTENDS PackDir, TLC

CONSTANTS p1, p2, out, in1, in2, v1, v2

\* Killed processes that had the same ids have left one of the first
\* invocation's temporary names and both of the second's.
MCPid == p1 :> 1 @@ p2 :> 2
MCLeftover == {<<out, 1, 0>>, <<out, 2, 0>>, <<out, 2, 1>>}

MCSubDirs == "root" :> {"sub"} @@ "sub" :> {}
MCHome == in1 :> "root" @@ in2 :> "sub" @@ out :> "sub"

\* The input in the subdirectory sorts first; temporary files sort after the
\* output they are named after.
MCRank == [n \in Names |-> CASE n = in1 -> 2 [] n = in2 -> 1 [] n = out -> 3
                             [] OTHER -> 3 + 2 * n[2] + n[3]]
=============================================================================
