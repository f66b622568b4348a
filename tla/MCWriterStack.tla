---------------------------- MODULE MCWriterStack ---------------------------
(* Small instances of the packer on its writers: constants for TLC.        *)
EXTENDS WriterStack, TLC

CONSTANTS a, b

MCNormalize == "a" :> a @@ "b" :> b @@ ".." :> Rejected
MCPathHash == a :> 1 @@ b :> 2
MCPathLen == a :> 1 @@ b :> 2

MCOptionSet ==
    {[key |-> "k", chunk_size |-> 2, alignment |-> 1, mode |-> "Debug", protection |-> "Xor"],
     [key |-> "k", chunk_size |-> 2, alignment |-> 8, mode |-> "Production", protection |-> "Aead"],
     [key |-> "", chunk_size |-> 2, alignment |-> 8, mode |-> "Debug", protection |-> "Xor"]}

MCLimits == [max_toc_stored_bytes |-> 1000, max_toc_raw_bytes |-> 1000, max_entries |-> 10,
             max_chunks |-> 10, max_path_bytes |-> 10, max_total_path_bytes |-> 100,
             max_single_asset_bytes |-> 1000, max_metadata_bytes |-> 10000]
=============================================================================
