------------------------------ MODULE MCReader ------------------------------
(* Small open archives: constants for TLC.                                 *)
EXTENDS Reader

CHUNK_SIZE == 2

\* The table the packer makes of assets with these sizes: every second full
\* chunk is compressed, to one byte.
ChunkCount(size) == (size + CHUNK_SIZE - 1) \div CHUNK_SIZE

Table(sizes, aead) ==
    LET First(i) == SumFunctionOnSet([j \in DOMAIN sizes |-> ChunkCount(sizes[j])], 1 .. (i - 1))
        overhead == IF aead THEN AEAD_OVERHEAD ELSE 0
        slot == CHUNK_SIZE + overhead
        Chunk(i, l) ==
            LET original == MinOf(CHUNK_SIZE, sizes[i] - l * CHUNK_SIZE)
                compressed == original = 2 /\ l % 2 = 1 IN
            [offset |-> HEADER_SIZE + slot * (First(i) + l),
             stored_size |-> overhead + IF compressed THEN 1 ELSE original,
             original_size |-> original, compressed |-> compressed]
        chunks == FlattenSeq([i \in DOMAIN sizes |->
                     [l \in 1 .. ChunkCount(sizes[i]) |-> Chunk(i, l - 1)]])
    IN [chunks |-> chunks,
        entries |-> [i \in DOMAIN sizes |->
            [first_chunk |-> First(i), chunk_count |-> ChunkCount(sizes[i]),
             original_size |-> sizes[i],
             stored_size |-> SumFunctionOnSet([k \in DOMAIN chunks |-> chunks[k].stored_size],
                                (First(i) + 1) .. (First(i) + ChunkCount(sizes[i])))]],
        toc_offset |-> HEADER_SIZE + slot * Len(chunks),
        chunk_size |-> CHUNK_SIZE, alignment |-> 1, aead |-> aead]

\* One asset of three chunks, the last short; an empty asset and a full one;
\* two assets that meet in the middle of the chunk table.
MCLayouts == {Table(s, aead) : s \in {<<5>>, <<0, 4>>, <<1, 3>>}, aead \in BOOLEAN}
=============================================================================
