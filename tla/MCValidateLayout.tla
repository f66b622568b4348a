-------------------------- MODULE MCValidateLayout --------------------------
(* Small tables for TLC: the real header size and encryption overhead, a   *)
(* payload region of a few bytes and 64-bit integers cut down to U64_MAX.  *)
EXTENDS ValidateLayout

Header(toc_offset, chunk_size, alignment, encrypted, max_total) ==
    [toc_offset |-> toc_offset, chunk_size |-> chunk_size,
     alignment |-> alignment, aead |-> encrypted, max_total |-> max_total]

\* A region of four bytes with a limit of three; one that ends at the largest
\* integer, whose chunks may expand to more than that; an encrypted one.
MCHeaders == {Header(64, 2, 2, FALSE, 3),
              Header(U64_MAX, 150, 2, FALSE, U64_MAX),
              Header(144, 2, 2, TRUE, 4)}

ChunkRecord(offset, stored_size, original_size, compressed) ==
    [offset |-> offset, stored_size |-> stored_size,
     original_size |-> original_size, compressed |-> compressed]

MCChunkRecords ==
    {ChunkRecord(o, s, r, z) :
        o \in {58, 60, 61, 62, 102, U64_MAX - 1}, s \in {0, 1, 2, 41},
        r \in {0, 1, 2, 150}, z \in BOOLEAN}

MCEntryRecords ==
    [first_chunk : 0 .. 2, chunk_count : 0 .. 2,
     original_size : {0, 1, 2, 3, 150}, stored_size : {0, 1, 2, 3, 41, 82}]
=============================================================================
