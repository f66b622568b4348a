------------------------------- MODULE Layout -------------------------------
(***************************************************************************)
(* The layout an RPAK v1 table of contents may describe: a reference       *)
(* definition, without behaviour, of what the packer must produce and of   *)
(* what the reader may accept.  A layout L is a record with the fields     *)
(*                                                                         *)
(*   chunks     the chunk table, a sequence of chunk records               *)
(*   entries    the entry table, a sequence of entry records               *)
(*   toc_offset the position of the stored table of contents               *)
(*   chunk_size, alignment, aead   what the header declares                *)
(*                                                                         *)
(* Positions, sizes and chunk indexes count from 0 as in the code;         *)
(* sequences count from 1, so chunk index k is L.chunks[k + 1].            *)
(***************************************************************************)
EXTENDS Integers, Sequences, Functions

\* The fixed sizes of the format: 12 header fields, and the nonce (24) and
\* tag (16) that XChaCha20-Poly1305 adds to a stored chunk.
HEADER_SIZE == 60
AEAD_OVERHEAD == 40

\* align_up for a non-zero power of two: v & !mask drops the remainder.
AlignedUp(value, alignment) ==
    LET v == value + (alignment - 1) IN v - (v % alignment)

-----------------------------------------------------------------------------
(* One chunk.                                                              *)

PayloadSize(L, c) ==
    IF L.aead THEN c.stored_size - AEAD_OVERHEAD ELSE c.stored_size

ChunkEnd(c) == c.offset + c.stored_size

\* A chunk holds 1..chunk_size bytes and is kept compressed exactly when
\* that makes it smaller.
ChunkSizesOk(L, c) ==
    /\ c.original_size \in 1 .. L.chunk_size
    /\ PayloadSize(L, c) \in 1 .. c.original_size
    /\ c.compressed <=> PayloadSize(L, c) < c.original_size

ChunkPlaced(L, c) ==
    /\ c.offset % L.alignment = 0
    /\ HEADER_SIZE <= c.offset
    /\ ChunkEnd(c) <= L.toc_offset

ChunksDisjoint(L) ==
    \A i, j \in DOMAIN L.chunks :
        i < j => ChunkEnd(L.chunks[i]) <= L.chunks[j].offset

ChunkTableOk(L) ==
    /\ \A i \in DOMAIN L.chunks :
          ChunkSizesOk(L, L.chunks[i]) /\ ChunkPlaced(L, L.chunks[i])
    /\ ChunksDisjoint(L)

-----------------------------------------------------------------------------
(* The entries.                                                            *)

\* The (1-based) positions in the chunk table of the chunks entry e owns.
Owned(e) == (e.first_chunk + 1) .. (e.first_chunk + e.chunk_count)

\* An empty entry too names a place in the table, or its end.
EntriesInTable(L) ==
    \A i \in DOMAIN L.entries :
        L.entries[i].first_chunk + L.entries[i].chunk_count <= Len(L.chunks)

EntriesDisjoint(L) ==
    \A i, j \in DOMAIN L.entries :
        i # j => Owned(L.entries[i]) \cap Owned(L.entries[j]) = {}

NoOrphanChunk(L) ==
    \A k \in DOMAIN L.chunks :
        \E i \in DOMAIN L.entries : k \in Owned(L.entries[i])

\* Only the last chunk of an entry may be short: byte n of an entry is then
\* in its chunk n \div chunk_size, which is what a range read relies on.
NonFinalChunksFull(L) ==
    \A i \in DOMAIN L.entries :
        \A k \in Owned(L.entries[i]) :
            k + 1 \in Owned(L.entries[i]) =>
                L.chunks[k].original_size = L.chunk_size

\* The sizes an entry declares are those of its chunks.
OriginalTotal(L, K) ==
    SumFunctionOnSet([k \in DOMAIN L.chunks |-> L.chunks[k].original_size], K)

StoredTotal(L, K) ==
    SumFunctionOnSet([k \in DOMAIN L.chunks |-> L.chunks[k].stored_size], K)

EntrySizesMatch(L) ==
    \A i \in DOMAIN L.entries :
        LET e == L.entries[i] IN
        /\ e.original_size = OriginalTotal(L, Owned(e))
        /\ e.stored_size = StoredTotal(L, Owned(e))

\* The same for original_size without a sum: what EntrySizesMatch comes to
\* when every chunk but the last is full.
ClosedFormSizes(L) ==
    \A i \in DOMAIN L.entries :
        LET e == L.entries[i] IN
        e.original_size =
            IF e.chunk_count = 0 THEN 0
            ELSE (e.chunk_count - 1) * L.chunk_size
                    + L.chunks[e.first_chunk + e.chunk_count].original_size

EntryTableOk(L) ==
    /\ EntriesInTable(L)
    /\ EntriesDisjoint(L)
    /\ NonFinalChunksFull(L)
    /\ EntrySizesMatch(L)

WellFormed(L) ==
    /\ ChunkTableOk(L)
    /\ EntryTableOk(L)
    /\ NoOrphanChunk(L)
=============================================================================
