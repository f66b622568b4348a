--------------------------- MODULE ValidateLayout ---------------------------
(***************************************************************************)
(* validate_layout of crates/rasen-archive/src/format/toc.rs, the check    *)
(* every decoded table of contents passes before an Archive exists: two    *)
(* loops with running state, one over the chunks and one over the entries  *)
(* with a loop over the chunks the entry owns inside it.                   *)
(*                                                                         *)
(* The decoded tables are arbitrary.  They are revealed one record at a    *)
(* time, as the loops reach them: the function never looks ahead in the    *)
(* chunk table, nor beyond the current entry in the entry table.           *)
(***************************************************************************)
EXTENDS Layout, FiniteSets

CONSTANTS
    Headers,       \* what the header and the limits may declare
    ChunkRecords,  \* the chunk records decode_toc may yield
    EntryRecords,  \* the entry records decode_toc may yield
    U64_MAX,
    MaxChunks, MaxEntries   \* bounds on the lengths of the two tables

ASSUME ValidateAssumption ==
    /\ U64_MAX \in Nat /\ HEADER_SIZE <= U64_MAX
    /\ Headers \subseteq [toc_offset : 0 .. U64_MAX, chunk_size : Nat \ {0},
                          alignment : Nat \ {0}, aead : BOOLEAN,
                          max_total : 0 .. U64_MAX]
    /\ ChunkRecords \subseteq [offset : 0 .. U64_MAX, stored_size : 0 .. U64_MAX,
                               original_size : 0 .. U64_MAX,
                               compressed : BOOLEAN]
    /\ EntryRecords \subseteq [first_chunk : Nat, chunk_count : Nat,
                               original_size : 0 .. U64_MAX,
                               stored_size : 0 .. U64_MAX]
    /\ {MaxChunks, MaxEntries} \subseteq Nat

VARIABLES
    pc,                 \* the loop that runs, or the verdict
    header,             \* the declared parameters
    chunks, entries,    \* the tables, as far as they were looked at
    previous_end, total_decompressed,          \* the chunk loop
    used_chunks,                               \* the entry loop
    local, raw_total, stored_total,            \* the loop over owned chunks
    err                 \* what a rejection blames

chunkLoop == <<previous_end, total_decompressed>>
ownedLoop == <<local, raw_total, stored_total>>
vars == <<pc, header, chunks, entries, chunkLoop, used_chunks, ownedLoop, err>>

L == [chunks |-> chunks, entries |-> entries, toc_offset |-> header.toc_offset,
      chunk_size |-> header.chunk_size, alignment |-> header.alignment,
      aead |-> header.aead]

entry == entries[Len(entries)]

Init ==
    /\ pc = "chunks"
    /\ header \in Headers
    /\ chunks = << >>
    /\ entries = << >>
    /\ previous_end = HEADER_SIZE
    /\ total_decompressed = 0
    /\ used_chunks = {}
    /\ local = 0
    /\ raw_total = 0
    /\ stored_total = 0
    /\ err = "none"

Reject(what) == pc' = "rejected" /\ err' = what

-----------------------------------------------------------------------------
\* Faulty: wants a gap between two chunks.
ChunkSound_WantsGap(c) ==
    LET payload_size == IF header.aead THEN c.stored_size - AEAD_OVERHEAD
                                       ELSE c.stored_size IN
    /\ c.original_size # 0 /\ c.original_size <= header.chunk_size
    /\ payload_size >= 1 /\ payload_size <= c.original_size
    /\ c.compressed => payload_size < c.original_size
    /\ ~c.compressed => payload_size = c.original_size
    /\ c.offset % header.alignment = 0
    /\ c.offset > previous_end
    /\ c.offset + c.stored_size <= header.toc_offset

\* The checks on one chunk up to the range check, in the code's arithmetic:
\* the payload of an encrypted chunk is a checked subtraction.
ChunkSound(c) ==
    LET payload_size == IF header.aead THEN c.stored_size - AEAD_OVERHEAD
                                       ELSE c.stored_size IN
    /\ payload_size >= 0
    /\ c.original_size # 0 /\ c.original_size <= header.chunk_size
    /\ payload_size # 0 /\ payload_size <= c.original_size
    /\ c.compressed => payload_size < c.original_size
    /\ ~c.compressed => payload_size = c.original_size
    /\ c.offset >= HEADER_SIZE /\ c.offset % header.alignment = 0
    /\ c.offset >= previous_end
    /\ c.offset + c.stored_size <= U64_MAX
    /\ c.offset + c.stored_size <= header.toc_offset

\* Faulty: does not add the chunk to the total.
CheckChunk_ForgetsTotal(c) ==
    /\ pc = "chunks"
    /\ Len(chunks) < MaxChunks
    /\ chunks' = Append(chunks, c)
    /\ ChunkSound(c)
    /\ total_decompressed + c.original_size <= header.max_total
    /\ previous_end' = c.offset + c.stored_size
    /\ UNCHANGED <<pc, header, entries, total_decompressed, used_chunks, ownedLoop, err>>

CheckChunk(c) ==
    /\ pc = "chunks"
    /\ Len(chunks) < MaxChunks
    /\ chunks' = Append(chunks, c)
    /\ ChunkSound(c)
    /\ total_decompressed + c.original_size <= header.max_total
    /\ previous_end' = c.offset + c.stored_size
    /\ total_decompressed' = total_decompressed + c.original_size
    /\ UNCHANGED <<pc, header, entries, used_chunks, ownedLoop, err>>

RejectChunk(c) ==
    /\ pc = "chunks"
    /\ Len(chunks) < MaxChunks
    /\ chunks' = Append(chunks, c)
    /\ \/ ~ChunkSound(c) /\ Reject("chunk")
       \/ /\ ChunkSound(c)
          /\ total_decompressed + c.original_size > U64_MAX
          /\ Reject("TooLarge")
       \/ /\ ChunkSound(c)
          /\ total_decompressed + c.original_size \in (header.max_total + 1) .. U64_MAX
          /\ Reject("ArchiveTooLarge")
    /\ UNCHANGED <<header, entries, chunkLoop, used_chunks, ownedLoop>>

\* used_chunks is allocated, all false; try_reserve_exact may find no memory.
EndOfChunks ==
    /\ pc = "chunks"
    /\ \/ pc' = "entries" /\ UNCHANGED err
       \/ Reject("memory")
    /\ UNCHANGED <<header, chunks, entries, chunkLoop, used_chunks, ownedLoop>>

-----------------------------------------------------------------------------
\* The entry's range lies in the table, and it is empty in every respect or
\* in none.
EntrySound(e) ==
    /\ e.first_chunk + e.chunk_count <= Len(chunks)
    /\ \/ e.original_size = 0 /\ e.chunk_count = 0 /\ e.stored_size = 0
       \/ e.original_size >= 1 /\ e.chunk_count >= 1

TakeEntry(e) ==
    /\ pc = "entries"
    /\ Len(entries) < MaxEntries
    /\ entries' = Append(entries, e)
    /\ IF EntrySound(e) THEN pc' = "owned" /\ UNCHANGED err ELSE Reject("entry")
    /\ local' = 0
    /\ raw_total' = 0
    /\ stored_total' = 0
    /\ UNCHANGED <<header, chunks, chunkLoop, used_chunks>>

global == entry.first_chunk + local + 1

OwnedSound ==
    /\ global \notin used_chunks
    /\ raw_total + chunks[global].original_size <= U64_MAX
    /\ stored_total + chunks[global].stored_size <= U64_MAX
    /\ \/ local + 1 = entry.chunk_count
       \/ chunks[global].original_size = header.chunk_size

\* Faulty: marks the chunk after the one that was looked at.
CheckOwned_MarksNext ==
    /\ pc = "owned"
    /\ local < entry.chunk_count
    /\ IF OwnedSound
       THEN /\ used_chunks' = used_chunks \cup {global + 1}
            /\ raw_total' = raw_total + chunks[global].original_size
            /\ stored_total' = stored_total + chunks[global].stored_size
            /\ local' = local + 1
            /\ UNCHANGED <<pc, err>>
       ELSE Reject("entry") /\ UNCHANGED <<used_chunks, ownedLoop>>
    /\ UNCHANGED <<header, chunks, entries, chunkLoop>>

CheckOwned ==
    /\ pc = "owned"
    /\ local < entry.chunk_count
    /\ IF OwnedSound
       THEN /\ used_chunks' = used_chunks \cup {global}
            /\ raw_total' = raw_total + chunks[global].original_size
            /\ stored_total' = stored_total + chunks[global].stored_size
            /\ local' = local + 1
            /\ UNCHANGED <<pc, err>>
       ELSE Reject("entry") /\ UNCHANGED <<used_chunks, ownedLoop>>
    /\ UNCHANGED <<header, chunks, entries, chunkLoop>>

\* Faulty: does not compare the stored total.
EndOfOwned_RawOnly ==
    /\ pc = "owned"
    /\ local = entry.chunk_count
    /\ IF raw_total = entry.original_size
       THEN pc' = "entries" /\ UNCHANGED err
       ELSE Reject("entry")
    /\ UNCHANGED <<header, chunks, entries, chunkLoop, used_chunks, ownedLoop>>

EndOfOwned ==
    /\ pc = "owned"
    /\ local = entry.chunk_count
    /\ IF raw_total = entry.original_size /\ stored_total = entry.stored_size
       THEN pc' = "entries" /\ UNCHANGED err
       ELSE Reject("entry")
    /\ UNCHANGED <<header, chunks, entries, chunkLoop, used_chunks, ownedLoop>>

EndOfEntries ==
    /\ pc = "entries"
    /\ IF used_chunks = DOMAIN chunks
       THEN pc' = "accepted" /\ UNCHANGED err
       ELSE Reject("orphan")
    /\ UNCHANGED <<header, chunks, entries, chunkLoop, used_chunks, ownedLoop>>

Terminated ==
    /\ pc \in {"accepted", "rejected"}
    /\ UNCHANGED vars

Next ==
    \/ \E c \in ChunkRecords : CheckChunk(c) \/ RejectChunk(c)
    \/ EndOfChunks
    \/ \E e \in EntryRecords : TakeEntry(e)
    \/ CheckOwned
    \/ EndOfOwned
    \/ EndOfEntries
    \/ Terminated

Spec == Init /\ [][Next]_vars

-----------------------------------------------------------------------------
(* Properties *)

\* The loops' state has its type: every running sum is one a u64 holds, the
\* decompressed total is within the caller's limit, and only chunks of the
\* table are counted and marked.
TypeOK ==
    /\ pc \in {"chunks", "entries", "owned", "accepted", "rejected"}
    /\ header \in Headers
    /\ chunks \in Seq(ChunkRecords)
    /\ entries \in Seq(EntryRecords)
    /\ previous_end \in 0 .. U64_MAX
    /\ total_decompressed \in 0 .. header.max_total
    /\ raw_total \in 0 .. U64_MAX
    /\ stored_total \in 0 .. U64_MAX
    /\ used_chunks \subseteq 1 .. Len(chunks)
    /\ local \in 0 .. Len(chunks)
    /\ err \in {"none", "chunk", "TooLarge", "ArchiveTooLarge", "memory", "entry",
                "orphan"}

\* What validate_layout lets through is a well-formed layout, and decompresses
\* to no more than the caller's limit: the running previous_end, used_chunks
\* and totals add up to the properties of the whole tables.
AcceptedIsWellFormed ==
    pc = "accepted" =>
        /\ WellFormed(L)
        /\ OriginalTotal(L, DOMAIN chunks) <= header.max_total

\* Nothing well-formed is turned away: a rejection names a part of the tables
\* that is really at fault, and size errors only come from the limit.  Memory
\* that runs out blames nothing.
RejectedIsIllFormed ==
    /\ err = "chunk" => ~ChunkTableOk(L)
    /\ err = "entry" => ~EntryTableOk(L)
    /\ err = "orphan" => ~NoOrphanChunk(L)
    /\ err \in {"TooLarge", "ArchiveTooLarge"} =>
          OriginalTotal(L, DOMAIN chunks) > header.max_total

\* validate_layout decides well-formedness: it accepts well-formed layouts
\* within the limit, and nothing else, as long as there is memory.
AcceptsExactlyWellFormed == AcceptedIsWellFormed /\ RejectedIsIllFormed

\* The checked additions of the entry loop cannot fail: the chunk loop has
\* already bounded the sum of what any set of distinct chunks contributes.
EntryTotalsFit ==
    pc = "owned" /\ local < entry.chunk_count /\ global \notin used_chunks =>
        /\ raw_total + chunks[global].original_size <= header.max_total
        /\ stored_total + chunks[global].stored_size <= header.toc_offset
=============================================================================
