------------------------ MODULE ValidateLayoutProofs ------------------------
(***************************************************************************)
(* What validate_layout establishes, for tables of any length and any      *)
(* declared parameters.  The running variables of the loops (previous_end, *)
(* used_chunks, local) are tied to the part of the tables that was looked  *)
(* at, which is IInv; ExactInv adds that the running totals are the sums.  *)
(* The verdict follows when the loops have seen everything.                *)
(***************************************************************************)
EXTENDS ValidateLayout, SumTheorems

\* The entries whose owned chunks have all been checked.
Checked == {i \in DOMAIN entries : pc = "owned" => i < Len(entries)}

\* The chunks of the current entry that have been checked.
Marked == (entry.first_chunk + 1) .. (entry.first_chunk + local)

\* The chunk loop: the chunks seen are sound and end at or before previous_end.
ChunkLoopInv ==
    pc # "rejected" =>
        /\ ChunkTableOk(L)
        /\ previous_end >= HEADER_SIZE
        /\ \A i \in DOMAIN chunks : ChunkEnd(chunks[i]) <= previous_end

\* used_chunks is what the checked entries own and what the current one marked.
UsedInv ==
    /\ pc = "chunks" => entries = << >> /\ used_chunks = {}
    /\ pc \in {"entries", "accepted"} =>
          \A k \in DOMAIN chunks :
              k \in used_chunks <=> \E i \in Checked : k \in Owned(entries[i])
    /\ pc = "owned" =>
          \A k \in DOMAIN chunks :
              k \in used_chunks <=>
                  \/ \E i \in Checked : k \in Owned(entries[i])
                  \/ k \in Marked

\* Checked entries own chunks of the table, apart from each other, full but
\* for the last.
CheckedInv ==
    pc # "rejected" =>
        /\ EntriesInTable(L)
        /\ \A i, j \in Checked :
              i # j => Owned(entries[i]) \cap Owned(entries[j]) = {}
        /\ \A i \in Checked : \A k \in Owned(entries[i]) :
              k + 1 \in Owned(entries[i]) =>
                  chunks[k].original_size = header.chunk_size

\* The current entry: its marked chunks are its own, full but for the last.
OwnedInv ==
    pc = "owned" =>
        /\ entries # << >>
        /\ local <= entry.chunk_count
        /\ \A i \in Checked : Owned(entries[i]) \cap Marked = {}
        /\ \A k \in Marked :
              k # entry.first_chunk + entry.chunk_count =>
                  chunks[k].original_size = header.chunk_size

AcceptedInv == pc = "accepted" => used_chunks = DOMAIN chunks

\* The owned-chunk loop stays inside the entry, and the entry inside the table.
RangeInv ==
    pc = "owned" =>
        /\ entries # << >>
        /\ local <= entry.chunk_count
        /\ entry.first_chunk + entry.chunk_count <= Len(chunks)

Typing == TypeOK /\ RangeInv

IInv == Typing /\ ChunkLoopInv /\ UsedInv /\ CheckedInv /\ OwnedInv /\ AcceptedInv

-----------------------------------------------------------------------------
\* The fields of decoded records are natural numbers.
LEMMA RecordTypes ==
    /\ \A c \in ChunkRecords :
          /\ c.offset \in Nat /\ c.stored_size \in Nat
          /\ c.original_size \in Nat /\ c.compressed \in BOOLEAN
    /\ \A e \in EntryRecords :
          /\ e.first_chunk \in Nat /\ e.chunk_count \in Nat
          /\ e.original_size \in Nat /\ e.stored_size \in Nat
    /\ \A h \in Headers :
          /\ h.toc_offset \in Nat /\ h.chunk_size \in Nat \ {0}
          /\ h.alignment \in Nat \ {0} /\ h.aead \in BOOLEAN
          /\ h.max_total \in Nat /\ h.max_total <= U64_MAX
    /\ U64_MAX \in Nat
  BY ValidateAssumption

\* The last entry and the chunk the owned loop looks at are records of the
\* tables: the indexing in validate_layout is never out of bounds.
LEMMA CurrentRecords ==
    ASSUME Typing, pc = "owned"
    PROVE  /\ entry \in EntryRecords
           /\ entry.first_chunk \in Nat
           /\ entry.chunk_count \in Nat
           /\ local < entry.chunk_count =>
                 /\ global \in 1 .. Len(chunks)
                 /\ chunks[global] \in ChunkRecords
                 /\ chunks[global].original_size \in Nat
                 /\ chunks[global].stored_size \in Nat
<1>1. Len(entries) \in 1 .. Len(entries)
  BY DEF Typing, TypeOK, RangeInv
<1>2. entry \in EntryRecords
  BY <1>1 DEF Typing, TypeOK, entry
<1>3. entry.first_chunk \in Nat /\ entry.chunk_count \in Nat /\ local \in Nat
  BY <1>2, RecordTypes DEF Typing, TypeOK
<1>4. ASSUME local < entry.chunk_count PROVE global \in 1 .. Len(chunks)
  BY <1>3, <1>4 DEF Typing, RangeInv, TypeOK, global
<1> QED
  BY <1>2, <1>3, <1>4, RecordTypes DEF Typing, TypeOK

\* Every action of validate_layout preserves the typing.
LEMMA TypingStep == Typing /\ [Next]_vars => Typing'
<1> SUFFICES ASSUME Typing, [Next]_vars PROVE Typing'
  OBVIOUS
<1>1. ASSUME NEW c \in ChunkRecords, CheckChunk(c) PROVE Typing'
  <2>1. /\ previous_end' \in 0 .. U64_MAX
        /\ total_decompressed' \in 0 .. header'.max_total
    <3>1. /\ c.offset \in Nat /\ c.stored_size \in Nat /\ c.original_size \in Nat
          /\ header.max_total \in Nat /\ U64_MAX \in Nat
          /\ total_decompressed \in 0 .. header.max_total
      BY RecordTypes DEF Typing, TypeOK
    <3>2. /\ c.offset + c.stored_size <= U64_MAX
          /\ total_decompressed + c.original_size <= header.max_total
          /\ previous_end' = c.offset + c.stored_size
          /\ total_decompressed' = total_decompressed + c.original_size
          /\ header' = header
      BY <1>1 DEF CheckChunk, ChunkSound
    <3> QED
      BY <3>1, <3>2
  <2>2. chunks' \in Seq(ChunkRecords) /\ Len(chunks') = Len(chunks) + 1
    BY <1>1 DEF CheckChunk, Typing, TypeOK
  <2>3. used_chunks' \subseteq 1 .. Len(chunks') /\ local' \in 0 .. Len(chunks')
    BY <1>1, <2>2 DEF CheckChunk, ownedLoop, Typing, TypeOK
  <2> QED
    BY <1>1, <2>1, <2>2, <2>3 DEF CheckChunk, ownedLoop, Typing, TypeOK, RangeInv
<1>2. ASSUME NEW c \in ChunkRecords, RejectChunk(c) PROVE Typing'
  <2>1. pc' = "rejected" /\ err' \in {"chunk", "TooLarge", "ArchiveTooLarge"}
    BY <1>2 DEF RejectChunk, Reject
  <2>2. chunks' \in Seq(ChunkRecords) /\ Len(chunks') = Len(chunks) + 1
    BY <1>2 DEF RejectChunk, Typing, TypeOK
  <2>3. used_chunks' \subseteq 1 .. Len(chunks') /\ local' \in 0 .. Len(chunks')
    BY <1>2, <2>2 DEF RejectChunk, ownedLoop, Typing, TypeOK
  <2> QED
    BY <1>2, <2>1, <2>2, <2>3 DEF RejectChunk, ownedLoop, chunkLoop, Typing, TypeOK, RangeInv
<1>3. CASE EndOfChunks
  <2>1. /\ pc' \in {"entries", "rejected"} /\ err' \in {err, "memory"}
        /\ UNCHANGED <<header, chunks, entries, chunkLoop, used_chunks, ownedLoop>>
    BY <1>3 DEF EndOfChunks, Reject
  <2> QED
    BY <2>1 DEF ownedLoop, chunkLoop, Typing, TypeOK, RangeInv
<1>4. ASSUME NEW e \in EntryRecords, TakeEntry(e) PROVE Typing'
  <2>1. TypeOK'
    <3>1. 0 \in 0 .. U64_MAX /\ 0 \in 0 .. Len(chunks)
      BY RecordTypes DEF Typing, TypeOK
    <3>2. pc' \in {"owned", "rejected"} /\ err' \in {err, "entry"}
      BY <1>4 DEF TakeEntry, Reject
    <3> QED
      BY <1>4, <3>1, <3>2 DEF TakeEntry, chunkLoop, Typing, TypeOK
  <2>2. entry' = e /\ entries' # << >>
    <3>1. entries \in Seq(EntryRecords) /\ entries' = Append(entries, e)
      BY <1>4 DEF TakeEntry, Typing, TypeOK
    <3>2. Len(entries') = Len(entries) + 1 /\ entries'[Len(entries) + 1] = e
      BY <3>1
    <3> QED
      BY <3>1, <3>2 DEF entry
  <2>3. RangeInv'
    BY <1>4, <2>2, RecordTypes DEF TakeEntry, Reject, EntrySound, RangeInv
  <2> QED
    BY <2>1, <2>3 DEF Typing
<1>5. CASE CheckOwned
  <2>1. /\ pc = "owned" /\ local < entry.chunk_count
        /\ UNCHANGED <<header, chunks, entries, previous_end, total_decompressed>>
    BY <1>5 DEF CheckOwned, chunkLoop
  <2>2. /\ global \in 1 .. Len(chunks)
        /\ chunks[global].original_size \in Nat
        /\ chunks[global].stored_size \in Nat
        /\ entry.chunk_count \in Nat
    BY <2>1, CurrentRecords
  <2>3. CASE ~OwnedSound
    BY <1>5, <2>1, <2>3 DEF CheckOwned, Reject, ownedLoop, Typing, TypeOK, RangeInv
  <2>4. CASE OwnedSound
    <3>1. /\ used_chunks' = used_chunks \cup {global}
          /\ raw_total' = raw_total + chunks[global].original_size
          /\ stored_total' = stored_total + chunks[global].stored_size
          /\ local' = local + 1
          /\ UNCHANGED <<pc, err>>
      BY <1>5, <2>4 DEF CheckOwned
    <3>2. TypeOK'
      <4>1. /\ raw_total \in 0 .. U64_MAX /\ stored_total \in 0 .. U64_MAX
            /\ local \in Nat /\ U64_MAX \in Nat /\ Len(chunks) \in Nat
            /\ used_chunks \subseteq 1 .. Len(chunks)
        BY RecordTypes DEF Typing, TypeOK
      <4>2. /\ raw_total' \in 0 .. U64_MAX /\ stored_total' \in 0 .. U64_MAX
            /\ local' \in 0 .. Len(chunks)
        <5>1. /\ raw_total' <= U64_MAX /\ stored_total' <= U64_MAX
          BY <2>4, <3>1 DEF OwnedSound
        <5>2. entry.first_chunk + entry.chunk_count <= Len(chunks)
          BY <2>1 DEF Typing, RangeInv
        <5>3. entry.first_chunk \in Nat
          BY <2>1, CurrentRecords
        <5>4. local + 1 <= entry.chunk_count /\ entry.chunk_count <= Len(chunks)
          BY <2>1, <2>2, <4>1, <5>2, <5>3
        <5>5. local' \in 0 .. Len(chunks)
          BY <2>2, <3>1, <4>1, <5>4
        <5>6. raw_total' \in Nat /\ stored_total' \in Nat
          BY <2>2, <3>1, <4>1
        <5> QED
          BY <4>1, <5>1, <5>5, <5>6
      <4>3. used_chunks' \subseteq 1 .. Len(chunks')
        BY <2>1, <2>2, <3>1, <4>1
      <4> QED
        BY <2>1, <3>1, <4>2, <4>3 DEF Typing, TypeOK
    <3>3. entry' = entry
      BY <2>1 DEF entry
    <3>4. RangeInv'
      BY <2>1, <2>2, <3>1, <3>3 DEF Typing, TypeOK, RangeInv
    <3> QED
      BY <3>2, <3>4 DEF Typing
  <2> QED
    BY <2>3, <2>4
<1>6. CASE EndOfOwned
  BY <1>6 DEF EndOfOwned, Reject, ownedLoop, chunkLoop, Typing, TypeOK, RangeInv
<1>7. CASE EndOfEntries
  BY <1>7 DEF EndOfEntries, Reject, ownedLoop, chunkLoop, Typing, TypeOK, RangeInv
<1>8. CASE Terminated \/ UNCHANGED vars
  BY <1>8 DEF Terminated, vars, ownedLoop, chunkLoop, Typing, TypeOK, RangeInv, entry
<1> QED
  BY <1>1, <1>2, <1>3, <1>4, <1>5, <1>6, <1>7, <1>8 DEF Next

\* The loops of validate_layout keep their variables in their types.
THEOREM TypeCorrect == Spec => []TypeOK
<1>1. Init => Typing
  BY ValidateAssumption DEF Init, Typing, TypeOK, RangeInv, HEADER_SIZE
<1>2. Typing => TypeOK
  BY DEF Typing
<1> QED
  BY <1>1, <1>2, TypingStep, PTL DEF Spec

-----------------------------------------------------------------------------
\* A chunk that passes the checks of the loop extends a sound chunk table.
LEMMA ChunkLoopStep ==
    ASSUME Typing, ChunkLoopInv, NEW c \in ChunkRecords, CheckChunk(c)
    PROVE  ChunkLoopInv'
<1>1. /\ chunks' = Append(chunks, c)
      /\ previous_end' = c.offset + c.stored_size
      /\ UNCHANGED <<pc, header, entries>>
      /\ pc = "chunks"
      /\ ChunkSound(c)
  BY DEF CheckChunk
<1>2. /\ chunks \in Seq(ChunkRecords) /\ previous_end \in Nat /\ header \in Headers
      /\ c.offset \in Nat /\ c.stored_size \in Nat /\ c.original_size \in Nat
      /\ c.compressed \in BOOLEAN /\ header.aead \in BOOLEAN
      /\ header.chunk_size \in Nat
  BY RecordTypes DEF Typing, TypeOK
<1>3. \A i \in DOMAIN chunks : /\ chunks[i] \in ChunkRecords
                               /\ chunks[i].offset \in Nat
                               /\ chunks[i].stored_size \in Nat
  BY <1>2, RecordTypes
<1>4. /\ DOMAIN chunks' = 1 .. Len(chunks) + 1
      /\ DOMAIN chunks = 1 .. Len(chunks)
      /\ \A i \in DOMAIN chunks : chunks'[i] = chunks[i]
      /\ chunks'[Len(chunks) + 1] = c
      /\ Len(chunks) \in Nat
  BY <1>1, <1>2
<1>5. ChunkSizesOk(L', c) /\ ChunkPlaced(L', c)
  <2> DEFINE size == IF header.aead THEN c.stored_size - AEAD_OVERHEAD
                                    ELSE c.stored_size
  <2>1. /\ size >= 0 /\ size # 0 /\ size <= c.original_size
        /\ c.compressed => size < c.original_size
        /\ ~c.compressed => size = c.original_size
        /\ size \in Int
    BY <1>1, <1>2 DEF ChunkSound, AEAD_OVERHEAD
  <2>2. /\ L'.aead = header.aead /\ L'.chunk_size = header.chunk_size
        /\ L'.alignment = header.alignment /\ L'.toc_offset = header.toc_offset
    BY <1>1 DEF L
  <2>3. PayloadSize(L', c) = size
    BY <2>2 DEF PayloadSize
  <2> HIDE DEF size
  <2>4. size \in 1 .. c.original_size
    BY <1>2, <2>1
  <2>5. c.compressed <=> size < c.original_size
    BY <1>2, <2>1
  <2>6. c.original_size \in 1 .. header.chunk_size
    BY <1>1, <1>2 DEF ChunkSound
  <2>7. ChunkSizesOk(L', c)
    BY <2>2, <2>3, <2>4, <2>5, <2>6 DEF ChunkSizesOk
  <2>8. ChunkPlaced(L', c)
    BY <1>1, <1>2, <2>2 DEF ChunkPlaced, ChunkSound, ChunkEnd, HEADER_SIZE
  <2> QED
    BY <2>7, <2>8
<1>6. \A i \in DOMAIN chunks : ChunkSizesOk(L', chunks[i]) /\ ChunkPlaced(L', chunks[i])
  BY <1>1 DEF ChunkLoopInv, ChunkTableOk, ChunkSizesOk, ChunkPlaced, PayloadSize, L
<1>7. \A i \in DOMAIN chunks' : ChunkSizesOk(L', chunks'[i]) /\ ChunkPlaced(L', chunks'[i])
  BY <1>4, <1>5, <1>6
<1>8. \A i \in DOMAIN chunks : ChunkEnd(chunks[i]) <= c.offset
  BY <1>1, <1>2, <1>3 DEF ChunkLoopInv, ChunkEnd, ChunkSound
<1>9. \A i, j \in DOMAIN chunks' :
         i < j => ChunkEnd(chunks'[i]) <= chunks'[j].offset
  <2> SUFFICES ASSUME NEW i \in DOMAIN chunks', NEW j \in DOMAIN chunks', i < j
               PROVE  ChunkEnd(chunks'[i]) <= chunks'[j].offset
    OBVIOUS
  <2>1. i \in DOMAIN chunks
    BY <1>4
  <2>2. CASE j \in DOMAIN chunks
    BY <1>1, <1>4, <2>1, <2>2 DEF ChunkLoopInv, ChunkTableOk, ChunksDisjoint, L
  <2>3. CASE j = Len(chunks) + 1
    BY <1>4, <1>8, <2>1, <2>3
  <2> QED
    BY <1>4, <2>2, <2>3
<1>10. \A i \in DOMAIN chunks' : ChunkEnd(chunks'[i]) <= previous_end'
  BY <1>1, <1>2, <1>3, <1>4, <1>8 DEF ChunkEnd
<1>11. previous_end' >= HEADER_SIZE
  BY <1>1, <1>2 DEF ChunkSound, HEADER_SIZE
<1> QED
  BY <1>7, <1>9, <1>10, <1>11 DEF ChunkLoopInv, ChunkTableOk, ChunksDisjoint, L

EntryLoopInv == UsedInv /\ CheckedInv /\ OwnedInv

\* A new entry has no marked chunk yet; the entries before it were checked.
LEMMA TakeEntryStep ==
    ASSUME Typing, EntryLoopInv, NEW e \in EntryRecords, TakeEntry(e)
    PROVE  EntryLoopInv'
<1>1. CASE ~EntrySound(e)
  BY <1>1 DEF TakeEntry, Reject, EntryLoopInv, UsedInv, CheckedInv, OwnedInv
<1>2. CASE EntrySound(e)
  <2>1. /\ pc = "entries" /\ pc' = "owned"
        /\ entries' = Append(entries, e)
        /\ local' = 0 /\ raw_total' = 0
        /\ UNCHANGED <<header, chunks, used_chunks>>
    BY <1>2 DEF TakeEntry
  <2>2. /\ entries \in Seq(EntryRecords)
        /\ e.first_chunk \in Nat /\ e.chunk_count \in Nat
        /\ header.chunk_size \in Nat
    BY RecordTypes DEF Typing, TypeOK
  <2>3. /\ DOMAIN entries' = 1 .. Len(entries) + 1
        /\ DOMAIN entries = 1 .. Len(entries)
        /\ Len(entries') = Len(entries) + 1
        /\ \A i \in DOMAIN entries : entries'[i] = entries[i]
        /\ entries'[Len(entries) + 1] = e
        /\ Len(entries) \in Nat
    BY <2>1, <2>2
  <2>4. Checked = DOMAIN entries /\ Checked' = DOMAIN entries
    BY <2>1, <2>3 DEF Checked
  <2>5. entry' = e /\ entries' # << >>
    BY <2>3 DEF entry
  <2>6. Marked' = {}
    BY <2>1, <2>2, <2>5 DEF Marked
  <2>7. UsedInv'
    BY <2>1, <2>3, <2>4, <2>6 DEF EntryLoopInv, UsedInv
  <2>8. EntriesInTable(L')
    BY <1>2, <2>1, <2>3 DEF EntriesInTable, EntryLoopInv, CheckedInv, EntrySound, L
  <2>9. CheckedInv'
    BY <2>1, <2>3, <2>4, <2>8 DEF EntryLoopInv, CheckedInv
  <2>10. OwnedInv'
    BY <2>1, <2>2, <2>5, <2>6 DEF OwnedInv
  <2> QED
    BY <2>7, <2>9, <2>10 DEF EntryLoopInv
<1> QED
  BY <1>1, <1>2

\* Marking one more chunk: it belongs to no checked entry, and it is full
\* unless it is the entry's last.
LEMMA CheckOwnedStep ==
    ASSUME Typing, EntryLoopInv, CheckOwned
    PROVE  EntryLoopInv'
<1>1. CASE ~OwnedSound
  BY <1>1 DEF CheckOwned, Reject, EntryLoopInv, UsedInv, CheckedInv, OwnedInv
<1>2. CASE OwnedSound
  <2>1. /\ pc = "owned" /\ pc' = "owned"
        /\ local < entry.chunk_count /\ local' = local + 1
        /\ used_chunks' = used_chunks \cup {global}
        /\ raw_total' = raw_total + chunks[global].original_size
        /\ UNCHANGED <<header, chunks, entries>>
    BY <1>2 DEF CheckOwned
  <2>2. /\ entry.first_chunk \in Nat /\ entry.chunk_count \in Nat
        /\ global \in 1 .. Len(chunks)
        /\ chunks[global].original_size \in Nat
    BY <2>1, CurrentRecords
  <2>3. /\ local \in Nat /\ raw_total \in Nat /\ chunks \in Seq(ChunkRecords)
        /\ header.chunk_size \in Nat
    BY RecordTypes DEF Typing, TypeOK
  <2>4. /\ entry' = entry /\ Checked' = Checked
        /\ Marked' = Marked \cup {global}
        /\ \A k \in Marked : k \in Int
    <3>1. entry' = entry /\ Checked' = Checked
      BY <2>1 DEF entry, Checked
    <3>2. /\ local' = local + 1 /\ local \in Nat /\ entry.first_chunk \in Nat
      BY <2>1, <2>2, <2>3
    <3>3. Marked' = Marked \cup {global} /\ \A k \in Marked : k \in Int
      BY <3>1, <3>2 DEF Marked, global
    <3> QED
      BY <3>1, <3>3
  <2>5. global \notin Marked
    BY <2>2, <2>3 DEF Marked, global
  <2>6. \A i \in Checked : global \notin Owned(entries[i])
    BY <1>2, <2>1, <2>2, <2>3 DEF OwnedSound, EntryLoopInv, UsedInv
  <2>7. UsedInv'
    BY <2>1, <2>4 DEF EntryLoopInv, UsedInv
  <2>8. CheckedInv'
    BY <2>1, <2>4 DEF EntryLoopInv, CheckedInv, EntriesInTable, L
  <2>9. \A i \in Checked' : Owned(entries'[i]) \cap Marked' = {}
    BY <2>1, <2>4, <2>6 DEF EntryLoopInv, OwnedInv
  <2>10. \A k \in Marked' :
            k # entry.first_chunk + entry.chunk_count =>
                chunks[k].original_size = header.chunk_size
    <3>1. global # entry.first_chunk + entry.chunk_count =>
              chunks[global].original_size = header.chunk_size
      <4>1. local + 1 = entry.chunk_count =>
                global = entry.first_chunk + entry.chunk_count
        BY <2>2, <2>3 DEF global
      <4> QED
        BY <1>2, <4>1 DEF OwnedSound
    <3> QED
      BY <2>1, <2>4, <3>1 DEF EntryLoopInv, OwnedInv
  <2>11. local' <= entry.chunk_count
    BY <2>1, <2>2, <2>3
  <2>12. OwnedInv'
    BY <2>1, <2>4, <2>9, <2>10, <2>11 DEF EntryLoopInv, OwnedInv
  <2> QED
    BY <2>7, <2>8, <2>12 DEF EntryLoopInv
<1> QED
  BY <1>1, <1>2

\* When all its chunks are marked and the totals agree, the entry is checked.
LEMMA EndOfOwnedStep ==
    ASSUME Typing, EntryLoopInv, EndOfOwned
    PROVE  EntryLoopInv'
<1>1. /\ pc = "owned" /\ local = entry.chunk_count
      /\ UNCHANGED <<header, chunks, entries, used_chunks>>
  BY DEF EndOfOwned
<1>2. CASE pc' = "rejected"
  BY <1>2 DEF EntryLoopInv, UsedInv, CheckedInv, OwnedInv
<1>3. CASE pc' = "entries" /\ raw_total = entry.original_size
  <2>1. /\ entry.first_chunk \in Nat /\ entry.chunk_count \in Nat
        /\ entries # << >> /\ entries \in Seq(EntryRecords)
    BY <1>1, CurrentRecords DEF Typing, TypeOK, EntryLoopInv, OwnedInv
  <2>2. /\ Len(entries) \in DOMAIN entries /\ entry = entries[Len(entries)]
        /\ Checked' = Checked \cup {Len(entries)}
        /\ Checked \subseteq DOMAIN entries
    BY <1>1, <1>3, <2>1 DEF entry, Checked
  <2>3. Marked = Owned(entry)
    BY <1>1 DEF Marked, Owned
  <2>4. UsedInv'
    BY <1>1, <1>3, <2>2, <2>3 DEF EntryLoopInv, UsedInv
  <2>5. \A i, j \in Checked' :
           i # j => Owned(entries[i]) \cap Owned(entries[j]) = {}
    BY <1>1, <2>2, <2>3 DEF EntryLoopInv, CheckedInv, OwnedInv
  <2>6. \A k \in Owned(entry) :
           k + 1 \in Owned(entry) => chunks[k].original_size = header.chunk_size
    <3>1. ASSUME NEW k \in Owned(entry), k + 1 \in Owned(entry)
          PROVE  k # entry.first_chunk + entry.chunk_count
      BY <2>1, <3>1 DEF Owned
    <3> QED
      BY <1>1, <2>3, <3>1 DEF EntryLoopInv, OwnedInv
  <2>8. EntriesInTable(L')
    BY <1>1 DEF EntryLoopInv, CheckedInv, EntriesInTable, L
  <2>9. CheckedInv'
    BY <1>1, <2>2, <2>5, <2>6, <2>8 DEF EntryLoopInv, CheckedInv
  <2>10. OwnedInv'
    BY <1>3 DEF OwnedInv
  <2> QED
    BY <2>4, <2>9, <2>10 DEF EntryLoopInv
<1> QED
  BY <1>2, <1>3 DEF EndOfOwned, Reject

-----------------------------------------------------------------------------
\* The inductive invariant: initially no record has been looked at.
LEMMA InitIInv == Init => IInv
<1> SUFFICES ASSUME Init PROVE IInv
  OBVIOUS
<1>1. Typing
  BY ValidateAssumption DEF Init, Typing, TypeOK, RangeInv, HEADER_SIZE
<1>2. chunks = << >> /\ entries = << >> /\ pc = "chunks" /\ used_chunks = {}
  BY DEF Init
<1>3. ChunkLoopInv
  BY <1>2 DEF Init, ChunkLoopInv, ChunkTableOk, ChunksDisjoint, L, HEADER_SIZE
<1>4. UsedInv /\ OwnedInv /\ AcceptedInv
  BY <1>2 DEF UsedInv, OwnedInv, AcceptedInv
<1>5. CheckedInv
  BY <1>2 DEF CheckedInv, Checked, EntriesInTable, L
<1> QED
  BY <1>1, <1>3, <1>4, <1>5 DEF IInv

\* Each step of the two loops preserves it.
LEMMA NextIInv == IInv /\ [Next]_vars => IInv'
<1> SUFFICES ASSUME IInv, [Next]_vars PROVE IInv'
  OBVIOUS
<1>1. Typing /\ Typing' /\ EntryLoopInv
  BY TypingStep DEF IInv, EntryLoopInv
<1>2. ASSUME NEW c \in ChunkRecords, CheckChunk(c) PROVE IInv'
  <2>1. ChunkLoopInv'
    BY <1>1, <1>2, ChunkLoopStep DEF IInv
  <2>2. /\ pc = "chunks" /\ entries = << >> /\ used_chunks = {}
        /\ UNCHANGED <<pc, entries, used_chunks>>
    BY <1>2 DEF CheckChunk, IInv, UsedInv
  <2>3. UsedInv' /\ OwnedInv' /\ AcceptedInv'
    BY <2>2 DEF UsedInv, OwnedInv, AcceptedInv
  <2>4. CheckedInv'
    BY <2>2 DEF CheckedInv, Checked, EntriesInTable, L
  <2> QED
    BY <1>1, <2>1, <2>3, <2>4 DEF IInv
<1>3. ASSUME NEW c \in ChunkRecords, RejectChunk(c) PROVE IInv'
  <2>1. pc' = "rejected"
    BY <1>3 DEF RejectChunk, Reject
  <2> QED
    BY <1>1, <2>1 DEF IInv, ChunkLoopInv, UsedInv, CheckedInv, OwnedInv, AcceptedInv
<1>4. CASE EndOfChunks
  <2>0. CASE pc' = "rejected"
    BY <1>1, <2>0 DEF IInv, ChunkLoopInv, UsedInv, CheckedInv, OwnedInv, AcceptedInv
  <2>1. /\ pc = "chunks" /\ pc' \in {"entries", "rejected"}
        /\ entries = << >> /\ used_chunks = {}
        /\ UNCHANGED <<header, chunks, entries, used_chunks, previous_end>>
    BY <1>4 DEF Reject, EndOfChunks, chunkLoop, IInv, UsedInv
  <2>2. ChunkLoopInv'
    BY <2>1 DEF IInv, ChunkLoopInv, ChunkTableOk, ChunksDisjoint, ChunkSizesOk,
                ChunkPlaced, PayloadSize, L
  <2>3. UsedInv' /\ OwnedInv' /\ AcceptedInv'
    BY <2>1 DEF UsedInv, OwnedInv, AcceptedInv, Checked
  <2>4. CheckedInv'
    BY <2>1 DEF CheckedInv, Checked, EntriesInTable, L
  <2> QED
    BY <1>1, <2>0, <2>2, <2>3, <2>4 DEF IInv
<1>5. ASSUME UNCHANGED <<header, chunks, previous_end>>,
             pc # "rejected", EntryLoopInv', AcceptedInv'
      PROVE  IInv'
  <2>1. ChunkLoopInv'
    BY <1>5 DEF IInv, ChunkLoopInv, ChunkTableOk, ChunksDisjoint, ChunkSizesOk,
                ChunkPlaced, PayloadSize, L
  <2> QED
    BY <1>1, <1>5, <2>1 DEF IInv, EntryLoopInv
<1>6. ASSUME NEW e \in EntryRecords, TakeEntry(e) PROVE IInv'
  <2>1. EntryLoopInv'
    BY <1>1, <1>6, TakeEntryStep
  <2> QED
    BY <1>5, <1>6, <2>1 DEF TakeEntry, Reject, chunkLoop, AcceptedInv
<1>7. CASE CheckOwned
  <2>1. EntryLoopInv'
    BY <1>1, <1>7, CheckOwnedStep
  <2>2. pc = "owned" /\ pc' \in {"owned", "rejected"}
    BY <1>7 DEF CheckOwned, Reject
  <2> QED
    BY <1>5, <1>7, <2>1, <2>2 DEF CheckOwned, chunkLoop, AcceptedInv
<1>8. CASE EndOfOwned
  <2>1. EntryLoopInv'
    BY <1>1, <1>8, EndOfOwnedStep
  <2>2. pc = "owned" /\ pc' \in {"entries", "rejected"}
    BY <1>8 DEF EndOfOwned, Reject
  <2> QED
    BY <1>5, <1>8, <2>1, <2>2 DEF EndOfOwned, chunkLoop, AcceptedInv
<1>9. CASE EndOfEntries
  <2>1. /\ pc = "entries" /\ UNCHANGED <<header, chunks, entries, used_chunks, previous_end>>
        /\ (pc' = "accepted" /\ used_chunks = DOMAIN chunks) \/ pc' = "rejected"
    BY <1>9 DEF EndOfEntries, Reject, chunkLoop
  <2>2. Checked' = Checked
    BY <2>1 DEF Checked
  <2>3. UsedInv' /\ OwnedInv' /\ AcceptedInv'
    BY <2>1, <2>2 DEF IInv, UsedInv, OwnedInv, AcceptedInv
  <2>4. CheckedInv'
    BY <2>1, <2>2 DEF IInv, CheckedInv, EntriesInTable, L
  <2> QED
    BY <1>5, <2>1, <2>3, <2>4 DEF EntryLoopInv
<1>10. CASE Terminated \/ UNCHANGED vars
  BY <1>1, <1>10 DEF IInv, Terminated, vars, chunkLoop, ownedLoop, ChunkLoopInv, UsedInv,
     CheckedInv, OwnedInv, AcceptedInv, Checked, Marked, entry, ChunkTableOk,
     ChunksDisjoint, ChunkSizesOk, ChunkPlaced, PayloadSize, EntriesInTable, L
<1> QED
  BY <1>2, <1>3, <1>4, <1>6, <1>7, <1>8, <1>9, <1>10 DEF Next

-----------------------------------------------------------------------------
(* The verdict is exact.  The totals the loops carry are the sums over the  *)
(* chunks they have seen, so a comparison with a total is a comparison      *)
(* with the sum, and the checked additions never fail by themselves.        *)

SumInv ==
    pc # "rejected" =>
        /\ total_decompressed = OriginalTotal(L, DOMAIN chunks)
        /\ total_decompressed <= header.max_total
        /\ StoredTotal(L, DOMAIN chunks) <= previous_end
        /\ IF chunks = << >> THEN previous_end = HEADER_SIZE
           ELSE previous_end = ChunkEnd(chunks[Len(chunks)])

EntrySumInv ==
    pc # "rejected" =>
        /\ \A i \in Checked :
              /\ entries[i].original_size = OriginalTotal(L, Owned(entries[i]))
              /\ entries[i].stored_size = StoredTotal(L, Owned(entries[i]))
        /\ pc = "owned" => /\ raw_total = OriginalTotal(L, Marked)
                           /\ stored_total = StoredTotal(L, Marked)

\* An error is only blamed by a rejection, and rightly.
VerdictInv == (pc # "rejected" => err = "none") /\ RejectedIsIllFormed

LEMMA ChunksOfL ==
    ASSUME Typing
    PROVE  /\ L.chunks = chunks /\ HasChunks(L, Len(chunks))
           /\ DOMAIN chunks = 1 .. Len(chunks) /\ Len(chunks) \in Nat
           /\ \A i \in DOMAIN chunks : chunks[i] \in ChunkRecords
<1>1. L.chunks = chunks
  BY DEF L
<1>2. chunks \in Seq(ChunkRecords)
  BY DEF Typing, TypeOK
<1>3. /\ DOMAIN chunks = 1 .. Len(chunks) /\ Len(chunks) \in Nat
      /\ \A i \in DOMAIN chunks : chunks[i] \in ChunkRecords
  BY <1>2
<1> QED
  BY <1>1, <1>3, RecordTypes DEF HasChunks

\* What is stored is no more than what lies before the table of contents.
LEMMA StoredFits ==
    ASSUME Typing, ChunkLoopInv, SumInv, pc # "rejected"
    PROVE  StoredTotal(L, DOMAIN chunks) <= header.toc_offset
<1>1. /\ L.chunks = chunks /\ HasChunks(L, Len(chunks))
      /\ DOMAIN chunks = 1 .. Len(chunks) /\ Len(chunks) \in Nat
      /\ header.toc_offset \in Nat
  BY ChunksOfL, RecordTypes DEF Typing, TypeOK
<1>2. StoredTotal(L, {}) = 0 /\ StoredTotal(L, DOMAIN chunks) \in Nat
  BY <1>1, TotalFacts
<1>3. CASE Len(chunks) = 0
  <2>1. DOMAIN chunks = {}
    BY <1>1, <1>3
  <2> QED
    BY <1>1, <1>2, <2>1
<1>4. CASE Len(chunks) # 0
  <2>1. Len(chunks) \in DOMAIN chunks /\ chunks # << >>
    BY <1>1, <1>4
  <2>2. previous_end <= L.toc_offset
    BY <1>1, <2>1 DEF ChunkLoopInv, ChunkTableOk, ChunkPlaced, SumInv
  <2>3. L.toc_offset = header.toc_offset
    BY DEF L
  <2> QED
    BY <1>1, <1>2, <2>2, <2>3 DEF SumInv, Typing, TypeOK
<1> QED
  BY <1>3, <1>4

\* One more chunk adds its sizes to the totals.
LEMMA AppendTotals ==
    ASSUME Typing, Typing', NEW c \in ChunkRecords, chunks' = Append(chunks, c)
    PROVE  /\ DOMAIN chunks' = 1 .. Len(chunks) + 1 /\ Len(chunks') = Len(chunks) + 1
           /\ \A i \in DOMAIN chunks : chunks'[i] = chunks[i]
           /\ chunks'[Len(chunks) + 1] = c
           /\ OriginalTotal(L', DOMAIN chunks')
                = OriginalTotal(L, DOMAIN chunks) + c.original_size
           /\ StoredTotal(L', DOMAIN chunks')
                = StoredTotal(L, DOMAIN chunks) + c.stored_size
<1>1. /\ L.chunks = chunks /\ HasChunks(L, Len(chunks))
      /\ DOMAIN chunks = 1 .. Len(chunks) /\ Len(chunks) \in Nat
  BY ChunksOfL
<1>2. chunks \in Seq(ChunkRecords)
  BY DEF Typing, TypeOK
<1>3. /\ DOMAIN chunks' = 1 .. Len(chunks) + 1 /\ Len(chunks') = Len(chunks) + 1
      /\ \A i \in DOMAIN chunks : chunks'[i] = chunks[i]
      /\ chunks'[Len(chunks) + 1] = c
  BY <1>1, <1>2
<1>4. PICK M : M = L'
  OBVIOUS
<1>5. M.chunks = chunks'
  BY <1>4 DEF L
<1>6. \A i \in 1 .. Len(chunks) + 1 : chunks'[i] \in ChunkRecords
  BY <1>1, <1>2, <1>3
<1>7. HasChunks(M, Len(chunks) + 1)
  BY <1>1, <1>3, <1>5, <1>6, RecordTypes DEF HasChunks
<1>8. PICK K : K = 1 .. Len(chunks)
  OBVIOUS
<1>9. /\ K \in SUBSET (1 .. Len(chunks) + 1) /\ Len(chunks) + 1 \notin K
      /\ K \in SUBSET (1 .. Len(chunks))
      /\ Len(chunks) + 1 \in 1 .. Len(chunks) + 1
      /\ K \cup {Len(chunks) + 1} = 1 .. Len(chunks) + 1
  BY <1>1, <1>8
<1>10. /\ OriginalTotal(M, K \cup {Len(chunks) + 1})
             = OriginalTotal(M, K) + M.chunks[Len(chunks) + 1].original_size
       /\ StoredTotal(M, K \cup {Len(chunks) + 1})
             = StoredTotal(M, K) + M.chunks[Len(chunks) + 1].stored_size
  BY <1>7, <1>9, TotalFacts
<1>11. OriginalTotal(M, K) = OriginalTotal(L, K) /\ StoredTotal(M, K) = StoredTotal(L, K)
  <2>1. \A k \in 1 .. Len(chunks) : M.chunks[k] = L.chunks[k]
    BY <1>1, <1>3, <1>5
  <2>2. HasChunks(L, Len(chunks)) /\ Len(chunks) <= Len(chunks) + 1
    BY <1>1
  <2>3. \A J \in SUBSET (1 .. Len(chunks)) : /\ OriginalTotal(M, J) = OriginalTotal(L, J)
                                             /\ StoredTotal(M, J) = StoredTotal(L, J)
    BY <1>7, <2>1, <2>2, GrownTotals
  <2> QED
    BY <1>9, <2>3
<1>12. M.chunks[Len(chunks) + 1] = c
  BY <1>3, <1>5
<1>13. DOMAIN chunks = K /\ DOMAIN chunks' = K \cup {Len(chunks) + 1}
  BY <1>1, <1>3, <1>8, <1>9
<1> QED
  BY <1>3, <1>4, <1>10, <1>11, <1>12, <1>13

\* CheckChunk carries the totals on.
LEMMA ChunkSumStep ==
    ASSUME Typing, Typing', SumInv, NEW c \in ChunkRecords, CheckChunk(c)
    PROVE  SumInv'
<1>1. /\ pc = "chunks" /\ chunks' = Append(chunks, c) /\ UNCHANGED <<pc, header>>
      /\ ChunkSound(c)
      /\ total_decompressed + c.original_size <= header.max_total
      /\ previous_end' = c.offset + c.stored_size
      /\ total_decompressed' = total_decompressed + c.original_size
  BY DEF CheckChunk
<1>2. /\ c.offset \in Nat /\ c.stored_size \in Nat /\ c.original_size \in Nat
      /\ previous_end \in Nat
  BY RecordTypes DEF Typing, TypeOK
<1>3. /\ Len(chunks') = Len(chunks) + 1 /\ chunks'[Len(chunks) + 1] = c
      /\ OriginalTotal(L', DOMAIN chunks')
           = OriginalTotal(L, DOMAIN chunks) + c.original_size
      /\ StoredTotal(L', DOMAIN chunks')
           = StoredTotal(L, DOMAIN chunks) + c.stored_size
  BY <1>1, AppendTotals
<1>4. StoredTotal(L, DOMAIN chunks) \in Nat /\ StoredTotal(L, DOMAIN chunks) <= c.offset
  <2>1. StoredTotal(L, DOMAIN chunks) \in Nat
    BY ChunksOfL, TotalFacts
  <2>2. StoredTotal(L, DOMAIN chunks) <= previous_end /\ previous_end <= c.offset
    BY <1>1, <1>2 DEF SumInv, ChunkSound
  <2> QED
    BY <1>2, <2>1, <2>2
<1>5. StoredTotal(L', DOMAIN chunks') <= previous_end'
  BY <1>1, <1>2, <1>3, <1>4
<1>6. chunks' # << >> /\ previous_end' = ChunkEnd(chunks'[Len(chunks')])
  <2>1. Len(chunks) \in Nat
    BY ChunksOfL
  <2>2. Len(chunks') # 0
    BY <1>3, <2>1
  <2> QED
    BY <1>1, <1>3, <2>2 DEF ChunkEnd
<1> QED
  BY <1>1, <1>3, <1>5, <1>6 DEF SumInv

\* The totals of a table that does not change do not change.
LEMMA TotalsKept ==
    ASSUME chunks' = chunks
    PROVE  \A K : /\ OriginalTotal(L', K) = OriginalTotal(L, K)
                  /\ StoredTotal(L', K) = StoredTotal(L, K)
  BY DEF OriginalTotal, StoredTotal, L

LEMMA SumKept ==
    ASSUME SumInv, UNCHANGED <<header, chunks, previous_end, total_decompressed>>,
           pc' # "rejected" => pc # "rejected"
    PROVE  SumInv'
<1>1. \A K : OriginalTotal(L', K) = OriginalTotal(L, K) /\ StoredTotal(L', K) = StoredTotal(L, K)
  BY TotalsKept
<1> QED
  BY <1>1 DEF SumInv, ChunkEnd

\* The marked chunks of the current entry are chunks of the table.
LEMMA MarkedFacts ==
    ASSUME Typing, pc = "owned"
    PROVE  /\ Marked \in SUBSET (1 .. Len(chunks))
           /\ local < entry.chunk_count =>
                 /\ global \in 1 .. Len(chunks) /\ global \notin Marked
                 /\ Marked \cup {global}
                      = (entry.first_chunk + 1) .. (entry.first_chunk + (local + 1))
           /\ local = 0 => Marked = {}
           /\ local = entry.chunk_count => Marked = Owned(entry)
<1>1. /\ entry.first_chunk \in Nat /\ entry.chunk_count \in Nat /\ local \in Nat
      /\ local <= entry.chunk_count /\ Len(chunks) \in Nat
      /\ entry.first_chunk + entry.chunk_count <= Len(chunks)
      /\ local < entry.chunk_count => global \in 1 .. Len(chunks)
  BY CurrentRecords DEF Typing, TypeOK, RangeInv
<1>2. Marked \in SUBSET (1 .. Len(chunks))
  BY <1>1 DEF Marked
<1>3. local = 0 => Marked = {}
  BY <1>1 DEF Marked
<1>4. global \notin Marked
  BY <1>1 DEF Marked, global
<1>5. Marked \cup {global} = (entry.first_chunk + 1) .. (entry.first_chunk + (local + 1))
  BY <1>1 DEF Marked, global
<1>6. local = entry.chunk_count => Marked = Owned(entry)
  BY DEF Marked, Owned
<1> QED
  BY <1>1, <1>2, <1>3, <1>4, <1>5, <1>6

\* What the next chunk adds fits: its checked additions cannot fail.
LEMMA NextTotalsFit ==
    ASSUME Typing, ChunkLoopInv, SumInv, EntrySumInv, pc = "owned",
           local < entry.chunk_count
    PROVE  /\ raw_total + chunks[global].original_size <= header.max_total
           /\ stored_total + chunks[global].stored_size <= header.toc_offset
<1>1. /\ L.chunks = chunks /\ HasChunks(L, Len(chunks))
      /\ DOMAIN chunks = 1 .. Len(chunks) /\ Len(chunks) \in Nat
      /\ header.max_total \in Nat /\ header.toc_offset \in Nat
  BY ChunksOfL, RecordTypes DEF Typing, TypeOK
<1>2. /\ Marked \in SUBSET (1 .. Len(chunks))
      /\ global \in 1 .. Len(chunks) /\ global \notin Marked
  BY MarkedFacts
<1>3. /\ OriginalTotal(L, Marked \cup {global}) = raw_total + chunks[global].original_size
      /\ StoredTotal(L, Marked \cup {global}) = stored_total + chunks[global].stored_size
  <2>1. /\ raw_total = OriginalTotal(L, Marked) /\ stored_total = StoredTotal(L, Marked)
    BY DEF EntrySumInv
  <2> QED
    BY <1>1, <1>2, <2>1, TotalFacts
<1>4. PICK J : J = Marked \cup {global}
  OBVIOUS
<1>5. J \in SUBSET (1 .. Len(chunks)) /\ (1 .. Len(chunks)) \in SUBSET (1 .. Len(chunks))
  BY <1>2, <1>4
<1>6. /\ OriginalTotal(L, J) \in Nat /\ StoredTotal(L, J) \in Nat
      /\ OriginalTotal(L, 1 .. Len(chunks)) \in Nat
      /\ StoredTotal(L, 1 .. Len(chunks)) \in Nat
  BY <1>1, <1>5, TotalFacts
<1>7. /\ OriginalTotal(L, J) <= OriginalTotal(L, 1 .. Len(chunks))
      /\ StoredTotal(L, J) <= StoredTotal(L, 1 .. Len(chunks))
  BY <1>1, <1>5, TotalFacts
<1>8. /\ OriginalTotal(L, 1 .. Len(chunks)) <= header.max_total
      /\ StoredTotal(L, 1 .. Len(chunks)) <= header.toc_offset
  BY <1>1, StoredFits DEF SumInv
<1>9. /\ OriginalTotal(L, J) <= header.max_total
      /\ StoredTotal(L, J) <= header.toc_offset
  BY <1>1, <1>6, <1>7, <1>8
<1> QED
  BY <1>3, <1>4, <1>9

\* Taking an entry, marking a chunk and closing an entry keep the sums.
LEMMA EntrySumStep ==
    ASSUME Typing, Typing', UsedInv, EntrySumInv, Next
    PROVE  EntrySumInv'
<1> SUFFICES ASSUME pc' # "rejected"
             PROVE  EntrySumInv'
  BY DEF EntrySumInv
<1>1. ASSUME NEW c \in ChunkRecords, CheckChunk(c)
      PROVE  EntrySumInv'
  <2>1. pc' = "chunks" /\ entries' = << >>
    BY <1>1 DEF CheckChunk, UsedInv
  <2>2. Checked' = {}
    BY <2>1 DEF Checked
  <2> QED
    BY <2>1, <2>2 DEF EntrySumInv
<1>2. ASSUME NEW c \in ChunkRecords, RejectChunk(c)
      PROVE  EntrySumInv'
  BY <1>2 DEF RejectChunk, Reject
<1>3. ASSUME NEW e \in EntryRecords, TakeEntry(e)
      PROVE  EntrySumInv'
  <2>1. /\ pc = "entries" /\ pc' = "owned" /\ entries' = Append(entries, e)
        /\ local' = 0 /\ raw_total' = 0 /\ stored_total' = 0 /\ chunks' = chunks
    BY <1>3 DEF TakeEntry, Reject
  <2>2. entries \in Seq(EntryRecords)
    BY DEF Typing, TypeOK
  <2>3. /\ DOMAIN entries' = 1 .. Len(entries) + 1
        /\ DOMAIN entries = 1 .. Len(entries)
        /\ Len(entries') = Len(entries) + 1
        /\ \A i \in DOMAIN entries : entries'[i] = entries[i]
        /\ Len(entries) \in Nat
    BY <2>1, <2>2
  <2>4. Checked = DOMAIN entries /\ Checked' = DOMAIN entries
    BY <2>1, <2>3 DEF Checked
  <2>5. \A K : OriginalTotal(L', K) = OriginalTotal(L, K) /\ StoredTotal(L', K) = StoredTotal(L, K)
    BY <2>1, TotalsKept
  <2>6. Marked' = {}
    <3>1. e.first_chunk \in Nat
      BY RecordTypes
    <3>2. entry' = e
      BY <2>1, <2>2, <2>3 DEF entry
    <3> QED
      BY <2>1, <3>1, <3>2 DEF Marked
  <2>7. OriginalTotal(L, {}) = 0 /\ StoredTotal(L, {}) = 0
    BY ChunksOfL, TotalFacts
  <2>8. OriginalTotal(L', Marked') = 0 /\ StoredTotal(L', Marked') = 0
    BY <2>5, <2>6, <2>7
  <2> QED
    BY <2>1, <2>3, <2>4, <2>5, <2>8 DEF EntrySumInv
<1>4. CASE CheckOwned
  <2>1. /\ pc = "owned" /\ pc' = "owned" /\ local < entry.chunk_count
        /\ local' = local + 1 /\ UNCHANGED <<chunks, entries>>
        /\ raw_total' = raw_total + chunks[global].original_size
        /\ stored_total' = stored_total + chunks[global].stored_size
    BY <1>4 DEF CheckOwned, Reject
  <2>2. entry' = entry /\ Checked' = Checked
    BY <2>1 DEF entry, Checked
  <2>3. \A K : OriginalTotal(L', K) = OriginalTotal(L, K) /\ StoredTotal(L', K) = StoredTotal(L, K)
    BY <2>1, TotalsKept
  <2>4. /\ Marked \in SUBSET (1 .. Len(chunks))
        /\ global \in 1 .. Len(chunks) /\ global \notin Marked
        /\ Marked \cup {global}
             = (entry.first_chunk + 1) .. (entry.first_chunk + (local + 1))
    BY <2>1, MarkedFacts
  <2>5. Marked' = Marked \cup {global}
    BY <2>1, <2>2, <2>4 DEF Marked
  <2>6. /\ OriginalTotal(L, Marked \cup {global}) = raw_total + chunks[global].original_size
        /\ StoredTotal(L, Marked \cup {global}) = stored_total + chunks[global].stored_size
    <3>1. raw_total = OriginalTotal(L, Marked) /\ stored_total = StoredTotal(L, Marked)
      BY <2>1 DEF EntrySumInv
    <3>2. L.chunks = chunks /\ HasChunks(L, Len(chunks))
      BY ChunksOfL
    <3> QED
      BY <2>4, <3>1, <3>2, TotalFacts
  <2>7. /\ raw_total' = OriginalTotal(L', Marked') /\ stored_total' = StoredTotal(L', Marked')
    BY <2>1, <2>3, <2>5, <2>6
  <2> QED
    BY <2>1, <2>2, <2>3, <2>7 DEF EntrySumInv
<1>5. CASE EndOfOwned
  <2>1. /\ pc = "owned" /\ pc' = "entries" /\ local = entry.chunk_count
        /\ raw_total = entry.original_size /\ stored_total = entry.stored_size
        /\ UNCHANGED <<chunks, entries>>
    BY <1>5 DEF EndOfOwned, Reject
  <2>2. \A K : OriginalTotal(L', K) = OriginalTotal(L, K) /\ StoredTotal(L', K) = StoredTotal(L, K)
    BY <2>1, TotalsKept
  <2>3. Marked = Owned(entry)
    BY <2>1, MarkedFacts
  <2>4. entries \in Seq(EntryRecords) /\ entries # << >>
    BY <2>1 DEF Typing, TypeOK, RangeInv
  <2>5. entry = entries[Len(entries)] /\ Checked' = Checked \cup {Len(entries)}
    BY <2>1, <2>4 DEF entry, Checked
  <2>6. /\ entry.original_size = OriginalTotal(L, Owned(entry))
        /\ entry.stored_size = StoredTotal(L, Owned(entry))
    BY <2>1, <2>3 DEF EntrySumInv
  <2> QED
    BY <2>1, <2>2, <2>5, <2>6 DEF EntrySumInv
<1>6. CASE EndOfChunks \/ EndOfEntries
  <2>1. /\ pc \in {"chunks", "entries"} /\ pc' \in {"entries", "accepted"}
        /\ UNCHANGED <<chunks, entries>>
    BY <1>6 DEF EndOfChunks, EndOfEntries, Reject
  <2>2. \A K : OriginalTotal(L', K) = OriginalTotal(L, K) /\ StoredTotal(L', K) = StoredTotal(L, K)
    BY <2>1, TotalsKept
  <2>3. Checked' = Checked
    BY <2>1 DEF Checked
  <2> QED
    BY <2>1, <2>2, <2>3 DEF EntrySumInv
<1>7. CASE Terminated
  <2>1. UNCHANGED <<pc, chunks, entries>> /\ pc \in {"accepted", "rejected"}
    BY <1>7 DEF Terminated, vars
  <2>2. \A K : OriginalTotal(L', K) = OriginalTotal(L, K) /\ StoredTotal(L', K) = StoredTotal(L, K)
    BY <2>1, TotalsKept
  <2>3. Checked' = Checked
    BY <2>1 DEF Checked
  <2> QED
    BY <2>1, <2>2, <2>3 DEF EntrySumInv
<1> QED
  BY <1>1, <1>2, <1>3, <1>4, <1>5, <1>6, <1>7 DEF Next

-----------------------------------------------------------------------------
\* A chunk that fits into a sound table passes the checks of the loop.
LEMMA SoundChunkPasses ==
    ASSUME Typing, SumInv, pc = "chunks", NEW c \in ChunkRecords,
           chunks' = Append(chunks, c), header' = header, ChunkTableOk(L')
    PROVE  ChunkSound(c)
<1>1. /\ chunks \in Seq(ChunkRecords) /\ Len(chunks) \in Nat
      /\ DOMAIN chunks = 1 .. Len(chunks)
      /\ c.offset \in Nat /\ c.stored_size \in Nat /\ c.original_size \in Nat
      /\ c.compressed \in BOOLEAN /\ header.aead \in BOOLEAN
      /\ header.chunk_size \in Nat /\ header.toc_offset \in 0 .. U64_MAX /\ U64_MAX \in Nat
  BY RecordTypes, ValidateAssumption DEF Typing, TypeOK
<1>2. /\ DOMAIN chunks' = 1 .. Len(chunks) + 1 /\ chunks'[Len(chunks) + 1] = c
      /\ \A i \in DOMAIN chunks : chunks'[i] = chunks[i]
  BY <1>1
<1>3. PICK M : M = L'
  OBVIOUS
<1>4. /\ M.chunks = chunks' /\ M.aead = header.aead /\ M.chunk_size = header.chunk_size
      /\ M.alignment = header.alignment /\ M.toc_offset = header.toc_offset
  BY <1>3 DEF L
<1>5. /\ ChunkSizesOk(M, c) /\ ChunkPlaced(M, c)
      /\ \A i \in DOMAIN chunks : ChunkEnd(chunks[i]) <= c.offset
  <2>1. Len(chunks) + 1 \in DOMAIN M.chunks /\ M.chunks[Len(chunks) + 1] = c
    BY <1>1, <1>2, <1>4
  <2>2. ChunkSizesOk(M, c) /\ ChunkPlaced(M, c)
    BY <1>3, <2>1 DEF ChunkTableOk
  <2>3. \A i \in DOMAIN chunks : /\ i \in DOMAIN M.chunks /\ i < Len(chunks) + 1
                                 /\ M.chunks[i] = chunks[i]
    BY <1>1, <1>2, <1>4
  <2>4. ChunksDisjoint(M)
    BY <1>3 DEF ChunkTableOk
  <2> QED
    BY <2>1, <2>2, <2>3, <2>4 DEF ChunksDisjoint
<1>6. previous_end <= c.offset
  <2>1. CASE chunks = << >>
    BY <1>5, <2>1 DEF SumInv, ChunkPlaced
  <2>2. CASE chunks # << >>
    <3>1. Len(chunks) \in DOMAIN chunks
      BY <1>1, <2>2
    <3> QED
      BY <1>5, <2>2, <3>1 DEF SumInv
  <2> QED
    BY <2>1, <2>2
<1>7. /\ c.offset % header.alignment = 0 /\ c.offset >= HEADER_SIZE
      /\ c.offset + c.stored_size <= header.toc_offset
      /\ c.offset + c.stored_size <= U64_MAX
  BY <1>1, <1>4, <1>5 DEF ChunkPlaced, ChunkEnd, HEADER_SIZE
<1>8. PICK size : size = PayloadSize(M, c)
  OBVIOUS
<1>9. size = (IF header.aead THEN c.stored_size - AEAD_OVERHEAD ELSE c.stored_size)
  BY <1>4, <1>8 DEF PayloadSize
<1>10. /\ c.original_size \in 1 .. header.chunk_size /\ size \in 1 .. c.original_size
       /\ c.compressed <=> size < c.original_size
  BY <1>4, <1>5, <1>8 DEF ChunkSizesOk
<1>11. /\ size >= 0 /\ size # 0 /\ size <= c.original_size
       /\ c.original_size # 0 /\ c.original_size <= header.chunk_size
       /\ c.compressed => size < c.original_size
       /\ ~c.compressed => size = c.original_size
  BY <1>1, <1>10
<1>12. previous_end \in Nat
  BY DEF Typing, TypeOK
<1>13. c.offset >= previous_end
  BY <1>1, <1>6, <1>12
<1> QED
  BY <1>7, <1>9, <1>11, <1>13 DEF ChunkSound

\* An entry that fits into a sound table passes the checks on its range and
\* on being empty in every respect or in none.
LEMMA SoundEntryPasses ==
    ASSUME Typing, Typing', ChunkLoopInv, pc = "entries", NEW e \in EntryRecords,
           entries' = Append(entries, e), UNCHANGED <<chunks, header>>, EntryTableOk(L')
    PROVE  EntrySound(e)
<1>1. /\ entries \in Seq(EntryRecords) /\ Len(entries) \in Nat
      /\ e.first_chunk \in Nat /\ e.chunk_count \in Nat
      /\ e.original_size \in Nat /\ e.stored_size \in Nat
  BY RecordTypes DEF Typing, TypeOK
<1>2. Len(entries) + 1 \in DOMAIN entries' /\ entries'[Len(entries) + 1] = e
  BY <1>1
<1>3. PICK M : M = L'
  OBVIOUS
<1>4. M.chunks = chunks /\ M.entries = entries' /\ M.chunk_size = header.chunk_size
  BY <1>3 DEF L
<1>5. Len(chunks) \in Nat /\ DOMAIN chunks = 1 .. Len(chunks) /\ HasChunks(M, Len(chunks))
  BY <1>4, ChunksOfL DEF HasChunks
<1>6. /\ e.first_chunk + e.chunk_count <= Len(chunks)
      /\ e.original_size = OriginalTotal(M, Owned(e))
      /\ e.stored_size = StoredTotal(M, Owned(e))
  BY <1>2, <1>3, <1>4 DEF EntryTableOk, EntriesInTable, EntrySizesMatch
<1>7. CASE e.chunk_count = 0
  <2>1. Owned(e) = {}
    BY <1>1, <1>7 DEF Owned
  <2>2. OriginalTotal(M, {}) = 0 /\ StoredTotal(M, {}) = 0
    BY <1>5, TotalFacts
  <2> QED
    BY <1>6, <1>7, <2>1, <2>2 DEF EntrySound
<1>8. CASE e.chunk_count # 0
  <2>1. PICK k : k = e.first_chunk + 1
    OBVIOUS
  <2>2. k \in 1 .. Len(chunks) /\ k \in Owned(e) /\ Owned(e) \in SUBSET (1 .. Len(chunks))
    BY <1>1, <1>5, <1>6, <1>8, <2>1 DEF Owned
  <2>3. OriginalTotal(M, {} \cup {k}) = OriginalTotal(M, {}) + M.chunks[k].original_size
    <3>1. {} \in SUBSET (1 .. Len(chunks)) /\ k \notin {}
      OBVIOUS
    <3> QED
      BY <1>5, <2>2, <3>1, TotalFacts
  <2>4. OriginalTotal(M, {}) = 0 /\ {} \cup {k} = {k}
    BY <1>5, TotalFacts
  <2>5. chunks[k].original_size \in Nat /\ chunks[k].original_size >= 1
    <3>1. ChunkSizesOk(L, chunks[k]) /\ chunks[k] \in ChunkRecords
      BY <1>5, <2>2, ChunksOfL DEF ChunkLoopInv, ChunkTableOk, L
    <3>2. chunks[k].original_size \in 1 .. L.chunk_size /\ chunks[k].original_size \in Nat
      BY <3>1, RecordTypes DEF ChunkSizesOk
    <3>3. L.chunk_size \in Nat
      BY RecordTypes DEF Typing, TypeOK, L
    <3> QED
      BY <3>2, <3>3
  <2>6. OriginalTotal(M, {k}) = chunks[k].original_size
    <3>1. OriginalTotal(M, {k}) = 0 + chunks[k].original_size
      BY <1>4, <2>3, <2>4, Zenon
    <3> QED
      BY <2>5, <3>1
  <2>7. OriginalTotal(M, {k}) <= OriginalTotal(M, Owned(e))
    <3>1. {k} \in SUBSET Owned(e)
      BY <2>2
    <3> QED
      BY <1>5, <2>2, <3>1, TotalFacts
  <2>8. e.original_size >= 1
    BY <1>1, <1>6, <2>5, <2>6, <2>7
  <2> QED
    BY <1>1, <1>6, <1>8, <2>8 DEF EntrySound
<1> QED
  BY <1>7, <1>8

\* The next chunk of an entry of a sound table passes the checks on it.
LEMMA SoundOwnedPasses ==
    ASSUME IInv, SumInv, EntrySumInv, pc = "owned", local < entry.chunk_count,
           EntryTableOk(L)
    PROVE  OwnedSound
<1>0. Typing
  BY DEF IInv
<1>1. /\ entries \in Seq(EntryRecords) /\ entries # << >>
      /\ entry.first_chunk \in Nat /\ entry.chunk_count \in Nat /\ local \in Nat
      /\ global \in 1 .. Len(chunks) /\ Len(chunks) \in Nat
      /\ chunks[global].original_size \in Nat /\ chunks[global].stored_size \in Nat
      /\ raw_total \in Nat /\ stored_total \in Nat
  BY <1>0, CurrentRecords DEF Typing, TypeOK, RangeInv
<1>2. Len(entries) \in DOMAIN entries /\ entry = entries[Len(entries)]
  BY <1>1 DEF entry
<1>3. global \in Owned(entry) /\ global \notin Marked
  BY <1>1 DEF Owned, Marked, global
<1>4. global \notin used_chunks
  <2>1. SUFFICES ASSUME global \in used_chunks
                 PROVE  FALSE
    OBVIOUS
  <2>2. DOMAIN chunks = 1 .. Len(chunks)
    BY <1>0, ChunksOfL
  <2>3. PICK i \in Checked : global \in Owned(entries[i])
    BY <1>1, <1>3, <2>1, <2>2 DEF IInv, UsedInv
  <2>4. i \in DOMAIN entries /\ i # Len(entries)
    BY <1>1, <2>3 DEF Checked
  <2>5. Owned(entries[i]) \cap Owned(entries[Len(entries)]) = {}
    BY <1>2, <2>4 DEF EntryTableOk, EntriesDisjoint, L
  <2> QED
    BY <1>2, <1>3, <2>3, <2>5
<1>5. /\ raw_total + chunks[global].original_size <= U64_MAX
      /\ stored_total + chunks[global].stored_size <= U64_MAX
  <2>1. /\ raw_total + chunks[global].original_size <= header.max_total
        /\ stored_total + chunks[global].stored_size <= header.toc_offset
    BY <1>0, NextTotalsFit DEF IInv
  <2>2. /\ header.max_total \in 0 .. U64_MAX /\ header.toc_offset \in 0 .. U64_MAX
        /\ U64_MAX \in Nat
    <3>1. U64_MAX \in Nat
      BY ValidateAssumption
    <3>2. header.max_total \in 0 .. U64_MAX /\ header.toc_offset \in 0 .. U64_MAX
      <4>1. header \in Headers
        BY <1>0 DEF Typing, TypeOK
      <4> QED
        BY <4>1, ValidateAssumption
    <3> QED
      BY <3>1, <3>2
  <2>3. PICK x : x = raw_total + chunks[global].original_size
    OBVIOUS
  <2>4. PICK y : y = stored_total + chunks[global].stored_size
    OBVIOUS
  <2>5. x \in Int /\ y \in Int
    BY <1>1, <2>3, <2>4
  <2>6. x <= U64_MAX /\ y <= U64_MAX
    BY <2>1, <2>2, <2>3, <2>4, <2>5
  <2> QED
    BY <2>3, <2>4, <2>6
<1>6. local + 1 # entry.chunk_count => chunks[global].original_size = header.chunk_size
  <2>1. SUFFICES ASSUME local + 1 # entry.chunk_count
                 PROVE  chunks[global].original_size = header.chunk_size
    OBVIOUS
  <2>2. global + 1 \in Owned(entry)
    <3>1. PICK f : f = entry.first_chunk
      OBVIOUS
    <3>2. PICK n : n = entry.chunk_count
      OBVIOUS
    <3>3. f + local + 2 \in (f + 1) .. (f + n) /\ f \in Nat
      BY <1>1, <2>1, <3>1, <3>2
    <3>4. global + 1 = f + local + 2
      BY <1>1, <3>1, <3>3 DEF global
    <3> QED
      BY <3>1, <3>2, <3>3, <3>4 DEF Owned
  <2>3. NonFinalChunksFull(L) /\ L.entries = entries /\ L.chunks = chunks
        /\ L.chunk_size = header.chunk_size
    BY DEF EntryTableOk, L
  <2> QED
    BY <1>2, <1>3, <2>2, <2>3 DEF NonFinalChunksFull
<1> QED
  BY <1>4, <1>5, <1>6 DEF OwnedSound

\* Every rejection is right, and nothing is blamed before one.
LEMMA VerdictStep ==
    ASSUME Typing', IInv, SumInv, EntrySumInv, VerdictInv, Next
    PROVE  VerdictInv'
<1>0. Typing /\ (pc # "rejected" => err = "none")
  BY DEF IInv, VerdictInv
<1>1. ASSUME pc # "rejected", UNCHANGED err
      PROVE  VerdictInv'
  BY <1>0, <1>1 DEF VerdictInv, RejectedIsIllFormed
<1>2. ASSUME NEW c \in ChunkRecords, RejectChunk(c)
      PROVE  VerdictInv'
  <2>1. /\ pc = "chunks" /\ pc' = "rejected" /\ chunks' = Append(chunks, c) /\ header' = header
    BY <1>2 DEF RejectChunk, Reject
  <2>2. CASE ~ChunkSound(c) /\ Reject("chunk")
    <3>1. ~ChunkTableOk(L')
      BY <1>0, <2>1, <2>2, SoundChunkPasses
    <3> QED
      BY <2>1, <2>2, <3>1 DEF Reject, VerdictInv, RejectedIsIllFormed
  <2>3. ASSUME total_decompressed + c.original_size > header.max_total,
               err' \in {"TooLarge", "ArchiveTooLarge"}
        PROVE  VerdictInv'
    <3>1. OriginalTotal(L', DOMAIN chunks')
            = OriginalTotal(L, DOMAIN chunks) + c.original_size
      BY <1>0, <2>1, AppendTotals
    <3>2. OriginalTotal(L', DOMAIN chunks') > header'.max_total
      BY <2>1, <2>3, <3>1 DEF SumInv
    <3> QED
      BY <2>1, <2>3, <3>2 DEF VerdictInv, RejectedIsIllFormed
  <2>4. /\ total_decompressed \in Nat /\ c.original_size \in Nat
        /\ header.max_total \in 0 .. U64_MAX /\ U64_MAX \in Nat
    BY <1>0, RecordTypes, ValidateAssumption DEF Typing, TypeOK
  <2>5. CASE total_decompressed + c.original_size > U64_MAX /\ Reject("TooLarge")
    BY <2>3, <2>4, <2>5 DEF Reject
  <2>6. CASE /\ total_decompressed + c.original_size \in (header.max_total + 1) .. U64_MAX
             /\ Reject("ArchiveTooLarge")
    BY <2>3, <2>4, <2>6 DEF Reject
  <2> QED
    BY <1>2, <2>2, <2>5, <2>6 DEF RejectChunk
<1>3. ASSUME NEW e \in EntryRecords, TakeEntry(e)
      PROVE  VerdictInv'
  <2>1. /\ pc = "entries" /\ entries' = Append(entries, e) /\ UNCHANGED <<chunks, header>>
    BY <1>3 DEF TakeEntry
  <2>2. CASE EntrySound(e)
    BY <1>1, <1>3, <2>1, <2>2 DEF TakeEntry
  <2>3. CASE ~EntrySound(e)
    <3>1. ~EntryTableOk(L')
      BY <1>0, <2>1, <2>3, SoundEntryPasses DEF IInv
    <3> QED
      BY <1>3, <2>3, <3>1 DEF TakeEntry, Reject, VerdictInv, RejectedIsIllFormed
  <2> QED
    BY <2>2, <2>3
<1>4. CASE CheckOwned
  <2>1. /\ pc = "owned" /\ local < entry.chunk_count /\ UNCHANGED <<chunks, header, entries>>
    BY <1>4 DEF CheckOwned
  <2>2. CASE OwnedSound
    BY <1>1, <1>4, <2>1, <2>2 DEF CheckOwned
  <2>3. CASE ~OwnedSound
    <3>1. ~EntryTableOk(L)
      BY <2>1, <2>3, SoundOwnedPasses
    <3>2. L' = L
      BY <2>1 DEF L
    <3> QED
      BY <1>4, <2>3, <3>1, <3>2 DEF CheckOwned, Reject, VerdictInv, RejectedIsIllFormed
  <2> QED
    BY <2>2, <2>3
<1>5. CASE EndOfOwned
  <2>1. /\ pc = "owned" /\ local = entry.chunk_count /\ UNCHANGED <<chunks, header, entries>>
    BY <1>5 DEF EndOfOwned
  <2>2. CASE raw_total = entry.original_size /\ stored_total = entry.stored_size
    BY <1>1, <1>5, <2>1, <2>2 DEF EndOfOwned
  <2>3. CASE ~(raw_total = entry.original_size /\ stored_total = entry.stored_size)
    <3>1. Marked = Owned(entry)
      BY <1>0, <2>1, MarkedFacts
    <3>2. /\ raw_total = OriginalTotal(L, Owned(entry))
          /\ stored_total = StoredTotal(L, Owned(entry))
      BY <2>1, <3>1 DEF EntrySumInv
    <3>3. entries \in Seq(EntryRecords) /\ entries # << >>
      BY <1>0, <2>1 DEF Typing, TypeOK, RangeInv
    <3>4. Len(entries) \in DOMAIN entries /\ entry = entries[Len(entries)]
      BY <3>3 DEF entry
    <3>5. ~EntryTableOk(L)
      <4>1. L.entries = entries
        BY DEF L
      <4> QED
        BY <2>3, <3>2, <3>4, <4>1 DEF EntryTableOk, EntrySizesMatch
    <3>6. L' = L
      BY <2>1 DEF L
    <3> QED
      BY <1>5, <2>3, <3>5, <3>6 DEF EndOfOwned, Reject, VerdictInv, RejectedIsIllFormed
  <2> QED
    BY <2>2, <2>3
<1>6. CASE EndOfEntries
  <2>1. pc = "entries" /\ UNCHANGED <<chunks, header, entries>>
    BY <1>6 DEF EndOfEntries
  <2>2. CASE used_chunks = DOMAIN chunks
    BY <1>1, <1>6, <2>1, <2>2 DEF EndOfEntries
  <2>3. CASE used_chunks # DOMAIN chunks
    <3>1. PICK k \in DOMAIN chunks : k \notin used_chunks
      <4>1. used_chunks \subseteq DOMAIN chunks
        BY <1>0, ChunksOfL DEF Typing, TypeOK
      <4> QED
        BY <2>3, <4>1
    <3>2. Checked = DOMAIN entries
      BY <2>1 DEF Checked
    <3>3. ~\E i \in DOMAIN entries : k \in Owned(entries[i])
      BY <2>1, <3>1, <3>2 DEF IInv, UsedInv
    <3>4. ~NoOrphanChunk(L)
      BY <3>1, <3>3 DEF NoOrphanChunk, L
    <3>5. L' = L
      BY <2>1 DEF L
    <3> QED
      BY <1>6, <2>3, <3>4, <3>5 DEF EndOfEntries, Reject, VerdictInv, RejectedIsIllFormed
  <2> QED
    BY <2>2, <2>3
<1>7. CASE Terminated
  <2>1. UNCHANGED <<pc, err, header, chunks, entries>>
    BY <1>7 DEF Terminated, vars
  <2>2. L' = L
    BY <2>1 DEF L
  <2> QED
    BY <2>1, <2>2 DEF VerdictInv, RejectedIsIllFormed
<1>8. ASSUME NEW c \in ChunkRecords, CheckChunk(c)
      PROVE  VerdictInv'
  BY <1>1, <1>8 DEF CheckChunk
<1>9. CASE EndOfChunks
  <2>1. CASE UNCHANGED err
    BY <1>1, <1>9, <2>1 DEF EndOfChunks
  <2>2. CASE Reject("memory")
    BY <2>2 DEF Reject, VerdictInv, RejectedIsIllFormed
  <2> QED
    BY <1>9, <2>1, <2>2 DEF EndOfChunks
<1> QED
  BY <1>2, <1>3, <1>4, <1>5, <1>6, <1>7, <1>8, <1>9 DEF Next

-----------------------------------------------------------------------------
ExactInv == IInv /\ SumInv /\ EntrySumInv /\ VerdictInv

LEMMA InitExact == Init => ExactInv
<1> SUFFICES ASSUME Init
             PROVE  ExactInv
  OBVIOUS
<1>1. IInv /\ Typing
  BY InitIInv DEF IInv
<1>2. chunks = << >> /\ entries = << >> /\ pc = "chunks" /\ err = "none"
  BY DEF Init
<1>3. SumInv
  <2>1. OriginalTotal(L, {}) = 0 /\ StoredTotal(L, {}) = 0
    BY <1>1, ChunksOfL, TotalFacts
  <2>2. DOMAIN chunks = {}
    BY <1>2
  <2>3. header.max_total \in Nat
    BY <1>1, RecordTypes DEF Typing, TypeOK
  <2>4. total_decompressed = 0 /\ previous_end = HEADER_SIZE
    BY DEF Init
  <2> QED
    BY <1>2, <2>1, <2>2, <2>3, <2>4 DEF SumInv, HEADER_SIZE
<1>4. EntrySumInv
  BY <1>2 DEF EntrySumInv, Checked
<1>5. VerdictInv
  BY <1>2 DEF VerdictInv, RejectedIsIllFormed
<1> QED
  BY <1>1, <1>3, <1>4, <1>5 DEF ExactInv

LEMMA NextExact == ExactInv /\ [Next]_vars => ExactInv'
<1> SUFFICES ASSUME ExactInv, [Next]_vars
             PROVE  ExactInv'
  OBVIOUS
<1>1. IInv /\ SumInv /\ EntrySumInv /\ VerdictInv /\ Typing /\ UsedInv
  BY DEF ExactInv, IInv
<1>2. IInv' /\ Typing'
  BY <1>1, NextIInv DEF IInv
<1>3. CASE Next
  <2>1. SumInv'
    <3>1. ASSUME NEW c \in ChunkRecords, CheckChunk(c)
          PROVE  SumInv'
      BY <1>1, <1>2, <3>1, ChunkSumStep
    <3>2. ASSUME NEW c \in ChunkRecords, RejectChunk(c)
          PROVE  SumInv'
      BY <3>2 DEF RejectChunk, Reject, SumInv
    <3>3. ASSUME NEW e \in EntryRecords, TakeEntry(e)
          PROVE  SumInv'
      BY <1>1, <3>3, SumKept DEF TakeEntry, chunkLoop
    <3>4. CASE EndOfChunks \/ CheckOwned \/ EndOfOwned \/ EndOfEntries
      BY <1>1, <3>4, SumKept DEF EndOfChunks, CheckOwned, EndOfOwned, EndOfEntries, chunkLoop
    <3>5. CASE Terminated
      BY <1>1, <3>5, SumKept DEF Terminated, vars, chunkLoop
    <3> QED
      BY <1>3, <3>1, <3>2, <3>3, <3>4, <3>5 DEF Next
  <2>2. EntrySumInv'
    BY <1>1, <1>2, <1>3, EntrySumStep
  <2>3. VerdictInv'
    BY <1>1, <1>2, <1>3, VerdictStep
  <2> QED
    BY <1>2, <2>1, <2>2, <2>3 DEF ExactInv
<1>4. CASE UNCHANGED vars
  <2>1. /\ UNCHANGED <<pc, err, header, chunks, entries, previous_end, total_decompressed>>
        /\ UNCHANGED <<local, raw_total, stored_total>>
    BY <1>4 DEF vars, chunkLoop, ownedLoop
  <2>2. L' = L /\ entry' = entry /\ Checked' = Checked /\ Marked' = Marked
    BY <2>1 DEF L, entry, Checked, Marked
  <2>3. SumInv'
    BY <1>1, <2>1, SumKept
  <2>4. EntrySumInv'
    BY <1>1, <2>1, <2>2 DEF EntrySumInv
  <2>5. VerdictInv'
    BY <1>1, <2>1, <2>2 DEF VerdictInv, RejectedIsIllFormed
  <2> QED
    BY <1>2, <2>3, <2>4, <2>5 DEF ExactInv
<1> QED
  BY <1>3, <1>4

LEMMA ExactAlways == Spec => []ExactInv
  BY InitExact, NextExact, PTL DEF Spec

\* validate_layout decides well-formedness for tables of any length: what it
\* accepts is well formed and within the limit, what it rejects is not, and
\* the error names the part of the tables that is at fault.
THEOREM VerdictIsExact == Spec => []AcceptsExactlyWellFormed
<1>1. ExactInv => AcceptsExactlyWellFormed
  <2> SUFFICES ASSUME ExactInv
               PROVE  AcceptsExactlyWellFormed
    OBVIOUS
  <2>1. RejectedIsIllFormed
    BY DEF ExactInv, VerdictInv
  <2>2. ASSUME pc = "accepted"
        PROVE  WellFormed(L) /\ OriginalTotal(L, DOMAIN chunks) <= header.max_total
    <3>1. Checked = DOMAIN entries
      BY <2>2 DEF Checked
    <3>2. ChunkTableOk(L) /\ EntriesInTable(L)
      BY <2>2 DEF ExactInv, IInv, ChunkLoopInv, CheckedInv
    <3>3. EntriesDisjoint(L)
      BY <2>2, <3>1 DEF ExactInv, IInv, CheckedInv, EntriesDisjoint, L
    <3>4. NoOrphanChunk(L)
      BY <2>2, <3>1 DEF ExactInv, IInv, UsedInv, AcceptedInv, NoOrphanChunk, L
    <3>5. NonFinalChunksFull(L)
      BY <2>2, <3>1 DEF ExactInv, IInv, CheckedInv, NonFinalChunksFull, L
    <3>6. EntrySizesMatch(L)
      <4>1. L.entries = entries
        BY DEF L
      <4> QED
        BY <2>2, <3>1, <4>1 DEF ExactInv, EntrySumInv, EntrySizesMatch
    <3> QED
      BY <2>2, <3>2, <3>3, <3>4, <3>5, <3>6 DEF WellFormed, EntryTableOk, ExactInv, SumInv
  <2> QED
    BY <2>1, <2>2 DEF AcceptsExactlyWellFormed, AcceptedIsWellFormed
<1> QED
  BY <1>1, ExactAlways, PTL

\* The checked additions of the entry loop of validate_layout cannot fail,
\* whatever the tables: the error they would return is never returned.
THEOREM EntryAdditionsNeverOverflow == Spec => []EntryTotalsFit
<1>1. ExactInv => EntryTotalsFit
  BY NextTotalsFit DEF ExactInv, IInv, EntryTotalsFit
<1> QED
  BY <1>1, ExactAlways, PTL
=============================================================================
