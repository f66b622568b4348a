------------------------------- MODULE Reader -------------------------------
(***************************************************************************)
(* Reading from an open archive, crates/rasen-archive/src/archive/reader.rs *)
(* from verify to read_chunk_by_index_into.  An Archive is immutable and   *)
(* each call has its own buffers, so calls on several threads do not meet; *)
(* what a call meets is its source.  The stored bytes may be damaged       *)
(* before a call or while it runs, and any read of them may fail.  A step  *)
(* is one chunk: the source is read once in it.                            *)
(*                                                                         *)
(* Data: a byte of an asset is its entry and its position.  Lookup by path *)
(* or id has been done: a call names an entry.                             *)
(***************************************************************************)
EXTENDS Layout, SequencesExt

CONSTANTS
    Layouts,      \* the tables an open archive may have
    max_chunks_per_operation,
    Offsets, Lens,      \* the ranges and buffer sizes callers ask for
    U64_MAX,
    MaxCalls,     \* bound: calls made one after the other
    MaxDamage     \* bound: chunks that get damaged

\* The tables that can be decoded: the header's chunk_size is not 0.
DecodedTable(L) ==
    /\ L.chunks \in Seq([offset : Nat, stored_size : Nat, original_size : Nat,
                         compressed : BOOLEAN])
    /\ L.entries \in Seq([first_chunk : Nat, chunk_count : Nat,
                          original_size : Nat, stored_size : Nat])
    /\ L.chunk_size \in Nat \ {0}

\* open_with_limits keeps no table validate_layout refuses.
ASSUME ReaderAssumption ==
    /\ \A L \in Layouts : DecodedTable(L) /\ WellFormed(L)
    /\ Offsets \cup Lens \subseteq 0 .. U64_MAX
    /\ {max_chunks_per_operation, U64_MAX, MaxCalls, MaxDamage} \subseteq Nat

VARIABLES
    toc,          \* entries, chunks, chunk_size of the Archive
    damaged,      \* the chunks whose stored bytes are not what was packed
    call,         \* the current or last call
    todo,         \* the chunks its loop has still to read
    dst, written, \* the output and how much of it the loop has filled
    decoded,      \* scratch.decoded, which a caller may pass from call to call
    result,       \* "none" while the call runs, "Ok" or the error
    calls

callVars == <<call, todo, dst, written, decoded, result, calls>>
vars == <<toc, damaged, callVars>>

Byte(i, b) == <<"asset", i, b>>
Zero == <<"zero", 0, 0>>
Caller == <<"caller", 0, 0>>      \* what a caller's buffer held before
Garbage == <<"garbage", 0, 0>>    \* what damaged bytes decode to

Buffer(n, byte) == [j \in 1 .. n |-> byte]

EntryAt(i) == toc.entries[i]
ChunkOf(item) == toc.chunks[EntryAt(item.entry).first_chunk + item.local + 1]
GlobalChunk(item) == EntryAt(item.entry).first_chunk + item.local + 1

\* Where an entry's chunk begins in the asset, by the sizes of those before.
AssetStart(item) ==
    LET first == EntryAt(item.entry).first_chunk IN
    OriginalTotal(toc, (first + 1) .. (first + item.local))

\* What was packed into a chunk.
Packed(item) ==
    [j \in 1 .. ChunkOf(item).original_size |->
        Byte(item.entry, AssetStart(item) + j - 1)]

\* The chunks first..last of entry i, in the order the loops take them.
Items(i, first, last) ==
    [j \in 1 .. (last + 1 - first) |-> [entry |-> i, local |-> first + j - 1]]

NoCall == [op |-> "none", entry |-> 1, from |-> 0, len |-> 0, exact |-> FALSE,
           n |-> 0, fill |-> Zero, at_start |-> {}]

Init ==
    /\ toc \in Layouts
    /\ damaged = {}
    /\ call = NoCall
    /\ todo = << >>
    /\ dst = << >>
    /\ written = 0
    /\ decoded = << >>
    /\ result = "Ok"
    /\ calls = 0

-----------------------------------------------------------------------------
(* The public methods, up to their loops *)

\* A call with an output of len bytes, of which the loop fills n.
Request(op, i, from, len, exact, n, fill) ==
    [op |-> op, entry |-> i, from |-> from, len |-> len, exact |-> exact,
     n |-> n, fill |-> fill, at_start |-> damaged]

Idle == result # "none" /\ calls < MaxCalls

Begin(request, items, out_len) ==
    /\ call' = request
    /\ todo' = items
    /\ dst' = Buffer(out_len, request.fill)
    /\ written' = 0
    /\ result' = "none"
    /\ calls' = calls + 1
    /\ UNCHANGED <<toc, damaged>>

Refuse(request, error, out_len) ==
    /\ call' = request
    /\ todo' = << >>
    /\ dst' = Buffer(out_len, request.fill)
    /\ written' = 0
    /\ result' = error
    /\ calls' = calls + 1
    /\ UNCHANGED <<toc, damaged>>

\* allocate makes the output, if there is memory for it.
Allocate(request, items, len) ==
    Begin(request, items, len) \/ Refuse(request, "TooLarge", 0)

\* Faulty: one chunk too many.
WithinLimit_OneMore(count) == count <= max_chunks_per_operation + 1

WithinLimit(count) == count <= max_chunks_per_operation

\* Methods without a scratch argument use a fresh one.
FreshScratch == decoded' = << >>
CallersScratch == decoded' \in {<< >>, decoded}

AllOf(i) == Items(i, 0, EntryAt(i).chunk_count - 1)

\* read and read_by_id
Read(i) ==
    LET size == EntryAt(i).original_size
        request == Request("read", i, 0, size, TRUE, size, Zero) IN
    /\ Idle
    /\ IF WithinLimit(EntryAt(i).chunk_count) THEN Allocate(request, AllOf(i), size)
       ELSE Refuse(request, "TooManyChunks", 0)
    /\ FreshScratch

\* read_into and read_into_with_scratch, into a buffer of len bytes
ReadInto(i, len) ==
    LET request == Request("read_into", i, 0, len, TRUE, len, Caller) IN
    /\ Idle
    /\ IF ~WithinLimit(EntryAt(i).chunk_count)
       THEN Refuse(request, "TooManyChunks", len)
       ELSE IF len # EntryAt(i).original_size
       THEN Refuse(request, "BufferSizeMismatch", len)
       ELSE Begin(request, AllOf(i), len)
    /\ CallersScratch

\* read_chunk
ReadChunk(i, k) ==
    LET item == [entry |-> i, local |-> k] IN
    /\ Idle
    /\ IF k >= EntryAt(i).chunk_count
       THEN Refuse(Request("read_chunk", i, 0, 0, TRUE, 0, Zero), "ChunkOutOfRange", 0)
       ELSE LET size == ChunkOf(item).original_size
                request == Request("read_chunk", i, AssetStart(item), size, TRUE, size, Zero)
            IN IF WithinLimit(1) THEN Allocate(request, <<item>>, size)
               ELSE Refuse(request, "TooManyChunks", 0)
    /\ FreshScratch

\* read_chunk_into and read_chunk_into_with_scratch
ReadChunkInto(i, k, len) ==
    LET item == [entry |-> i, local |-> k]
        Req(from) == Request("read_chunk_into", i, from, len, TRUE, len, Caller) IN
    /\ Idle
    /\ IF k >= EntryAt(i).chunk_count THEN Refuse(Req(0), "ChunkOutOfRange", len)
       ELSE IF ~WithinLimit(1) THEN Refuse(Req(0), "TooManyChunks", len)
       ELSE IF len # ChunkOf(item).original_size
       THEN Refuse(Req(0), "BufferSizeMismatch", len)
       ELSE Begin(Req(AssetStart(item)), <<item>>, len)
    /\ CallersScratch

MinOf(x, y) == IF x < y THEN x ELSE y
MaxOf(x, y) == IF x < y THEN y ELSE x

FirstLocal(offset) == offset \div toc.chunk_size
\* Faulty: takes the end of the range for its last byte.
LastLocal_PastEnd(end) == end \div toc.chunk_size

LastLocal(end) == (end - 1) \div toc.chunk_size

\* range_len: the length of the answer, or an error.
RangeLen(i, offset, len, exact) ==
    LET size == EntryAt(i).original_size
        requested_end == offset + len
        end == MinOf(requested_end, size)
        No(error) == [error |-> error, n |-> 0]
        Yes(n) == [error |-> "none", n |-> n] IN
    IF offset > size \/ (offset = size /\ len > 0 /\ exact) THEN No("InvalidRange")
    ELSE IF len = 0 \/ offset = size THEN Yes(0)
    ELSE IF requested_end > U64_MAX THEN No("InvalidRange")
    ELSE IF exact /\ requested_end > size THEN No("InvalidRange")
    ELSE IF WithinLimit(LastLocal(end) - FirstLocal(offset) + 1) THEN Yes(end - offset)
    ELSE No("TooManyChunks")

RangeItems(i, offset, n) ==
    IF n = 0 THEN << >> ELSE Items(i, FirstLocal(offset), LastLocal(offset + n))

\* read_range and read_range_exact
ReadRange(i, offset, len, exact) ==
    LET r == RangeLen(i, offset, len, exact)
        request == Request("read_range", i, offset, len, exact, r.n, Zero) IN
    /\ Idle
    /\ IF r.error = "none" THEN Allocate(request, RangeItems(i, offset, r.n), r.n)
       ELSE Refuse(request, r.error, 0)
    /\ FreshScratch

\* read_range_into and read_range_with_scratch: the answer is the first part
\* of the caller's buffer.
ReadRangeInto(i, offset, len) ==
    LET r == RangeLen(i, offset, len, FALSE)
        request == Request("read_range_into", i, offset, len, FALSE, r.n, Caller) IN
    /\ Idle
    /\ IF r.error = "none" THEN Begin(request, RangeItems(i, offset, r.n), len)
       ELSE Refuse(request, r.error, len)
    /\ CallersScratch

\* verify reads every chunk of every entry.
Verify ==
    LET request == Request("verify", 1, 0, 0, TRUE, 0, Zero) IN
    /\ Idle
    /\ IF WithinLimit(Len(toc.chunks))
       THEN Begin(request, FlattenSeq([i \in DOMAIN toc.entries |-> AllOf(i)]), 0)
       ELSE Refuse(request, "TooManyChunks", 0)
    /\ FreshScratch

-----------------------------------------------------------------------------
(* read_chunk_by_index_into and the loops around it *)

AllGarbage(item) == Buffer(ChunkOf(item).original_size, Garbage)

\* Damaged bytes that are decompressed or read in place may leave part of the
\* buffer overwritten.
Half(buf, bytes) == [j \in DOMAIN buf |-> IF 2 * j <= Len(buf) THEN bytes[j] ELSE buf[j]]

\* The stored bytes are read, decrypted and decompressed into buf: the error,
\* if there is one, and what buf then holds.  Without encryption a chunk that
\* is not compressed is read into buf directly; the others need scratch.stored
\* to be large enough.
Decodings(item, buf) ==
    LET in_place == ~toc.aead /\ ~ChunkOf(item).compressed
        intact == GlobalChunk(item) \notin damaged
        stored == IF intact THEN Packed(item) ELSE AllGarbage(item)
        Got(error, bytes) == [error |-> error, bytes |-> bytes] IN
    {Got("Io", buf)}
      \cup {IF in_place THEN Got("Io", Half(buf, stored)) ELSE Got("TooLarge", buf)}
      \cup (IF toc.aead /\ ~intact THEN {Got("Damage", buf)} ELSE {Got("none", stored)})
      \cup (IF toc.aead \/ in_place \/ intact THEN {}
            ELSE {Got("Damage", Half(buf, stored))})

\* Faulty: no checksum.
ChecksumOk_Skipped(item, bytes) == TRUE

\* The XXH3 of what was decoded is the chunk's: collisions are left out.
ChecksumOk(item, bytes) == bytes = Packed(item)

\* Faulty: leaves the checksum to the caller.
ChunkReads_Unchecked(item, buf) == Decodings(item, buf)

\* Every error and every answer of read_chunk_by_index_into for a buffer of
\* the chunk's size.
ChunkReads(item, buf) ==
    {[g EXCEPT !.error = IF g.error = "none" /\ ~ChecksumOk(item, g.bytes)
                         THEN "Damage" ELSE g.error] : g \in Decodings(item, buf)}

\* resize_buffer keeps what the scratch held.
Resized(buf, n) == [j \in 1 .. n |-> IF j <= Len(buf) THEN buf[j] ELSE Zero]

\* bytes copied over buf, from position at on.
Spliced(buf, at, bytes) ==
    [j \in DOMAIN buf |->
        IF j - at \in DOMAIN bytes THEN bytes[j - at] ELSE buf[j]]

Item == Head(todo)

Stop(error) ==
    /\ result' = error
    /\ todo' = << >>

\* There is no memory for scratch.decoded to grow.
NoRoom ==
    /\ Len(decoded) < ChunkOf(Item).original_size
    /\ Stop("TooLarge")
    /\ UNCHANGED <<dst, written, decoded>>

Running(ops) == result = "none" /\ todo # << >> /\ call.op \in ops

\* Faulty: takes every chunk to be full.
EndAfter_FullChunks(item) == written + toc.chunk_size

\* Where the part of the output that the chunk fills ends.
EndAfter(item) == written + ChunkOf(item).original_size

\* read_entry_into and the read_chunk methods: straight into the output.
ReadToOutput ==
    LET end == EndAfter(Item) IN
    /\ Running({"read", "read_into", "read_chunk", "read_chunk_into"})
    /\ IF end > Len(dst) THEN Stop("Corrupt") /\ UNCHANGED <<dst, written>>
       ELSE \E g \in ChunkReads(Item, SubSeq(dst, written + 1, end)) :
              /\ dst' = Spliced(dst, written, g.bytes)
              /\ IF g.error = "none"
                 THEN written' = end /\ todo' = Tail(todo) /\ UNCHANGED result
                 ELSE Stop(g.error) /\ UNCHANGED written
    /\ UNCHANGED <<toc, damaged, call, decoded, calls>>

\* The part of chunk Item that a range from..end asks for, by the closed form
\* that a chunk begins at a multiple of chunk_size.
TakeStart ==
    LET chunk_start == Item.local * toc.chunk_size IN
    MaxOf(call.from, chunk_start) - chunk_start

TakeEnd ==
    LET chunk_start == Item.local * toc.chunk_size IN
    MinOf(call.from + call.n, chunk_start + ChunkOf(Item).original_size) - chunk_start

\* read_range_index_into: into the scratch, then the slice into the output.
ReadToScratch ==
    /\ Running({"read_range", "read_range_into"})
    /\ IF Item.local >= EntryAt(Item.entry).chunk_count
       THEN Stop("Corrupt") /\ UNCHANGED <<dst, written, decoded>>
       ELSE \/ NoRoom
            \/ \E g \in ChunkReads(Item, Resized(decoded, ChunkOf(Item).original_size)) :
                 /\ decoded' = g.bytes
                 /\ IF g.error # "none" THEN Stop(g.error) /\ UNCHANGED <<dst, written>>
                    ELSE IF \/ TakeStart > TakeEnd
                            \/ written + TakeEnd - TakeStart > call.n
                            \/ TakeEnd > Len(decoded')
                    THEN Stop("Corrupt") /\ UNCHANGED <<dst, written>>
                    ELSE /\ dst' = Spliced(dst, written,
                                     SubSeq(decoded', TakeStart + 1, TakeEnd))
                         /\ written' = written + TakeEnd - TakeStart
                         /\ todo' = Tail(todo)
                         /\ UNCHANGED result
    /\ UNCHANGED <<toc, damaged, call, calls>>

VerifyChunk ==
    /\ Running({"verify"})
    /\ \/ NoRoom
       \/ /\ \E g \in ChunkReads(Item, Resized(decoded, ChunkOf(Item).original_size)) :
                /\ decoded' = g.bytes
                /\ IF g.error = "none" THEN todo' = Tail(todo) /\ UNCHANGED result
                   ELSE Stop(g.error)
          /\ UNCHANGED <<dst, written>>
    /\ UNCHANGED <<toc, damaged, call, calls>>

Return ==
    /\ result = "none"
    /\ todo = << >>
    /\ result' = IF written = call.n THEN "Ok" ELSE "Corrupt"
    /\ UNCHANGED <<toc, damaged, call, todo, dst, written, decoded, calls>>

\* The stored bytes of a chunk change under the open archive.
Damage(k) ==
    /\ Cardinality(damaged) < MaxDamage
    /\ damaged' = damaged \cup {k}
    /\ UNCHANGED <<toc, callVars>>

NoMoreCalls == calls = MaxCalls /\ result # "none" /\ UNCHANGED vars

CallStep == ReadToOutput \/ ReadToScratch \/ VerifyChunk \/ Return

Next ==
    \/ \E i \in DOMAIN toc.entries :
          \/ Read(i)
          \/ \E len \in Lens : ReadInto(i, len)
          \/ \E k \in Lens : ReadChunk(i, k)
          \/ \E k, len \in Lens : ReadChunkInto(i, k, len)
          \/ \E offset \in Offsets, len \in Lens :
                \/ \E exact \in BOOLEAN : ReadRange(i, offset, len, exact)
                \/ ReadRangeInto(i, offset, len)
    \/ Verify
    \/ CallStep
    \/ \E k \in DOMAIN toc.chunks : Damage(k)
    \/ NoMoreCalls

Spec == Init /\ [][Next]_vars

-----------------------------------------------------------------------------
(* Properties *)

RangeOps == {"read_range", "read_range_into"}
CallerOps == {"read_into", "read_chunk_into", "read_range_into"}
Errors == {"TooManyChunks", "BufferSizeMismatch", "ChunkOutOfRange",
           "InvalidRange", "TooLarge", "Io", "Damage", "Corrupt"}

\* What the loops keep has its shape; no loop writes past its output.
TypeOK ==
    /\ toc \in Layouts
    /\ damaged \subseteq DOMAIN toc.chunks
    /\ todo \in Seq([entry : DOMAIN toc.entries, local : Nat])
    /\ written \in 0 .. Len(dst)
    /\ Len(decoded) <= toc.chunk_size
    /\ result \in Errors \cup {"none", "Ok"}
    /\ result # "none" => todo = << >>
    /\ calls \in 0 .. MaxCalls

\* The length a range should have, by clipping.
Clipped == MinOf(call.from + call.len, EntryAt(call.entry).original_size) - call.from

\* A read that returns Ok has returned the asset's own bytes, from the place
\* asked for and as many as asked for or as there are, whatever happened to
\* the stored bytes and whatever the scratch held; the rest of the caller's
\* buffer is as it was.
ReadsReturnTheAsset ==
    result = "Ok" /\ call.op \notin {"none", "verify"} =>
        /\ call.n = Clipped
        /\ \A j \in DOMAIN dst :
              dst[j] = IF j <= call.n THEN Byte(call.entry, call.from + j - 1)
                       ELSE call.fill

\* A range read never lets a byte into the output before the checksum of its
\* chunk has been checked, also when it ends in an error.
RangeWritesVerified ==
    call.op \in RangeOps =>
        \A j \in DOMAIN dst :
            dst[j] = IF j <= written THEN Byte(call.entry, call.from + j - 1)
                     ELSE call.fill

\* The chunks that hold the bytes a call asks for.
Needed ==
    LET e == EntryAt(call.entry) IN
    IF call.op = "verify" THEN DOMAIN toc.chunks
    ELSE {k \in Owned(e) :
            LET start == AssetStart([entry |-> call.entry, local |-> k - e.first_chunk - 1])
            IN /\ call.n > 0 /\ start < call.from + call.n
               /\ call.from < start + toc.chunks[k].original_size}

\* Damage is reported exactly where it matters: a call that returns Ok met no
\* chunk that was damaged when it began, and one that reports damage needed a
\* damaged chunk.
DamageIsLocal ==
    /\ result = "Ok" => Needed \cap call.at_start = {}
    /\ result = "Damage" => Needed \cap damaged # {}

\* On a table that validate_layout accepted no loop runs off its entry, its
\* chunk or its output: the checks for a corrupt table never fire.
SoundTableNeverBlamed == result # "Corrupt"

\* One call reads at most max_chunks_per_operation chunks.
ChunkBudget == Len(todo) <= max_chunks_per_operation

\* A call that fails leaves the caller's buffer as it was.
OutputsUnchangedOnError ==
    call.op \in CallerOps /\ result \in Errors =>
        \A j \in DOMAIN dst : dst[j] = Caller
=============================================================================
