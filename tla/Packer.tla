------------------------------- MODULE Packer -------------------------------
(***************************************************************************)
(* The streaming packer, crates/rasen-archive/src/pack/writer.rs.          *)
(*                                                                         *)
(* A Packer borrows one writer exclusively, so nothing runs concurrently   *)
(* with it; what surprises it is its environment.  A step of this module   *)
(* is the code between two calls it makes into the environment: a          *)
(* reader.read, which may deliver any number of bytes, none, or an error,  *)
(* and a writer.write_all, which may fail after writing part of its bytes. *)
(* The client may stop between any two steps (the Packer is dropped, the   *)
(* process ends): the destination then keeps what was written so far.      *)
(*                                                                         *)
(* Data: a byte of an input is its position in its reader's stream, so a   *)
(* chunk's contents are a sequence of positions; LZ4 is the size it        *)
(* returns, encryption is the bytes it adds and the chunk index it binds.  *)
(***************************************************************************)
EXTENDS Layout, FiniteSets

CONSTANTS
    RawPaths,     \* the paths a client may pass to add_reader
    Normalize,    \* normalize_path: a normalized path, or Rejected
    Rejected,
    PathHash,     \* the XXH3-64 of a normalized path; may collide
    PathLen,      \* the UTF-8 length of a normalized path
    OptionSet,    \* the key and PackOptions a client may pass to new
    ZEROES,       \* the bytes of padding written by one write_all
    MAX_CHUNK_SIZE, MAX_ALIGNMENT, MAX_TOC_RAW_SIZE, MAX_TOC_STORED_SIZE,
    U32_MAX, U64_MAX,
    EofIsFinal,   \* does a reader that returned Ok(0) return Ok(0) for ever?
    TocLens,      \* the sizes LZ4 may return for the table of contents
    MaxStreamBytes, \* bound: the bytes one reader delivers
    MaxEntries      \* bound: the files one client adds

Paths == {Normalize[p] : p \in RawPaths} \ {Rejected}

Modes == {"Debug", "Production"}
Protections == {"Xor", "Aead"}

ASSUME PackerAssumption ==
    /\ Normalize \in [RawPaths -> Paths \cup {Rejected}]
    /\ PathLen \in [Paths -> Nat]
    /\ DOMAIN PathHash = Paths
    /\ OptionSet \subseteq [key : STRING, chunk_size : Nat, alignment : Nat,
                            mode : Modes, protection : Protections]
    /\ ZEROES \in Nat \ {0}
    /\ {MAX_CHUNK_SIZE, MAX_ALIGNMENT, MAX_TOC_RAW_SIZE,
        MAX_TOC_STORED_SIZE, U32_MAX, U64_MAX} \subseteq Nat
    /\ HEADER_SIZE <= U64_MAX
    /\ EofIsFinal \in BOOLEAN
    /\ TocLens \subseteq Nat \ {0}
    /\ {MaxStreamBytes, MaxEntries} \subseteq Nat

VARIABLES
    pc,           \* where the running call is; "idle" between calls
    options, entries, chunks, seen_hashes, offset, failed,   \* struct Packer
    cur,          \* the locals of add_reader_inner
    raw,          \* the bytes in self.raw[..filled]
    remaining,    \* the padding align has still to write
    toc_offset,   \* where finish puts the table of contents
    stream,       \* the reader: how much it delivered, whether it said EOF
    served,       \* what each finished entry's reader delivered (history)
    disk,         \* the extents written to the destination
    pos,          \* where the next appending write goes
    hdr           \* how many header fields have been written over the zeros

structVars == <<options, entries, chunks, seen_hashes, offset, failed>>
callVars == <<cur, raw, remaining, toc_offset>>
readerVars == <<stream, served>>
writerVars == <<disk, pos, hdr>>
vars == <<pc, structVars, callVars, readerVars, writerVars>>

HEADER_FIELDS == 12

NoCall == [path |-> Rejected, first_chunk |-> 0,
           original_total |-> 0, stored_total |-> 0]

Unread == [delivered |-> 0, ended |-> FALSE]

\* What the destination holds at a place: stale bytes of an earlier file, a
\* whole stored chunk with its contents, the chunk index bound to it and the
\* entry it was read for, the stored table of contents, or part of a write.
Extent(at, len, kind, index, entry, bytes) ==
    [at |-> at, len |-> len, kind |-> kind, index |-> index,
     entry |-> entry, bytes |-> bytes]

StaleBytes == Extent(0, 1, "stale", 0, 0, << >>)

\* A write_all that fails has written nothing, or all but the last byte.
TornLengths(n) == {0, n - 1}

aead == options.protection = "Aead"
strips_paths == options.mode = "Production"
StoredLen(payload) == IF aead THEN payload + AEAD_OVERHEAD ELSE payload

\* Paths are cleared before the table of contents is encoded in Production.
EncodedTocSize ==
    4 + 36 * Len(entries) + 36 * Len(chunks)
      + IF strips_paths THEN 0
        ELSE SumFunction([i \in DOMAIN entries |-> PathLen[entries[i].path]])

\* The layout the encoded table of contents and the header declare.
Toc == [chunks |-> chunks, entries |-> entries,
        toc_offset |-> toc_offset, chunk_size |-> options.chunk_size,
        alignment |-> options.alignment, aead |-> aead]

PowersOfTwo == {2^k : k \in 0 .. 20}

ValidOptions(o) ==
    /\ o.key # ""
    /\ o.chunk_size \in 1 .. MAX_CHUNK_SIZE
    /\ o.alignment \in 1 .. MAX_ALIGNMENT
    /\ o.alignment \in PowersOfTwo

-----------------------------------------------------------------------------
Init ==
    /\ pc = "new"
    /\ options \in OptionSet
    /\ entries = << >>
    /\ chunks = << >>
    /\ seen_hashes = {}
    /\ offset = 0
    /\ failed = FALSE
    /\ cur = NoCall
    /\ raw = << >>
    /\ remaining = 0
    /\ toc_offset = 0
    /\ stream = Unread
    /\ served = << >>
    /\ disk \in {{}, {StaleBytes}}
    /\ pos = 0
    /\ hdr = 0

(* Packer::new *)

New ==
    /\ pc = "new"
    /\ ValidOptions(options)
    /\ disk = {}
    /\ pos' = HEADER_SIZE
    /\ offset' = HEADER_SIZE
    /\ pc' = "idle"
    /\ UNCHANGED <<options, entries, chunks, seen_hashes, failed,
                   callVars, readerVars, disk, hdr>>

\* An empty key or invalid options, a destination that is not empty, a failing
\* writer, or a buffer that cannot be allocated once the zeros are written.
NewFails ==
    /\ pc = "new"
    /\ pc' = "dead"
    /\ \/ ~ValidOptions(options) /\ UNCHANGED pos
       \/ disk # {} /\ UNCHANGED pos
       \/ /\ ValidOptions(options)
          /\ disk = {}
          /\ pos' \in TornLengths(HEADER_SIZE) \cup {HEADER_SIZE}
    /\ UNCHANGED <<structVars, callVars, readerVars, disk, hdr>>

-----------------------------------------------------------------------------
(* add_reader *)

\* add_reader returns an error: the packer is failed from then on.
AddFails ==
    /\ failed' = TRUE
    /\ pc' = "idle"
    /\ cur' = NoCall
    /\ raw' = << >>
    /\ remaining' = 0
    /\ UNCHANGED toc_offset

\* Faulty: compares paths only, though production keeps none.
PathRefused_ByPathOnly(p) ==
    Normalize[p] # Rejected =>
        \E i \in DOMAIN entries : entries[i].path = Normalize[p]

\* The path does not normalize, was added before, or production mode could
\* not tell it from one that was: lookups there go by hash alone.
PathRefused(p) ==
    Normalize[p] # Rejected =>
        /\ PathHash[Normalize[p]] \in seen_hashes
        /\ \/ \E i \in DOMAIN entries : entries[i].path = Normalize[p]
           \/ strips_paths

\* Faulty: goes on after a failed add_reader.
AddReader_IgnoresFailure(p) ==
    /\ pc = "idle"
    /\ ~PathRefused(p)
    /\ Len(entries) < MaxEntries
    /\ seen_hashes' = seen_hashes \cup {PathHash[Normalize[p]]}
    /\ cur' = [NoCall EXCEPT !.path = Normalize[p],
                             !.first_chunk = Len(chunks)]
    /\ stream' = Unread
    /\ pc' = "read"
    /\ UNCHANGED <<options, entries, chunks, offset, failed, raw, remaining,
                   toc_offset, served, writerVars>>

AddReader(p) ==
    /\ pc = "idle"
    /\ ~failed
    /\ ~PathRefused(p)
    /\ Len(entries) < MaxEntries
    /\ seen_hashes' = seen_hashes \cup {PathHash[Normalize[p]]}
    /\ cur' = [NoCall EXCEPT !.path = Normalize[p],
                             !.first_chunk = Len(chunks)]
    /\ stream' = Unread
    /\ pc' = "read"
    /\ UNCHANGED <<options, entries, chunks, offset, failed, raw, remaining,
                   toc_offset, served, writerVars>>

AddReaderRefused(p) ==
    /\ pc = "idle"
    /\ ~failed
    /\ Len(entries) < MaxEntries
    /\ PathRefused(p)
    /\ AddFails
    /\ UNCHANGED <<options, entries, chunks, seen_hashes, offset,
                   readerVars, writerVars>>

\* Faulty: puts a short read's continuation before what was read.
ReadSome_Prepends(n) ==
    /\ pc = "read"
    /\ n \in 1 .. (options.chunk_size - Len(raw))
    /\ stream.delivered + n <= MaxStreamBytes
    /\ stream.ended => ~EofIsFinal
    /\ raw' = [i \in 1 .. n |-> stream.delivered + i] \o raw
    /\ stream' = [stream EXCEPT !.delivered = @ + n]
    /\ pc' = IF Len(raw') = options.chunk_size THEN "align" ELSE "read"
    /\ UNCHANGED <<structVars, cur, remaining, toc_offset, served, writerVars>>

\* One reader.read inside read_chunk, into what is left of the buffer.
ReadSome(n) ==
    /\ pc = "read"
    /\ n \in 1 .. (options.chunk_size - Len(raw))
    /\ stream.delivered + n <= MaxStreamBytes
    /\ stream.ended => ~EofIsFinal
    /\ raw' = raw \o [i \in 1 .. n |-> stream.delivered + i]
    /\ stream' = [stream EXCEPT !.delivered = @ + n]
    /\ pc' = IF Len(raw') = options.chunk_size THEN "align" ELSE "read"
    /\ UNCHANGED <<structVars, cur, remaining, toc_offset, served, writerVars>>

\* Faulty: asks again after Ok(0), for ever.
ReadEof_Retries ==
    /\ pc = "read"
    /\ raw # << >>
    /\ stream' = [stream EXCEPT !.ended = ~@]
    /\ UNCHANGED <<pc, structVars, callVars, served, writerVars>>

\* Ok(0) with bytes in the buffer: read_chunk returns a short chunk.
ReadEof ==
    /\ pc = "read"
    /\ raw # << >>
    /\ stream' = [stream EXCEPT !.ended = TRUE]
    /\ pc' = "align"
    /\ UNCHANGED <<structVars, callVars, served, writerVars>>

\* Ok(0) on an empty buffer ends the loop: the entry is recorded.
EndOfEntry ==
    /\ pc = "read"
    /\ raw = << >>
    /\ entries' = Append(entries,
            [path |-> cur.path, first_chunk |-> cur.first_chunk,
             chunk_count |-> Len(chunks) - cur.first_chunk,
             original_size |-> cur.original_total,
             stored_size |-> cur.stored_total])
    /\ served' = Append(served, stream.delivered)
    /\ stream' = Unread
    /\ IF Len(entries') <= U32_MAX
       THEN /\ pc' = "idle"
            /\ cur' = NoCall
            /\ UNCHANGED <<failed, raw, remaining, toc_offset>>
       ELSE AddFails
    /\ UNCHANGED <<options, chunks, seen_hashes, offset, writerVars>>

ReadFails ==
    /\ pc = "read"
    /\ AddFails
    /\ UNCHANGED <<options, entries, chunks, seen_hashes, offset,
                   readerVars, writerVars>>

-----------------------------------------------------------------------------
(* align: from add_reader_inner ("align") and from finish ("finalign") *)

Aligned == AlignedUp(offset, options.alignment)

AfterPad == IF pc \in {"align", "pad"} THEN "store" ELSE "toc"

Align ==
    /\ pc \in {"align", "finalign"}
    /\ offset + (options.alignment - 1) <= U64_MAX
    /\ remaining' = Aligned - offset
    /\ pc' = IF Aligned = offset THEN AfterPad
             ELSE IF pc = "align" THEN "pad" ELSE "finpad"
    /\ UNCHANGED <<structVars, cur, raw, toc_offset, readerVars, writerVars>>

\* One write_all of zeros; self.offset moves when the last one is written.
PadWrite ==
    /\ pc \in {"pad", "finpad"}
    /\ LET amount == IF remaining < ZEROES THEN remaining ELSE ZEROES IN
       /\ pos' = pos + amount
       /\ remaining' = remaining - amount
    /\ IF remaining' = 0 THEN offset' = Aligned /\ pc' = AfterPad
                         ELSE UNCHANGED <<offset, pc>>
    /\ UNCHANGED <<options, entries, chunks, seen_hashes, failed, cur, raw,
                   toc_offset, readerVars, disk, hdr>>

\* The aligned offset overflows, or the writer fails.
AlignFails ==
    /\ \/ /\ pc = "align"
          /\ offset + (options.alignment - 1) > U64_MAX
          /\ UNCHANGED pos
       \/ /\ pc = "pad"
          /\ \E k \in TornLengths(remaining) : pos' = pos + k
    /\ AddFails
    /\ UNCHANGED <<options, entries, chunks, seen_hashes, offset,
                   readerVars, disk, hdr>>

-----------------------------------------------------------------------------
(* The rest of the loop of add_reader_inner *)

\* Faulty: keeps a compressed chunk that is no smaller.
KeepCompressed_NoGain(compressed_len) == compressed_len <= Len(raw)

\* The chunk is kept compressed only when that makes it smaller.
KeepCompressed(compressed_len) == compressed_len < Len(raw)

PayloadLen(compressed_len) ==
    IF KeepCompressed(compressed_len) THEN compressed_len ELSE Len(raw)

\* The writer takes n bytes of the current chunk.
StoreChunk(n) ==
    /\ disk' = disk \cup {Extent(pos, n, "chunk", Len(chunks),
                                 Len(entries) + 1, raw)}
    /\ pos' = pos + n
    /\ UNCHANGED hdr

ChunkRecord(compressed_len) ==
    [offset |-> offset, stored_size |-> StoredLen(PayloadLen(compressed_len)),
     original_size |-> Len(raw), compressed |-> KeepCompressed(compressed_len)]

TotalsFit(n) ==
    /\ cur.original_total + Len(raw) <= U64_MAX
    /\ cur.stored_total + n <= U64_MAX

\* Faulty: adds to self.offset without a check.
Store_Unchecked(compressed_len) ==
    LET n == StoredLen(PayloadLen(compressed_len)) IN
    /\ pc = "store"
    /\ Len(chunks) + 1 <= U32_MAX
    /\ StoreChunk(n)
    /\ offset' = offset + n
    /\ chunks' = Append(chunks, ChunkRecord(compressed_len))
    /\ cur' = [cur EXCEPT !.original_total = @ + Len(raw),
                          !.stored_total = @ + n]
    /\ raw' = << >>
    /\ pc' = "read"
    /\ UNCHANGED <<options, entries, seen_hashes, failed, remaining,
                   toc_offset, readerVars>>

Store(compressed_len) ==
    LET n == StoredLen(PayloadLen(compressed_len)) IN
    /\ pc = "store"
    /\ offset + n <= U64_MAX
    /\ TotalsFit(n)
    /\ Len(chunks) + 1 <= U32_MAX
    /\ StoreChunk(n)
    /\ offset' = offset + n
    /\ chunks' = Append(chunks, ChunkRecord(compressed_len))
    /\ cur' = [cur EXCEPT !.original_total = @ + Len(raw),
                          !.stored_total = @ + n]
    /\ raw' = << >>
    /\ pc' = "read"
    /\ UNCHANGED <<options, entries, seen_hashes, failed, remaining,
                   toc_offset, readerVars>>

\* Faulty: drops the chunk and reads on.
StoreTooLarge_ReadsOn(compressed_len) ==
    LET n == StoredLen(PayloadLen(compressed_len)) IN
    /\ pc = "store"
    /\ Len(chunks) + 1 > U32_MAX
    /\ StoreChunk(n)
    /\ offset' = offset + n
    /\ raw' = << >>
    /\ pc' = "read"
    /\ UNCHANGED <<options, entries, chunks, seen_hashes, failed, cur, remaining,
                   toc_offset, readerVars>>

\* The chunk is written, then a checked addition or conversion fails.
StoreTooLarge(compressed_len) ==
    LET n == StoredLen(PayloadLen(compressed_len))
        offset_fits == offset + n <= U64_MAX IN
    /\ pc = "store"
    /\ ~(offset_fits /\ TotalsFit(n) /\ Len(chunks) + 1 <= U32_MAX)
    /\ StoreChunk(n)
    /\ offset' = IF offset_fits THEN offset + n ELSE offset
    /\ chunks' = IF offset_fits /\ TotalsFit(n)
                 THEN Append(chunks, ChunkRecord(compressed_len)) ELSE chunks
    /\ AddFails
    /\ UNCHANGED <<options, entries, seen_hashes, readerVars>>

StoreFails(compressed_len) ==
    LET n == StoredLen(PayloadLen(compressed_len)) IN
    /\ pc = "store"
    /\ \E k \in TornLengths(n) :
          /\ pos' = pos + k
          /\ disk' = disk \cup {Extent(pos, k, "torn", Len(chunks),
                                       Len(entries) + 1, raw)}
    /\ AddFails
    /\ UNCHANGED <<options, entries, chunks, seen_hashes, offset,
                   readerVars, hdr>>

-----------------------------------------------------------------------------
(* finish *)

Finish ==
    /\ pc = "idle"
    /\ pc' = IF failed THEN "dead" ELSE "finalign"
    /\ UNCHANGED <<structVars, callVars, readerVars, writerVars>>

\* The compressed table with what encryption adds (XOR adds nothing).
TocSizes == {StoredLen(n) : n \in TocLens}

TocFits(toc_size) ==
    /\ EncodedTocSize <= MAX_TOC_RAW_SIZE
    /\ toc_size <= MAX_TOC_STORED_SIZE

WriteToc(toc_size) ==
    /\ pc = "toc"
    /\ TocFits(toc_size)
    /\ toc_offset' = offset
    /\ disk' = disk \cup {Extent(pos, toc_size, "toc", 0, 0, << >>)}
    /\ pos' = pos + toc_size
    /\ IF offset + toc_size <= U64_MAX
       THEN offset' = offset + toc_size /\ pc' = "header"
       ELSE pc' = "dead" /\ UNCHANGED offset
    /\ UNCHANGED <<options, entries, chunks, seen_hashes, failed, cur, raw,
                   remaining, readerVars, hdr>>

\* write_header: one write_all per field, over the zeros written by new.
WriteHeaderField ==
    /\ pc = "header"
    /\ hdr < HEADER_FIELDS
    /\ hdr' = hdr + 1
    /\ UNCHANGED <<pc, structVars, callVars, readerVars, disk, pos>>

\* The last seek, to the end of the archive; finish returns Ok.
SeekEnd ==
    /\ pc = "header"
    /\ hdr = HEADER_FIELDS
    /\ pc' = "done"
    /\ UNCHANGED <<structVars, callVars, readerVars, writerVars>>

\* finish returns an error; it took the packer, so no call can follow.
FinishFails ==
    /\ pc' = "dead"
    /\ \/ /\ pc = "finalign"
          /\ offset + (options.alignment - 1) > U64_MAX
          /\ UNCHANGED <<disk, pos>>
       \/ /\ pc = "finpad"
          /\ \E k \in TornLengths(remaining) : pos' = pos + k
          /\ UNCHANGED disk
       \/ /\ pc = "toc"
          /\ \E toc_size \in TocSizes :
                \/ ~TocFits(toc_size) /\ UNCHANGED <<disk, pos>>
                \/ /\ TocFits(toc_size)
                   /\ \E k \in TornLengths(toc_size) :
                        /\ pos' = pos + k
                        /\ disk' = disk \cup
                             {Extent(pos, k, "torn", 0, 0, << >>)}
       \/ pc = "header" /\ UNCHANGED <<disk, pos>>
    /\ UNCHANGED <<structVars, callVars, readerVars, hdr>>

-----------------------------------------------------------------------------
\* The client drops the packer between calls, or the process ends in one.
Abandon ==
    /\ pc \notin {"new", "done", "dead"}
    /\ pc' = "dead"
    /\ UNCHANGED <<structVars, callVars, readerVars, writerVars>>

Terminated ==
    /\ pc \in {"done", "dead"}
    /\ UNCHANGED vars

\* The steps of a running call: the scheduler owes the packer these.
CallStep ==
    \/ \E n \in 1 .. MAX_CHUNK_SIZE : ReadSome(n)
    \/ ReadEof \/ EndOfEntry \/ ReadFails
    \/ Align \/ PadWrite \/ AlignFails
    \/ \E compressed_len \in 1 .. (Len(raw) + 1) :
          \/ Store(compressed_len)
          \/ StoreTooLarge(compressed_len)
          \/ StoreFails(compressed_len)
    \/ \E toc_size \in TocSizes : WriteToc(toc_size)
    \/ WriteHeaderField \/ SeekEnd
    \/ FinishFails

Next ==
    \/ New \/ NewFails
    \/ \E p \in RawPaths : AddReader(p) \/ AddReaderRefused(p)
    \/ CallStep
    \/ Finish
    \/ Abandon
    \/ Terminated

Spec == Init /\ [][Next]_vars

\* A call that was made is executed to its end while the process lives.
FairSpec == Spec /\ WF_vars(CallStep)

-----------------------------------------------------------------------------
(* Properties *)

PCs == {"new", "idle", "read", "align", "pad", "store",
        "finalign", "finpad", "toc", "header", "done", "dead"}

Chunk == [offset : Nat, stored_size : Nat, original_size : Nat,
          compressed : BOOLEAN]
TocEntry == [path : Paths, first_chunk : Nat, chunk_count : Nat,
             original_size : Nat, stored_size : Nat]
Call == [path : Paths \cup {Rejected}, first_chunk : Nat,
         original_total : Nat, stored_total : Nat]
Extents == [at : Nat, len : Nat, kind : {"stale", "chunk", "toc", "torn"},
            index : Nat, entry : Nat, bytes : Seq(Nat)]

\* The state of struct Packer, of its call and of its environment has the
\* shape the code gives it; sizes and offsets never leave their integers.
TypeOK ==
    /\ pc \in PCs
    /\ options \in OptionSet
    /\ entries \in Seq(TocEntry)
    /\ chunks \in Seq(Chunk)
    /\ seen_hashes \subseteq {PathHash[p] : p \in Paths}
    /\ offset \in 0 .. U64_MAX
    /\ failed \in BOOLEAN
    /\ cur \in Call
    /\ raw \in Seq(Nat)
    /\ Len(raw) <= options.chunk_size
    /\ remaining \in Nat
    /\ toc_offset \in Nat
    /\ stream \in [delivered : Nat, ended : BOOLEAN]
    /\ served \in Seq(Nat)
    /\ disk \subseteq Extents
    /\ pos \in Nat
    /\ hdr \in 0 .. HEADER_FIELDS

\* An archive that finish reported as written has a layout the reader's
\* validate_layout accepts: chunks aligned, in order, inside the payload, each
\* owned by one entry, and only the last chunk of an entry short.
FinishedIsWellFormed == pc = "done" => WellFormed(Toc)

\* Whatever the reader does, an Ok(0) it takes back included, all of it but the
\* sizes of chunks inside an entry holds of an archive finish reported as
\* written: every chunk is in its place and belongs to one entry, and entries
\* declare the sums of their chunks.
SoundForAnyReader ==
    pc = "done" =>
        /\ ChunkTableOk(Toc)
        /\ EntriesInTable(Toc)
        /\ EntriesDisjoint(Toc)
        /\ EntrySizesMatch(Toc)
        /\ NoOrphanChunk(Toc)

\* Chunk i of the table, where the table says it is, and nothing else: the
\* whole stored chunk, bound to the index a reader will decrypt it with.
StoredAt(i) ==
    {x \in disk : /\ x.kind = "chunk"
                  /\ x.at = chunks[i].offset
                  /\ x.len = chunks[i].stored_size
                  /\ x.index = i - 1}

BodyComplete ==
    /\ \A i \in DOMAIN chunks : StoredAt(i) # {}
    /\ \A x \in disk : x.kind = "chunk" => \E i \in DOMAIN chunks : x \in StoredAt(i)
    /\ {x.kind : x \in disk} \subseteq {"chunk", "toc"}

\* At every moment, a crash or an error included, a destination whose header
\* has begun to say "RPAK" holds a whole table of contents and every chunk it
\* names where it names it: the header commits the archive.
HeaderCommitsBody ==
    hdr > 0 =>
        /\ BodyComplete
        /\ \E x \in disk : x.kind = "toc" /\ x.at = toc_offset

\* Byte b a reader delivered for entry i is where a range read looks for it:
\* in the entry's chunk (b-1) \div chunk_size, at (b-1) % chunk_size.  No byte
\* of a short read is lost, repeated or moved to another entry.
EveryByteFound ==
    pc = "done" =>
        \A i \in DOMAIN entries :
            /\ entries[i].original_size = served[i]
            /\ \A b \in 1 .. served[i] :
                  \E x \in StoredAt(entries[i].first_chunk + 1
                                      + ((b - 1) \div options.chunk_size)) :
                     /\ x.entry = i
                     /\ x.bytes[((b - 1) % options.chunk_size) + 1] = b

\* No two entries of a finished archive answer to the same lookup: paths are
\* unique, and in production, where only hashes are kept, so are the hashes.
LookupsUnique ==
    pc = "done" =>
        \A i, j \in DOMAIN entries :
            i # j => /\ entries[i].path # entries[j].path
                     /\ strips_paths =>
                           PathHash[entries[i].path] # PathHash[entries[j].path]

Resting == {"new", "idle", "done", "dead"}

\* A call to add_reader or finish returns: padding, short reads and the
\* header's twelve writes come to an end.
CallReturns == (pc \notin Resting) ~> (pc \in Resting)
=============================================================================
