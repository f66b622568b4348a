----------------------------- MODULE WriterStack ----------------------------
(***************************************************************************)
(* The packer on top of a real writer.  rasen_pack_streams gives it a      *)
(* CallbackReader and a CallbackWriter, rasen_pack_file a File, pack_dir a *)
(* BufWriter<File>; capacity is that buffer's size, 0 where there is none. *)
(* Packer.tla sees a write as done when write_all returns; here it is in   *)
(* the buffer or on the device, where the device's cursor is, or both      *)
(* partly, and a failure says only that something did not get there.       *)
(***************************************************************************)
EXTENDS Packer

CONSTANTS
    Capacities,   \* the buffer sizes to look at
    Limits        \* the ArchiveLimits of a reader that opens the device

ASSUME WriterStackAssumption == Capacities \subseteq Nat

VARIABLES
    capacity,   \* of the BufWriter; 0: the device is written directly
    buf,        \* the writes the BufWriter holds back
    dev,        \* the pieces on the device
    dpos,       \* the device's cursor
    callback,   \* the device is a CallbackWriter, which counts in 64 bits
    position,   \* CallbackWriter.position, or where the next write belongs
    at_header,  \* finish has gone back to the start
    broken      \* a write or a seek has failed

devVars == <<capacity, buf, dev, dpos, callback, position, broken>>
stackVars == <<vars, devVars, at_header>>

Item(kind, n, len) == [kind |-> kind, n |-> n, len |-> len]
Zeros(len) == Item("zeros", 0, len)

FIELD_BYTES == <<4, 2, 2, 4, 4, 4, 4, 4, 8, 8, 8, 8>>
Field(k) == Item("field", k, FIELD_BYTES[k])
FieldAt(k) == SumFunction([j \in 1 .. k - 1 |-> FIELD_BYTES[j]])

Total(items) == SumFunction([i \in DOMAIN items |-> items[i].len])

Piece(at, item, whole) == [at |-> at, item |-> item, whole |-> whole]

\* What lies on the device when the items are written at its cursor.
Placed(items) ==
    {Piece(dpos + Total(SubSeq(items, 1, i - 1)), items[i], TRUE) : i \in DOMAIN items}

SInit ==
    /\ Init
    /\ capacity \in Capacities
    /\ callback \in BOOLEAN /\ (callback => capacity = 0)
    /\ buf = << >>
    /\ dev = {}
    /\ dpos = 0
    /\ position = 0
    /\ at_header = FALSE
    /\ broken = FALSE

-----------------------------------------------------------------------------
(* write_all and seek *)

Spare == capacity - Total(buf)
Flushes(item) == item.len > Spare            \* the buffer goes out first
Bypasses(item) == item.len >= capacity       \* the item is not buffered
Outgoing(item) ==
    (IF Flushes(item) THEN buf ELSE << >>)
        \o (IF Bypasses(item) THEN <<item>> ELSE << >>)

Write(item) ==
    LET kept == IF Flushes(item) THEN << >> ELSE buf IN
    /\ callback => position + item.len <= U64_MAX
    /\ dev' = dev \cup Placed(Outgoing(item))
    /\ dpos' = dpos + Total(Outgoing(item))
    /\ buf' = IF Bypasses(item) THEN kept ELSE Append(kept, item)
    /\ position' = position + item.len
    /\ UNCHANGED <<capacity, callback, broken>>

\* The device takes the first n of the items and perhaps part of the next.
\* What it did not take stays in the buffer if it was there.
Breaks(items, n) ==
    /\ \/ dev' = dev \cup Placed(SubSeq(items, 1, n))
       \/ /\ n < Len(items)
          /\ dev' = dev \cup Placed(SubSeq(items, 1, n)) \cup
                {Piece(dpos + Total(SubSeq(items, 1, n)), items[n + 1], FALSE)}
    /\ dpos' = dpos + Total(SubSeq(items, 1, n))
    /\ buf' = SubSeq(buf, n + 1, Len(buf))
    /\ broken' = TRUE
    /\ UNCHANGED <<capacity, callback, position>>

\* The callback took all the bytes, and then position does not hold the sum.
PositionOverflows(item) ==
    /\ callback /\ capacity = 0
    /\ position + item.len > U64_MAX
    /\ dev' = dev \cup {Piece(dpos, item, TRUE)}
    /\ dpos' = dpos + item.len
    /\ broken' = TRUE
    /\ UNCHANGED <<capacity, callback, buf, position>>

WriteFails(item) ==
    \/ \E n \in 0 .. Len(Outgoing(item)) - 1 : Breaks(Outgoing(item), n)
    \/ PositionOverflows(item)

\* A BufWriter flushes before it seeks.
Seek(to) ==
    /\ dev' = dev \cup Placed(buf)
    /\ buf' = << >>
    /\ dpos' = to
    /\ position' = to
    /\ UNCHANGED <<capacity, callback, broken>>

SeekFails == \E n \in 0 .. Len(buf) : Breaks(buf, n)

-----------------------------------------------------------------------------
(* The calls the packer makes *)

SNew == New /\ Write(Zeros(HEADER_SIZE)) /\ UNCHANGED at_header

\* New fails before it writes, in a seek or a write, or after the write.
SNewFails ==
    /\ NewFails
    /\ IF ~ValidOptions(options) \/ disk # {} THEN UNCHANGED devVars
       ELSE IF pos' = HEADER_SIZE THEN Write(Zeros(HEADER_SIZE))
       ELSE SeekFails \/ WriteFails(Zeros(HEADER_SIZE))
    /\ UNCHANGED at_header

\* CallbackReader.read: the callback's status, and the count it left.
CallbackRead(status, amount) ==
    /\ IF status # 0 \/ amount > options.chunk_size - Len(raw) THEN ReadFails
       ELSE IF amount = 0 THEN ReadEof \/ EndOfEntry
       ELSE ReadSome(amount)
    /\ UNCHANGED <<devVars, at_header>>

\* Steps of the packer that do not reach the writer.
NoWrite ==
    /\ \/ \E p \in RawPaths : AddReader(p) \/ AddReaderRefused(p)
       \/ Align \/ Finish \/ Abandon
    /\ UNCHANGED <<devVars, at_header>>

SPadWrite == PadWrite /\ Write(Zeros(pos' - pos)) /\ UNCHANGED at_header

SAlignFails ==
    /\ AlignFails
    /\ pos' = pos
    /\ IF pc = "pad" THEN WriteFails(Zeros(IF remaining < ZEROES THEN remaining ELSE ZEROES))
                     ELSE UNCHANGED devVars
    /\ UNCHANGED at_header

ChunkItem(compressed_len) ==
    Item("chunk", Len(chunks) + 1, StoredLen(PayloadLen(compressed_len)))

SStore(compressed_len) ==
    /\ Store(compressed_len) \/ StoreTooLarge(compressed_len)
    /\ Write(ChunkItem(compressed_len))
    /\ UNCHANGED at_header

SStoreFails(compressed_len) ==
    /\ StoreFails(compressed_len)
    /\ pos' = pos
    /\ WriteFails(ChunkItem(compressed_len))
    /\ UNCHANGED at_header

SWriteToc(toc_size) ==
    /\ WriteToc(toc_size)
    /\ Write(Item("toc", 0, toc_size))
    /\ UNCHANGED at_header

\* Faulty: the file under the buffer is moved, not the writer.
SeekStart_Unflushed ==
    /\ pc = "header"
    /\ ~at_header
    /\ dpos' = 0
    /\ at_header' = TRUE
    /\ UNCHANGED <<vars, capacity, callback, buf, dev, position, broken>>

\* seek(SeekFrom::Start(0)), which pushes the body out of the buffer.
SeekStart ==
    /\ pc = "header"
    /\ ~at_header
    /\ Seek(0)
    /\ at_header' = TRUE
    /\ UNCHANGED vars

SWriteHeaderField ==
    /\ at_header
    /\ WriteHeaderField
    /\ Write(Field(hdr + 1))
    /\ UNCHANGED at_header

\* Faulty: finish leaves the cursor after the header.
SSeekEnd_Skipped == SeekEnd /\ UNCHANGED <<devVars, at_header>>

\* seek(SeekFrom::Start(archive_len)), which pushes the header out.
SSeekEnd == SeekEnd /\ Seek(offset) /\ UNCHANGED at_header

SFinishFails ==
    /\ FinishFails
    /\ pos' = pos
    /\ \/ pc = "finalign" /\ UNCHANGED devVars
       \/ pc = "finpad"
            /\ WriteFails(Zeros(IF remaining < ZEROES THEN remaining ELSE ZEROES))
       \/ pc = "toc" /\ disk' = disk /\ UNCHANGED devVars
       \/ pc = "toc" /\ disk' # disk
            /\ \E toc_size \in TocSizes : WriteFails(Item("toc", 0, toc_size))
       \/ pc = "header" /\ at_header /\ hdr < HEADER_FIELDS /\ WriteFails(Field(hdr + 1))
       \/ pc = "header" /\ (~at_header \/ hdr = HEADER_FIELDS) /\ SeekFails
    /\ UNCHANGED at_header

\* The BufWriter is dropped: it tries once more to write what it holds.
DropWriter ==
    /\ pc \in {"done", "dead"}
    /\ buf # << >>
    /\ dev' = dev \cup Placed(buf)
    /\ dpos' = dpos + Total(buf)
    /\ buf' = << >>
    /\ UNCHANGED <<vars, capacity, callback, position, broken, at_header>>

SNext ==
    \/ SNew \/ SNewFails \/ NoWrite
    \/ \E status \in {0, 1}, amount \in 0 .. MAX_CHUNK_SIZE + 1 : CallbackRead(status, amount)
    \/ SPadWrite \/ SAlignFails
    \/ \E compressed_len \in 1 .. Len(raw) + 1 :
          SStore(compressed_len) \/ SStoreFails(compressed_len)
    \/ \E toc_size \in TocSizes : SWriteToc(toc_size)
    \/ SeekStart \/ SWriteHeaderField \/ SSeekEnd \/ SFinishFails
    \/ DropWriter
    \/ Terminated /\ UNCHANGED <<devVars, at_header>>

SSpec == SInit /\ [][SNext]_stackVars

-----------------------------------------------------------------------------
(* Properties *)

Whole(at, item) == Piece(at, item, TRUE) \in dev

BodyOnDevice ==
    /\ \A i \in DOMAIN chunks :
          Whole(chunks[i].offset, Item("chunk", i, chunks[i].stored_size))
    /\ \E n \in TocSizes : Whole(toc_offset, Item("toc", 0, n))

\* As soon as any byte of a header is on the device, in its place or not,
\* the whole body is there too: whatever the buffer holds back, and whatever
\* a BufWriter writes when it is dropped after a failure.
DeviceCommits ==
    (\E x \in dev : x.item.kind = "field") => BodyOnDevice

\* When finish returns Ok everything is on the device, in its place, and the
\* buffer is empty, although nobody has called flush: README's example of
\* streaming packing does not.
FinishedOnDevice ==
    pc = "done" =>
        /\ buf = << >>
        /\ BodyOnDevice
        /\ \A k \in 1 .. HEADER_FIELDS : Whole(FieldAt(k), Field(k))
        /\ dpos = offset

\* A header of which only some fields are on the device; the others are zero.
\* A field cut short may read as if it were whole, except the first and the
\* last: "RPAK" and a hash have no zero bytes to spare.
HasField(k) == \E x \in dev : x.at = FieldAt(k) /\ x.item = Field(k)
Zeroed(k, value) == IF HasField(k) THEN value ELSE 0
DeviceHeader ==
    [magic |-> Whole(0, Field(1)),
     version |-> Zeroed(2, 1),
     flags |-> IF HasField(3)
               THEN {"lz4", "chunked", "xxh3"} \cup {IF aead THEN "aead" ELSE "xor"}
                      \cup (IF strips_paths THEN {"stripped"} ELSE {})
               ELSE {},
     header_size |-> Zeroed(4, HEADER_SIZE),
     alignment |-> Zeroed(5, options.alignment),
     chunk_size |-> Zeroed(6, options.chunk_size),
     entry_count |-> Zeroed(7, Len(entries)),
     chunk_count |-> Zeroed(8, Len(chunks)),
     toc_offset |-> Zeroed(9, toc_offset),
     toc_size |-> Zeroed(10, offset - toc_offset),
     toc_raw_size |-> Zeroed(11, EncodedTocSize)]

\* Faulty: the reader does not compare the hash.
TocHashMatches_Unasked == TRUE

\* The reader compares the table of contents with the header's toc_hash.
TocHashMatches == Whole(FieldAt(12), Field(12))

\* The reader of OpenArchive.tla, looking at the device, however long it is.
Opening == INSTANCE OpenArchive WITH
    header <- DeviceHeader, limits <- Limits, FileLen <- U64_MAX,
    Headers <- {}, CallerLimits <- {Limits}, HARD <- Limits,
    HARD_MAX_IDENTIFIER_BUCKET_ENTRIES <- 1, Hashes <- {}, Sizes <- {},
    Parts <- {}, PartLen <- << >>, HasNul <- {}, MAX_PATH_LEN <- 0,
    MAX_PATH_SEGMENTS <- 0, RawPaths <- {}, StoredPaths <- {},
    cursor <- 0, total_path_bytes <- 0, chunk_count <- 0, index <- << >>,
    start <- 1, err <- "none"

DeviceOpens ==
    /\ Opening!HeaderValid(DeviceHeader)
    /\ Opening!WithinLimits(DeviceHeader)
    /\ Opening!TocPlaced(DeviceHeader)
    /\ TocHashMatches

\* Twelve writes make a header, and any of them may be the last that gets
\* through: a reader that opens such a file refuses it unless the header is
\* complete, and then it holds everything finish was going to report.
TornHeaderRefused ==
    DeviceOpens => /\ \A k \in 1 .. HEADER_FIELDS : HasField(k)
                   /\ BodyOnDevice

\* Once CallbackWriter or a File has failed a write or a seek, be it because
\* the callback failed or because position cannot hold what it took, nothing
\* is written or moved again: what came next would land at a place nobody
\* knows.
NothingAfterCallbackFailure ==
    [][broken /\ capacity = 0 => UNCHANGED <<dev, dpos, position>>]_stackVars
=============================================================================
