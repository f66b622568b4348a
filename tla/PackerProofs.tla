---------------------------- MODULE PackerProofs ----------------------------
(***************************************************************************)
(* The packer, for every path set, option set, reader and writer.  First   *)
(* its state stays typed.  IInv: a header is only written over a complete  *)
(* body (HeaderCommitsBody).  ContentInv, on top of it: the sizes add up   *)
(* (SoundForAnyReader) and each chunk holds the bytes of its place in the  *)
(* stream, so that a finished archive is well-formed                       *)
(* (FinishedIsWellFormed), every byte is found (EveryByteFound) and no     *)
(* lookup is ambiguous (LookupsUnique).                                    *)
(*                                                                         *)
(* Then the packer on its writer, WriterStack: StackInv, on top of IInv,   *)
(* says where every write is, in the buffer or on the device, and that the *)
(* header's fields leave in their order and after the body.  From it:      *)
(* DeviceCommits, FinishedOnDevice, TornHeaderRefused and                  *)
(* NothingAfterCallbackFailure.                                            *)
(***************************************************************************)
EXTENDS WriterStack, SumTheorems, SequenceTheorems, TLAPS

Adding == pc \in {"read", "align", "pad", "store"}
Padding == pc \in {"pad", "finpad"}

\* What typing rests on: a packer exists only for valid options, its call
\* works for a normalized path and at the end of the chunk table, and padding
\* starts only when the aligned offset is a u64.
CallInv ==
    /\ pc \notin {"new", "dead"} => ValidOptions(options)
    /\ Adding => cur.path \in Paths /\ cur.first_chunk <= Len(chunks)
    /\ Padding => offset + (options.alignment - 1) <= U64_MAX /\ remaining # 0
    /\ pc \in {"align", "pad", "store"} => raw # << >>

Typing == TypeOK /\ CallInv

-----------------------------------------------------------------------------
(* Arithmetic of align_up.                                                 *)

LEMMA Division ==
    ASSUME NEW v \in Int, NEW m \in Int, m > 0
    PROVE  v = m * (v \div m) + (v % m) /\ v % m \in 0 .. (m - 1) /\ v \div m \in Int
  BY Z3

LEMMA MultipleMod ==
    ASSUME NEW q \in Int, NEW m \in Int, m > 0
    PROVE  (m * q) % m = 0
  BY Z3

\* align_up returns the next multiple of the alignment.
LEMMA AlignedUpFacts ==
    ASSUME NEW v \in Nat, NEW m \in Nat, m > 0
    PROVE  /\ AlignedUp(v, m) \in Nat
           /\ v <= AlignedUp(v, m)
           /\ AlignedUp(v, m) <= v + (m - 1)
           /\ AlignedUp(v, m) % m = 0
<1> DEFINE w == v + (m - 1)
<1>1. w \in Int /\ m \in Int
  OBVIOUS
<1>2. w = m * (w \div m) + (w % m) /\ w % m \in 0 .. (m - 1) /\ w \div m \in Int
  BY <1>1, Division
<1>3. (m * (w \div m)) % m = 0
  BY <1>2, MultipleMod
<1>4. w - (w % m) = m * (w \div m)
  BY <1>1, <1>2
<1>5. AlignedUp(v, m) = w - (w % m)
  BY DEF AlignedUp
<1>6. w % m \in Int /\ 0 <= w % m /\ w % m <= m - 1
  BY <1>1, <1>2
<1> HIDE DEF w
<1>7. AlignedUp(v, m) % m = 0
  BY <1>3, <1>4, <1>5
<1>8. v <= w - (w % m) /\ w - (w % m) <= v + (m - 1) /\ w - (w % m) \in Nat
  BY <1>6 DEF w
<1> QED
  BY <1>5, <1>7, <1>8

-----------------------------------------------------------------------------
(* Typing *)

LEMMA ConstantTypes ==
    /\ U64_MAX \in Nat /\ U32_MAX \in Nat /\ ZEROES \in Nat \ {0}
    /\ MAX_CHUNK_SIZE \in Nat /\ MAX_ALIGNMENT \in Nat /\ MaxStreamBytes \in Nat
    /\ HEADER_SIZE \in Nat /\ HEADER_SIZE <= U64_MAX
    /\ EofIsFinal \in BOOLEAN
    /\ \A n \in TocLens : n \in Nat \ {0}
    /\ \A p \in RawPaths : Normalize[p] \in Paths \cup {Rejected}
    /\ \A o \in OptionSet : o.chunk_size \in Nat /\ o.alignment \in Nat
  BY PackerAssumption DEF HEADER_SIZE

LEMMA OptionTypes ==
    ASSUME TypeOK
    PROVE  /\ options.chunk_size \in Nat /\ options.alignment \in Nat
           /\ ValidOptions(options) =>
                 options.chunk_size >= 1 /\ options.alignment >= 1
<1>1. options \in OptionSet
  BY DEF TypeOK
<1>2. options.chunk_size \in Nat /\ options.alignment \in Nat
  BY <1>1, ConstantTypes
<1>3. ASSUME ValidOptions(options)
      PROVE  options.chunk_size >= 1 /\ options.alignment >= 1
  <2>1. /\ options.chunk_size \in 1 .. MAX_CHUNK_SIZE
        /\ options.alignment \in 1 .. MAX_ALIGNMENT
    BY <1>3 DEF ValidOptions
  <2> QED
    BY <2>1, ConstantTypes
<1> QED
  BY <1>2, <1>3

\* What align computes.
LEMMA AlignedFacts ==
    ASSUME TypeOK, ValidOptions(options)
    PROVE  /\ Aligned \in Nat /\ offset <= Aligned
           /\ Aligned <= offset + (options.alignment - 1)
           /\ Aligned % options.alignment = 0
<1>1. offset \in Nat /\ options.alignment \in Nat /\ options.alignment > 0
  BY OptionTypes, ConstantTypes DEF TypeOK
<1> QED
  BY <1>1, AlignedUpFacts DEF Aligned

\* The payload of a stored chunk, and what the writer is given for it.
LEMMA StoredFacts ==
    ASSUME TypeOK, raw # << >>, NEW n \in 1 .. (Len(raw) + 1)
    PROVE  /\ Len(raw) \in Nat \ {0}
           /\ PayloadLen(n) \in 1 .. Len(raw)
           /\ KeepCompressed(n) \in BOOLEAN
           /\ KeepCompressed(n) <=> PayloadLen(n) < Len(raw)
           /\ StoredLen(PayloadLen(n)) \in Nat \ {0}
           /\ ChunkRecord(n) \in Chunk
<1>1. Len(raw) \in Nat \ {0}
  BY DEF TypeOK
<1>2. /\ PayloadLen(n) \in 1 .. Len(raw)
      /\ KeepCompressed(n) \in BOOLEAN
      /\ KeepCompressed(n) <=> PayloadLen(n) < Len(raw)
  BY <1>1 DEF PayloadLen, KeepCompressed
<1>3. StoredLen(PayloadLen(n)) \in Nat \ {0}
  BY <1>1, <1>2 DEF StoredLen, AEAD_OVERHEAD
<1>4. offset \in Nat
  BY ConstantTypes DEF TypeOK
<1>5. ChunkRecord(n) \in Chunk
  BY <1>1, <1>2, <1>3, <1>4 DEF ChunkRecord, Chunk
<1> QED
  BY <1>1, <1>2, <1>3, <1>5

LEMMA TornTypes ==
    ASSUME NEW n \in Nat, n # 0
    PROVE  \A k \in TornLengths(n) : k \in Nat
  BY DEF TornLengths

LEMMA NoCallType == NoCall \in Call
  BY DEF NoCall, Call

\* A failed add_reader leaves a typed, idle packer.
LEMMA AddFailsTyping ==
    ASSUME Typing, AddFails, pc \notin {"new", "dead"},
           UNCHANGED <<options, seen_hashes, hdr>>,
           stream' \in [delivered : Nat, ended : BOOLEAN],
           entries' \in Seq(TocEntry), chunks' \in Seq(Chunk),
           offset' \in 0 .. U64_MAX, served' \in Seq(Nat),
           disk' \subseteq Extents, pos' \in Nat
    PROVE  Typing'
<1>1. raw' = << >> /\ << >> \in Seq(Nat) /\ Len(<< >>) = 0
  BY DEF AddFails
<1>2. TypeOK'
  <2>1. /\ TypeOK /\ options' = options /\ seen_hashes' = seen_hashes
        /\ hdr' = hdr
    BY DEF Typing
  <2>2. /\ pc' = "idle" /\ failed' = TRUE /\ cur' = NoCall
        /\ remaining' = 0 /\ toc_offset' = toc_offset
    BY DEF AddFails
  <2>3. options.chunk_size \in Nat
    BY <2>1, OptionTypes DEF TypeOK
  <2> QED
    BY <1>1, <2>1, <2>2, <2>3, NoCallType DEF TypeOK, PCs
<1>3. CallInv'
  BY DEF AddFails, Typing, CallInv, Adding, Padding
<1> QED
  BY <1>2, <1>3 DEF Typing

\* Every step of the packer and of its environment preserves the typing.
LEMMA TypingStep == Typing /\ [Next]_vars => Typing'
<1> SUFFICES ASSUME Typing, [Next]_vars PROVE Typing'
  OBVIOUS
<1> USE DEF structVars, callVars, readerVars, writerVars
<1>1. CASE New
  BY <1>1, ConstantTypes DEF New, Typing, TypeOK, CallInv, Adding, Padding, PCs
<1>2. CASE NewFails
  <2>1. pos' \in Nat
    <3>1. pos' = pos \/ pos' \in TornLengths(HEADER_SIZE) \cup {HEADER_SIZE}
      BY <1>2 DEF NewFails
    <3> QED
      BY <3>1 DEF TornLengths, HEADER_SIZE, Typing, TypeOK
  <2> QED
    BY <1>2, <2>1 DEF NewFails, Typing, TypeOK, CallInv, Adding, Padding, PCs
<1>3. ASSUME NEW p \in RawPaths, AddReader(p) PROVE Typing'
  <2>1. Normalize[p] \in Paths
    BY <1>3, ConstantTypes DEF AddReader, PathRefused
  <2>2. /\ cur' \in Call /\ cur'.path \in Paths
        /\ cur'.first_chunk = Len(chunks) /\ Len(chunks) \in Nat
    <3>1. Len(chunks) \in Nat
      BY DEF Typing, TypeOK
    <3>2. cur' = [path |-> Normalize[p], first_chunk |-> Len(chunks),
                  original_total |-> 0, stored_total |-> 0]
      BY <1>3 DEF AddReader, NoCall
    <3> QED
      BY <2>1, <3>1, <3>2 DEF Call
  <2>3. seen_hashes' \subseteq {PathHash[q] : q \in Paths}
    BY <1>3, <2>1 DEF AddReader, Typing, TypeOK
  <2>4. TypeOK'
    BY <1>3, <2>2, <2>3 DEF AddReader, Typing, TypeOK, PCs, Unread
  <2>5. CallInv'
    BY <1>3, <2>2 DEF AddReader, Typing, CallInv, Adding, Padding
  <2> QED
    BY <2>4, <2>5 DEF Typing
<1>4. ASSUME NEW p \in RawPaths, AddReaderRefused(p) PROVE Typing'
  BY <1>4, AddFailsTyping DEF AddReaderRefused, Typing, TypeOK
<1>5. ASSUME NEW n \in 1 .. MAX_CHUNK_SIZE, ReadSome(n) PROVE Typing'
  <2>1. /\ n \in Nat \ {0} /\ n <= options.chunk_size - Len(raw)
        /\ Len(raw) \in Nat /\ raw \in Seq(Nat) /\ stream.delivered \in Nat
        /\ options.chunk_size \in Nat
    <3>1. TypeOK /\ n \in 1 .. (options.chunk_size - Len(raw))
      BY <1>5 DEF ReadSome, Typing
    <3>2. /\ Len(raw) \in Nat /\ raw \in Seq(Nat)
          /\ stream \in [delivered : Nat, ended : BOOLEAN]
      BY <3>1 DEF TypeOK
    <3>3. options.chunk_size \in Nat
      BY <3>1, OptionTypes
    <3> QED
      BY <3>1, <3>2, <3>3
  <2>2. [i \in 1 .. n |-> stream.delivered + i] \in Seq(Nat)
    BY <2>1
  <2>3. Len([i \in 1 .. n |-> stream.delivered + i]) = n
    BY <2>1
  <2>4. raw' \in Seq(Nat) /\ Len(raw') = Len(raw) + n /\ raw' # << >>
    BY <1>5, <2>1, <2>2, <2>3 DEF ReadSome
  <2>5. stream' \in [delivered : Nat, ended : BOOLEAN]
    <3>1. stream \in [delivered : Nat, ended : BOOLEAN] /\ stream.delivered + n \in Nat
      BY <2>1 DEF Typing, TypeOK
    <3>2. stream' = [stream EXCEPT !.delivered = stream.delivered + n]
      BY <1>5 DEF ReadSome
    <3> QED
      BY <3>1, <3>2
  <2>6. Len(raw') <= options.chunk_size
    BY <2>1, <2>4
  <2>7. TypeOK'
    BY <1>5, <2>4, <2>5, <2>6 DEF ReadSome, Typing, TypeOK, PCs
  <2>8. CallInv'
    BY <1>5, <2>4 DEF ReadSome, Typing, CallInv, Adding, Padding
  <2> QED
    BY <2>7, <2>8 DEF Typing
<1>6. CASE ReadEof
  <2>1. stream' \in [delivered : Nat, ended : BOOLEAN]
    BY <1>6 DEF ReadEof, Typing, TypeOK
  <2>2. TypeOK'
    BY <1>6, <2>1 DEF ReadEof, Typing, TypeOK, PCs
  <2>3. CallInv'
    BY <1>6 DEF ReadEof, Typing, CallInv, Adding, Padding
  <2> QED
    BY <2>2, <2>3 DEF Typing
<1>7. CASE EndOfEntry
  <2>1. /\ cur.path \in Paths /\ cur.first_chunk \in Nat
        /\ cur.original_total \in Nat /\ cur.stored_total \in Nat
        /\ Len(chunks) - cur.first_chunk \in Nat
        /\ stream.delivered \in Nat /\ Unread \in [delivered : Nat, ended : BOOLEAN]
    BY <1>7 DEF EndOfEntry, Typing, TypeOK, CallInv, Adding, Call, Unread
  <2>2. entries' \in Seq(TocEntry)
    BY <1>7, <2>1 DEF EndOfEntry, Typing, TypeOK, TocEntry
  <2>3. served' \in Seq(Nat)
    BY <1>7, <2>1 DEF EndOfEntry, Typing, TypeOK
  <2>4. CASE AddFails
    BY <1>7, <2>1, <2>2, <2>3, <2>4, AddFailsTyping DEF EndOfEntry, Typing, TypeOK
  <2>5. CASE ~AddFails
    <3>1. pc' = "idle" /\ cur' = NoCall /\ UNCHANGED <<failed, raw, remaining, toc_offset>>
      BY <1>7, <2>5 DEF EndOfEntry
    <3>2. TypeOK'
      BY <1>7, <2>1, <2>2, <2>3, <3>1, NoCallType DEF EndOfEntry, Typing, TypeOK, PCs
    <3>3. CallInv'
      BY <1>7, <3>1 DEF EndOfEntry, Typing, CallInv, Adding, Padding
    <3> QED
      BY <3>2, <3>3 DEF Typing
  <2> QED
    BY <2>4, <2>5
<1>8. CASE ReadFails
  BY <1>8, AddFailsTyping DEF ReadFails, Typing, TypeOK
<1>9. CASE Align
  <2>1. ValidOptions(options)
    BY <1>9 DEF Align, Typing, CallInv
  <2>2. Aligned \in Nat /\ offset <= Aligned /\ offset \in Nat
    BY <2>1, AlignedFacts, ConstantTypes DEF Typing, TypeOK
  <2>3. remaining' \in Nat
    BY <1>9, <2>2 DEF Align
  <2>4. /\ pc = "align" => pc' \in {"store", "pad"}
        /\ pc = "finalign" => pc' \in {"toc", "finpad"}
        /\ pc \in {"align", "finalign"}
        /\ pc' \in {"pad", "finpad"} => remaining' # 0
    <3>1. /\ pc \in {"align", "finalign"} /\ remaining' = Aligned - offset
          /\ pc' = IF Aligned = offset THEN AfterPad
                   ELSE IF pc = "align" THEN "pad" ELSE "finpad"
      BY <1>9 DEF Align
    <3>2. CASE Aligned = offset
      BY <3>1, <3>2 DEF AfterPad
    <3>3. CASE Aligned # offset
      <4>1. remaining' # 0
        BY <2>2, <3>1, <3>3
      <4> QED
        BY <3>1, <3>3, <4>1
    <3> QED
      BY <3>2, <3>3
  <2>5. TypeOK'
    BY <1>9, <2>3, <2>4 DEF Align, Typing, TypeOK, PCs
  <2>6. CallInv'
    BY <1>9, <2>4 DEF Align, Typing, CallInv, Adding, Padding
  <2> QED
    BY <2>5, <2>6 DEF Typing
<1>10. CASE PadWrite
  <2> DEFINE amount == IF remaining < ZEROES THEN remaining ELSE ZEROES
  <2>1. amount \in Nat /\ remaining - amount \in Nat
    BY ConstantTypes DEF Typing, TypeOK
  <2>2. pos' = pos + amount /\ remaining' = remaining - amount
    BY <1>10 DEF PadWrite
  <2>3. ValidOptions(options) /\ offset + (options.alignment - 1) <= U64_MAX
    BY <1>10 DEF PadWrite, Typing, CallInv, Padding
  <2>4. Aligned \in 0 .. U64_MAX
    BY <2>3, AlignedFacts, OptionTypes, ConstantTypes DEF Typing, TypeOK
  <2>5. /\ offset' \in {offset, Aligned}
        /\ \/ UNCHANGED <<pc, offset>> /\ remaining' # 0
           \/ pc = "pad" /\ pc' = "store"
           \/ pc = "finpad" /\ pc' = "toc"
        /\ pc \in {"pad", "finpad"}
    BY <1>10 DEF PadWrite, AfterPad
  <2>6. TypeOK'
    <3>1. pos' \in Nat /\ remaining' \in Nat
      BY <2>1, <2>2 DEF Typing, TypeOK
    <3>2. offset' \in 0 .. U64_MAX /\ pc' \in PCs
      BY <2>4, <2>5 DEF Typing, TypeOK, PCs
    <3> HIDE DEF amount
    <3> QED
      BY <1>10, <3>1, <3>2 DEF PadWrite, Typing, TypeOK
  <2>7. CallInv'
    BY <1>10, <2>5 DEF PadWrite, Typing, CallInv, Adding, Padding
  <2> QED
    BY <2>6, <2>7 DEF Typing
<1>11. CASE AlignFails
  <2>1. pos' \in Nat
    <3>1. CASE pc = "align"
      BY <1>11, <3>1 DEF AlignFails, Typing, TypeOK
    <3>2. CASE pc = "pad"
      <4>1. PICK k \in TornLengths(remaining) : pos' = pos + k
        BY <1>11, <3>2 DEF AlignFails
      <4>2. k \in Nat
        BY <3>2, TornTypes DEF TornLengths, Typing, TypeOK, CallInv, Padding
      <4> QED
        BY <4>1, <4>2 DEF Typing, TypeOK
    <3> QED
      BY <1>11, <3>1, <3>2 DEF AlignFails
  <2> QED
    BY <1>11, <2>1, AddFailsTyping DEF AlignFails, Typing, TypeOK
<1>12. ASSUME NEW n \in 1 .. (Len(raw) + 1), pc = "store",
              Store(n) \/ StoreTooLarge(n) \/ StoreFails(n)
       PROVE  Typing'
  <2> DEFINE size == StoredLen(PayloadLen(n))
  <2>1. raw # << >> /\ TypeOK
    BY <1>12 DEF Typing, CallInv
  <2>2. size \in Nat \ {0} /\ ChunkRecord(n) \in Chunk /\ Len(raw) \in Nat
    BY <2>1, StoredFacts
  <2>3. /\ Len(chunks) \in Nat /\ Len(entries) \in Nat /\ pos \in Nat
        /\ offset \in Nat /\ U64_MAX \in Nat
        /\ cur \in Call /\ raw \in Seq(Nat)
    BY <2>1, ConstantTypes DEF TypeOK
  <2>4. \A k \in Nat : \A kind \in {"chunk", "torn"} :
           Extent(pos, k, kind, Len(chunks), Len(entries) + 1, raw) \in Extents
    BY <2>3 DEF Extent, Extents
  <2>5. StoreChunk(size) => disk' \subseteq Extents /\ pos' \in Nat /\ UNCHANGED hdr
    BY <2>1, <2>2, <2>3, <2>4 DEF StoreChunk, TypeOK
  <2>6. Append(chunks, ChunkRecord(n)) \in Seq(Chunk)
    BY <2>1, <2>2 DEF TypeOK
  <2> HIDE DEF size
  <2>7. CASE Store(n)
    <3>1. /\ pc = "store" /\ pc' = "read" /\ offset' = offset + size
          /\ offset + size <= U64_MAX
          /\ StoreChunk(size)
          /\ chunks' = Append(chunks, ChunkRecord(n))
          /\ cur' = [cur EXCEPT !.original_total = cur.original_total + Len(raw),
                                !.stored_total = cur.stored_total + size]
          /\ raw' = << >>
          /\ UNCHANGED <<options, entries, seen_hashes, failed, remaining,
                         toc_offset, stream, served>>
      BY <2>7 DEF Store, size
    <3>2. cur' \in Call /\ cur'.path = cur.path /\ cur'.first_chunk = cur.first_chunk
      <4>1. cur.original_total + Len(raw) \in Nat /\ cur.stored_total + size \in Nat
        BY <2>2, <2>3 DEF Call
      <4> QED
        BY <2>3, <3>1, <4>1 DEF Call
    <3>3. offset' \in 0 .. U64_MAX
      BY <2>2, <2>3, <3>1
    <3>4. << >> \in Seq(Nat) /\ Len(<< >>) = 0 /\ options.chunk_size \in Nat
      BY <2>1, OptionTypes
    <3>5. TypeOK'
      <4>1. /\ pc' \in PCs /\ chunks' \in Seq(Chunk)
            /\ disk' \subseteq Extents /\ pos' \in Nat /\ hdr' = hdr
        BY <2>5, <2>6, <3>1 DEF PCs
      <4>2. raw' \in Seq(Nat) /\ Len(raw') <= options'.chunk_size
        BY <3>1, <3>4
      <4> QED
        BY <2>1, <3>1, <3>2, <3>3, <4>1, <4>2 DEF TypeOK
    <3>6. Len(chunks') = Len(chunks) + 1
      BY <2>1, <3>1 DEF TypeOK
    <3>7. CallInv'
      BY <2>3, <3>1, <3>2, <3>6 DEF Typing, CallInv, Adding, Padding, Call
    <3> QED
      BY <3>5, <3>7 DEF Typing
  <2>8. CASE StoreTooLarge(n)
    <3>1. /\ StoreChunk(size) /\ AddFails
          /\ offset' = IF offset + size <= U64_MAX THEN offset + size ELSE offset
          /\ chunks' \in {chunks, Append(chunks, ChunkRecord(n))}
          /\ UNCHANGED <<options, entries, seen_hashes, stream, served>>
      BY <2>8 DEF StoreTooLarge, size
    <3>2. offset' \in 0 .. U64_MAX
      BY <2>1, <2>2, <2>3, <3>1 DEF TypeOK
    <3> QED
      BY <1>12, <2>1, <2>5, <2>6, <3>1, <3>2, AddFailsTyping DEF TypeOK
  <2>9. CASE StoreFails(n)
    <3>1. PICK k \in TornLengths(size) :
             /\ pos' = pos + k
             /\ disk' = disk \cup {Extent(pos, k, "torn", Len(chunks),
                                          Len(entries) + 1, raw)}
      BY <2>9 DEF StoreFails, size
    <3>2. k \in Nat
      BY <2>2, TornTypes
    <3>3. pos' \in Nat /\ disk' \subseteq Extents
      BY <2>1, <2>3, <2>4, <3>1, <3>2 DEF TypeOK
    <3> QED
      BY <1>12, <2>1, <2>9, <3>3, AddFailsTyping DEF StoreFails, TypeOK
  <2> QED
    BY <1>12, <2>7, <2>8, <2>9
<1>13. ASSUME NEW toc_size \in TocSizes, WriteToc(toc_size) PROVE Typing'
  <2>1. toc_size \in Nat
    BY ConstantTypes DEF TocSizes, StoredLen, AEAD_OVERHEAD
  <2>2. Extent(pos, toc_size, "toc", 0, 0, << >>) \in Extents
    BY <2>1 DEF Extent, Extents, Typing, TypeOK
  <2>3. offset' \in 0 .. U64_MAX /\ pc' \in {"header", "dead"} /\ toc_offset' \in Nat
    BY <1>13, <2>1, ConstantTypes DEF WriteToc, Typing, TypeOK
  <2>4. disk' \subseteq Extents /\ pos' \in Nat
    BY <1>13, <2>1, <2>2 DEF WriteToc, Typing, TypeOK
  <2>5. TypeOK'
    BY <1>13, <2>3, <2>4 DEF WriteToc, Typing, TypeOK, PCs
  <2>6. CallInv'
    BY <1>13, <2>3 DEF WriteToc, Typing, CallInv, Adding, Padding
  <2> QED
    BY <2>5, <2>6 DEF Typing
<1>14. CASE WriteHeaderField
  BY <1>14 DEF WriteHeaderField, Typing, TypeOK, CallInv, Adding, Padding, PCs, HEADER_FIELDS
<1>15. CASE SeekEnd \/ Finish
  BY <1>15 DEF SeekEnd, Finish, Typing, TypeOK, CallInv, Adding, Padding, PCs
<1>16. CASE FinishFails
  <2>1. disk' \subseteq Extents /\ pos' \in Nat
    <3>1. CASE UNCHANGED <<disk, pos>>
      BY <3>1 DEF Typing, TypeOK
    <3>2. CASE /\ pc = "finpad" /\ UNCHANGED disk
               /\ \E k \in TornLengths(remaining) : pos' = pos + k
      <4>1. PICK k \in TornLengths(remaining) : pos' = pos + k
        BY <3>2
      <4>2. k \in Nat
        BY <3>2, TornTypes DEF TornLengths, Typing, TypeOK, CallInv, Padding
      <4> QED
        BY <3>2, <4>1, <4>2 DEF Typing, TypeOK
    <3>3. ASSUME NEW toc_size \in TocSizes, NEW k \in TornLengths(toc_size),
                 pos' = pos + k,
                 disk' = disk \cup {Extent(pos, k, "torn", 0, 0, << >>)}
          PROVE  disk' \subseteq Extents /\ pos' \in Nat
      <4>1. toc_size \in Nat \ {0}
        BY ConstantTypes DEF TocSizes, StoredLen, AEAD_OVERHEAD
      <4>2. k \in Nat
        BY <4>1, TornTypes
      <4>3. Extent(pos, k, "torn", 0, 0, << >>) \in Extents
        BY <4>2 DEF Extent, Extents, Typing, TypeOK
      <4> QED
        BY <3>3, <4>2, <4>3 DEF Typing, TypeOK
    <3> QED
      BY <1>16, <3>1, <3>2, <3>3 DEF FinishFails
  <2> QED
    BY <1>16, <2>1 DEF FinishFails, Typing, TypeOK, CallInv, Adding, Padding, PCs
<1>17. CASE Abandon
  BY <1>17 DEF Abandon, Typing, TypeOK, CallInv, Adding, Padding, PCs
<1>18. CASE Terminated \/ UNCHANGED vars
  BY <1>18 DEF Terminated, vars, Typing, TypeOK, CallInv, Adding, Padding
<1>19. ASSUME NEW n \in 1 .. (Len(raw) + 1),
              Store(n) \/ StoreTooLarge(n) \/ StoreFails(n)
       PROVE  pc = "store"
  BY <1>19 DEF Store, StoreTooLarge, StoreFails
<1> QED
  BY <1>1, <1>2, <1>3, <1>4, <1>5, <1>6, <1>7, <1>8, <1>9, <1>10, <1>11, <1>12,
     <1>13, <1>14, <1>15, <1>16, <1>17, <1>18, <1>19 DEF Next, CallStep

\* A packer starts typed.
LEMMA InitTyping == Init => Typing
<1> SUFFICES ASSUME Init PROVE Typing
  OBVIOUS
<1>1. disk \subseteq Extents
  <2>1. StaleBytes \in Extents
    BY DEF StaleBytes, Extent, Extents
  <2> QED
    BY <2>1 DEF Init
<1>2. options.chunk_size \in Nat /\ << >> \in Seq(Nat) /\ Len(<< >>) = 0
  BY ConstantTypes DEF Init
<1>3. TypeOK
  <2>1. entries \in Seq(TocEntry) /\ chunks \in Seq(Chunk) /\ served \in Seq(Nat)
    BY DEF Init
  <2>2. stream \in [delivered : Nat, ended : BOOLEAN]
    BY DEF Init, Unread
  <2>3. offset \in 0 .. U64_MAX /\ hdr \in 0 .. HEADER_FIELDS
    BY ConstantTypes DEF Init, HEADER_FIELDS
  <2>4. raw \in Seq(Nat) /\ Len(raw) <= options.chunk_size
    BY <1>2 DEF Init
  <2>5. /\ pc \in PCs /\ options \in OptionSet /\ failed \in BOOLEAN
        /\ seen_hashes \subseteq {PathHash[p] : p \in Paths}
        /\ remaining \in Nat /\ toc_offset \in Nat /\ pos \in Nat
    BY DEF Init, PCs
  <2>6. cur \in Call
    BY NoCallType DEF Init
  <2> QED
    BY <1>1, <2>1, <2>2, <2>3, <2>4, <2>5, <2>6 DEF TypeOK
<1>4. CallInv
  BY DEF Init, CallInv, Adding, Padding
<1> QED
  BY <1>3, <1>4 DEF Typing

\* The packer's fields, the locals of its calls and what it wrote keep their
\* types, and its offset never leaves u64, whatever readers and writers do.
THEOREM TypeCorrect == Spec => []TypeOK
<1>1. Typing => TypeOK
  BY DEF Typing
<1> QED
  BY <1>1, InitTyping, TypingStep, PTL DEF Spec

-----------------------------------------------------------------------------
(* The layout: what the packer has written is where its tables say.        *)

\* The packer exists and no add_reader has failed.
Running == ~failed /\ pc \notin {"new", "dead"}

\* Once add_reader failed the packer is idle or gone; header fields are
\* written in the last phase of finish only.
PhaseInv ==
    /\ failed => pc \in {"idle", "dead"}
    /\ pc = "new" => chunks = << >> /\ entries = << >> /\ ~failed
    /\ hdr > 0 => pc \in {"header", "done", "dead"}

\* self.offset is where the writer is, but for the padding already written.
CursorInv ==
    Running =>
        /\ offset >= HEADER_SIZE
        /\ Padding => pos + remaining = Aligned
        /\ ~Padding => pos = offset
        /\ pc \in {"store", "toc"} => offset % options.alignment = 0

\* Where the payload ends so far.
PayloadEnd == IF pc \in {"header", "done"} THEN toc_offset ELSE offset

ChunksInv ==
    Running =>
        /\ \A i \in DOMAIN chunks :
              /\ ChunkSizesOk(Toc, chunks[i])
              /\ chunks[i].offset % options.alignment = 0
              /\ HEADER_SIZE <= chunks[i].offset
              /\ ChunkEnd(chunks[i]) <= PayloadEnd
        /\ ChunksDisjoint(Toc)

\* The chunks of the finished entries; the rest belong to the current one.
EntryChunks == IF Adding THEN cur.first_chunk ELSE Len(chunks)

EntriesInv ==
    Running =>
        /\ \A i \in DOMAIN entries :
              entries[i].first_chunk + entries[i].chunk_count <= EntryChunks
        /\ \A i, j \in DOMAIN entries :
              i < j => entries[i].first_chunk + entries[i].chunk_count
                          <= entries[j].first_chunk
        /\ \A k \in 1 .. EntryChunks :
              \E i \in DOMAIN entries : k \in Owned(entries[i])

\* The reader said EOF and its short chunk has been stored.
Drained == pc = "read" /\ stream.ended

\* When Ok(0) is final: every chunk of the current entry is full until the
\* stream has ended, and original_total is their size.
FullInv ==
    Running /\ EofIsFinal =>
        /\ NonFinalChunksFull(Toc)
        /\ ClosedFormSizes(Toc)
        /\ Adding =>
              /\ \A k \in (cur.first_chunk + 1) .. Len(chunks) :
                    k < Len(chunks) \/ ~Drained =>
                        chunks[k].original_size = options.chunk_size
              /\ ~Drained => cur.original_total =
                                (Len(chunks) - cur.first_chunk) * options.chunk_size
              /\ Drained =>
                    /\ raw = << >>
                    /\ cur.first_chunk < Len(chunks)
                    /\ cur.original_total =
                          (Len(chunks) - cur.first_chunk - 1) * options.chunk_size
                            + chunks[Len(chunks)].original_size
              /\ pc # "read" /\ ~stream.ended => Len(raw) = options.chunk_size

\* Every chunk of the table is on disk, and nothing else but the table.
DiskInv ==
    /\ Running => BodyComplete
    /\ Running /\ pc \in {"header", "done"} =>
          \E x \in disk : x.kind = "toc" /\ x.at = toc_offset
    /\ HeaderCommitsBody

IInv == /\ Typing
        /\ PhaseInv
        /\ CursorInv
        /\ ChunksInv
        /\ EntriesInv
        /\ FullInv
        /\ DiskInv

-----------------------------------------------------------------------------
(* Frames *)

\* Types that every step uses.
LEMMA Types ==
    ASSUME Typing
    PROVE  /\ offset \in Nat /\ pos \in Nat /\ remaining \in Nat
           /\ toc_offset \in Nat /\ Len(chunks) \in Nat /\ Len(entries) \in Nat
           /\ options.chunk_size \in Nat /\ options.alignment \in Nat
           /\ HEADER_SIZE \in Nat
           /\ chunks \in Seq(Chunk) /\ entries \in Seq(TocEntry)
           /\ DOMAIN chunks = 1 .. Len(chunks)
           /\ DOMAIN entries = 1 .. Len(entries)
           /\ \A i \in DOMAIN chunks :
                 /\ chunks[i].offset \in Nat /\ chunks[i].stored_size \in Nat
                 /\ chunks[i].original_size \in Nat
           /\ \A i \in DOMAIN entries :
                 entries[i].first_chunk \in Nat /\ entries[i].chunk_count \in Nat
           /\ cur.first_chunk \in Nat /\ cur.original_total \in Nat
           /\ stream.ended \in BOOLEAN /\ raw \in Seq(Nat) /\ Len(raw) \in Nat
<1>1. TypeOK
  BY DEF Typing
<1>2. options.chunk_size \in Nat /\ options.alignment \in Nat
  BY <1>1, OptionTypes
<1>3. chunks \in Seq(Chunk) /\ entries \in Seq(TocEntry)
  BY <1>1 DEF TypeOK
<1>4. \A i \in DOMAIN chunks : /\ chunks[i].offset \in Nat
                               /\ chunks[i].stored_size \in Nat
                               /\ chunks[i].original_size \in Nat
  <2>1. \A i \in DOMAIN chunks : chunks[i] \in Chunk
    BY <1>3
  <2> QED
    BY <2>1 DEF Chunk
<1>5. \A i \in DOMAIN entries :
         entries[i].first_chunk \in Nat /\ entries[i].chunk_count \in Nat
  <2>1. \A i \in DOMAIN entries : entries[i] \in TocEntry
    BY <1>3
  <2> QED
    BY <2>1 DEF TocEntry
<1>6. /\ cur.first_chunk \in Nat /\ cur.original_total \in Nat
      /\ stream.ended \in BOOLEAN /\ raw \in Seq(Nat) /\ Len(raw) \in Nat
  BY <1>1 DEF TypeOK, Call
<1>7. /\ offset \in Nat /\ pos \in Nat /\ remaining \in Nat /\ toc_offset \in Nat
      /\ HEADER_SIZE \in Nat
  BY <1>1, ConstantTypes DEF TypeOK
<1> QED
  BY <1>2, <1>3, <1>4, <1>5, <1>6, <1>7

\* The ends of the chunks in the table are natural numbers.
LEMMA ChunkEnds ==
    ASSUME Typing
    PROVE  \A i \in DOMAIN chunks : ChunkEnd(chunks[i]) \in Nat
<1>1. \A i \in DOMAIN chunks :
         chunks[i].offset \in Nat /\ chunks[i].stored_size \in Nat
  BY Types
<1> QED
  BY <1>1 DEF ChunkEnd

\* A step that leaves the tables alone keeps what is known of them.
LEMMA TableFrame ==
    ASSUME Typing, Typing', ChunksInv, EntriesInv, Running, Running',
           UNCHANGED <<options, chunks, entries>>,
           PayloadEnd <= PayloadEnd', EntryChunks' = EntryChunks
    PROVE  ChunksInv' /\ EntriesInv'
<1>1. PayloadEnd \in Nat /\ PayloadEnd' \in Nat
  <2>1. offset \in Nat /\ toc_offset \in Nat
    BY Types
  <2>2. offset' \in Nat /\ toc_offset' \in Nat
    BY ConstantTypes DEF Typing, TypeOK
  <2> QED
    BY <2>1, <2>2 DEF PayloadEnd
<1>2. \A i \in DOMAIN chunks : ChunkEnd(chunks[i]) \in Nat
  BY ChunkEnds
<1>3. \A i \in DOMAIN chunks : ChunkEnd(chunks[i]) <= PayloadEnd'
  BY <1>1, <1>2 DEF ChunksInv
<1>4. \A i \in DOMAIN chunks :
         /\ ChunkSizesOk(Toc', chunks[i])
         /\ chunks[i].offset % options.alignment = 0
         /\ HEADER_SIZE <= chunks[i].offset
  BY DEF ChunksInv, ChunkSizesOk, PayloadSize, Toc, aead
<1>5. ChunksDisjoint(Toc')
  BY DEF ChunksInv, ChunksDisjoint, Toc
<1>6. ChunksInv'
  BY <1>3, <1>4, <1>5 DEF ChunksInv
<1>7. EntriesInv'
  BY DEF EntriesInv
<1> QED
  BY <1>6, <1>7

LEMMA FullFrame ==
    ASSUME FullInv, Running, Running', UNCHANGED <<options, chunks, entries>>,
           EofIsFinal
    PROVE  NonFinalChunksFull(Toc') /\ ClosedFormSizes(Toc')
<1>1. NonFinalChunksFull(Toc')
  BY DEF FullInv, NonFinalChunksFull, Toc
<1>2. ClosedFormSizes(Toc')
  BY DEF FullInv, ClosedFormSizes, Toc
<1> QED
  BY <1>1, <1>2

LEMMA BodyFrame ==
    ASSUME BodyComplete, UNCHANGED chunks,
           disk' = disk \/ \E x : x.kind = "toc" /\ disk' = disk \cup {x}
    PROVE  BodyComplete'
<1>1. \A i \in DOMAIN chunks : StoredAt(i) \subseteq StoredAt(i)'
  BY DEF StoredAt
<1>2. \A i \in DOMAIN chunks' : StoredAt(i)' # {}
  BY <1>1 DEF BodyComplete
<1>3. ASSUME NEW x \in disk', x.kind = "chunk"
      PROVE  \E i \in DOMAIN chunks' : x \in StoredAt(i)'
  <2>1. x \in disk
    BY <1>3
  <2> QED
    BY <1>1, <1>3, <2>1 DEF BodyComplete
<1>4. {x.kind : x \in disk'} \subseteq {"chunk", "toc"}
  BY DEF BodyComplete
<1> QED
  BY <1>2, <1>3, <1>4 DEF BodyComplete

\* A step after which the packer is failed or gone: only the header matters,
\* and it was already committed.
LEMMA StopStep ==
    ASSUME IInv, Typing', ~Running', failed' => pc' \in {"idle", "dead"},
           pc' # "new", UNCHANGED hdr, hdr > 0 => UNCHANGED <<disk, chunks, toc_offset>>,
           pc' = "dead" \/ hdr = 0
    PROVE  IInv'
<1>1. PhaseInv'
  BY DEF PhaseInv, IInv, Typing, TypeOK
<1>2. CursorInv' /\ ChunksInv' /\ EntriesInv' /\ FullInv'
  BY DEF CursorInv, ChunksInv, EntriesInv, FullInv
<1>3. HeaderCommitsBody'
  <2> SUFFICES ASSUME hdr > 0 PROVE HeaderCommitsBody'
    BY DEF HeaderCommitsBody
  <2>1. BodyComplete' /\ \E x \in disk' : x.kind = "toc" /\ x.at = toc_offset'
    BY BodyFrame DEF IInv, DiskInv, HeaderCommitsBody
  <2> QED
    BY <2>1 DEF HeaderCommitsBody
<1> QED
  BY <1>1, <1>2, <1>3 DEF IInv, DiskInv

-----------------------------------------------------------------------------
(* The steps of a packer that keeps running *)

LEMMA NewStep ==
    ASSUME IInv, Typing', New
    PROVE  IInv'
<1>1. /\ pc = "new" /\ pc' = "idle" /\ disk = {} /\ ~failed /\ hdr = 0
      /\ chunks = << >> /\ entries = << >>
      /\ pos' = HEADER_SIZE /\ offset' = HEADER_SIZE
      /\ UNCHANGED <<options, entries, chunks, failed, toc_offset, disk, hdr>>
  BY DEF New, callVars, IInv, PhaseInv, Typing, TypeOK
<1>2. PhaseInv' /\ CursorInv'
  BY <1>1 DEF PhaseInv, CursorInv, Padding, HEADER_SIZE
<1>3. ChunksInv' /\ EntriesInv'
  <2>1. ChunksDisjoint(Toc')
    BY <1>1 DEF ChunksDisjoint, Toc
  <2>2. EntryChunks' = 0
    BY <1>1 DEF EntryChunks, Adding
  <2> QED
    BY <1>1, <2>1, <2>2 DEF ChunksInv, EntriesInv
<1>4. FullInv'
  BY <1>1 DEF FullInv, NonFinalChunksFull, ClosedFormSizes, Toc, Adding
<1>5. DiskInv'
  BY <1>1 DEF DiskInv, BodyComplete, HeaderCommitsBody
<1> QED
  BY <1>2, <1>3, <1>4, <1>5 DEF IInv

LEMMA AddReaderStep ==
    ASSUME IInv, Typing', NEW p \in RawPaths, AddReader(p)
    PROVE  IInv'
<1>1. /\ pc = "idle" /\ pc' = "read" /\ ~failed /\ hdr = 0
      /\ cur'.first_chunk = Len(chunks) /\ cur'.original_total = 0
      /\ ~stream'.ended
      /\ UNCHANGED <<options, entries, chunks, offset, failed, pos, disk, hdr, toc_offset>>
  BY DEF AddReader, IInv, PhaseInv, Typing, TypeOK, NoCall, Unread, writerVars
<1>2. Running /\ Running'
  BY <1>1 DEF Running
<1>3. PhaseInv' /\ CursorInv'
  BY <1>1, <1>2 DEF IInv, PhaseInv, CursorInv, Padding
<1>4. ChunksInv' /\ EntriesInv'
  <2>1. PayloadEnd' = offset /\ PayloadEnd = offset
    BY <1>1 DEF PayloadEnd
  <2>2. EntryChunks' = Len(chunks) /\ EntryChunks = Len(chunks)
    BY <1>1 DEF EntryChunks, Adding
  <2> QED
    BY <1>1, <1>2, <2>1, <2>2, TableFrame, Types DEF IInv
<1>5. FullInv'
  <2> SUFFICES ASSUME EofIsFinal PROVE FullInv'
    BY DEF FullInv
  <2>1. NonFinalChunksFull(Toc') /\ ClosedFormSizes(Toc')
    BY <1>1, <1>2, FullFrame DEF IInv
  <2>2. ~Drained' /\ (Len(chunks) - Len(chunks)) * options.chunk_size = 0
    BY <1>1, Types DEF Drained, IInv
  <2>3. \A k \in (Len(chunks) + 1) .. Len(chunks) : FALSE
    BY Types DEF IInv
  <2> QED
    BY <1>1, <2>1, <2>2, <2>3 DEF FullInv
<1>6. DiskInv'
  BY <1>1, <1>2, BodyFrame DEF IInv, DiskInv, HeaderCommitsBody
<1> QED
  BY <1>3, <1>4, <1>5, <1>6 DEF IInv

LEMMA ReadSomeStep ==
    ASSUME IInv, Typing', NEW n \in 1 .. MAX_CHUNK_SIZE, ReadSome(n)
    PROVE  IInv'
<1>1. /\ pc = "read" /\ pc' \in {"read", "align"} /\ ~failed /\ hdr = 0
      /\ stream'.ended = stream.ended
      /\ pc' = "align" => Len(raw') = options.chunk_size
      /\ UNCHANGED <<options, entries, chunks, offset, failed, cur, pos, disk, hdr, toc_offset>>
  BY DEF ReadSome, IInv, PhaseInv, Typing, TypeOK, structVars, writerVars
<1>2. Running /\ Running'
  BY <1>1 DEF Running
<1>3. PhaseInv' /\ CursorInv'
  BY <1>1, <1>2 DEF IInv, PhaseInv, CursorInv, Padding
<1>4. ChunksInv' /\ EntriesInv'
  <2>1. PayloadEnd' = offset /\ PayloadEnd = offset
    BY <1>1 DEF PayloadEnd
  <2>2. EntryChunks' = cur.first_chunk /\ EntryChunks = cur.first_chunk
    BY <1>1 DEF EntryChunks, Adding
  <2> QED
    BY <1>1, <1>2, <2>1, <2>2, TableFrame, Types DEF IInv
<1>5. FullInv'
  <2> SUFFICES ASSUME EofIsFinal PROVE FullInv'
    BY DEF FullInv
  <2>1. NonFinalChunksFull(Toc') /\ ClosedFormSizes(Toc')
    BY <1>1, <1>2, FullFrame DEF IInv
  <2>2. ~Drained /\ ~Drained'
    BY <1>1 DEF Drained, ReadSome
  <2> QED
    BY <1>1, <1>2, <2>1, <2>2 DEF FullInv, IInv, Adding
<1>6. DiskInv'
  BY <1>1, <1>2, BodyFrame DEF IInv, DiskInv, HeaderCommitsBody
<1> QED
  BY <1>3, <1>4, <1>5, <1>6 DEF IInv

LEMMA ReadEofStep ==
    ASSUME IInv, Typing', ReadEof
    PROVE  IInv'
<1>1. /\ pc = "read" /\ pc' = "align" /\ ~failed /\ hdr = 0 /\ raw # << >>
      /\ stream'.ended
      /\ UNCHANGED <<options, entries, chunks, offset, failed, cur, raw, pos, disk, hdr, toc_offset>>
  BY DEF ReadEof, IInv, PhaseInv, Typing, TypeOK, structVars, callVars, writerVars
<1>2. Running /\ Running'
  BY <1>1 DEF Running
<1>3. PhaseInv' /\ CursorInv'
  BY <1>1, <1>2 DEF IInv, PhaseInv, CursorInv, Padding
<1>4. ChunksInv' /\ EntriesInv'
  <2>1. PayloadEnd' = offset /\ PayloadEnd = offset
    BY <1>1 DEF PayloadEnd
  <2>2. EntryChunks' = cur.first_chunk /\ EntryChunks = cur.first_chunk
    BY <1>1 DEF EntryChunks, Adding
  <2> QED
    BY <1>1, <1>2, <2>1, <2>2, TableFrame, Types DEF IInv
<1>5. FullInv'
  <2> SUFFICES ASSUME EofIsFinal PROVE FullInv'
    BY DEF FullInv
  <2>1. NonFinalChunksFull(Toc') /\ ClosedFormSizes(Toc')
    BY <1>1, <1>2, FullFrame DEF IInv
  <2>2. ~Drained /\ ~Drained'
    BY <1>1, <1>2 DEF Drained, IInv, FullInv, Adding
  <2> QED
    BY <1>1, <1>2, <2>1, <2>2 DEF FullInv, IInv, Adding
<1>6. DiskInv'
  BY <1>1, <1>2, BodyFrame DEF IInv, DiskInv, HeaderCommitsBody
<1> QED
  BY <1>3, <1>4, <1>5, <1>6 DEF IInv

\* Both calls of align, and the writes of its padding.
LEMMA AddZero == \A x \in Nat : x + 0 = x
OBVIOUS

LEMMA AlignStep ==
    ASSUME IInv, Typing', Align \/ PadWrite
    PROVE  IInv'
<1>1. /\ pc \in {"align", "pad"} => pc' \in {"pad", "store"}
      /\ pc \in {"finalign", "finpad"} => pc' \in {"finpad", "toc"}
      /\ pc \in {"align", "finalign", "pad", "finpad"}
      /\ ~failed /\ hdr = 0 /\ ValidOptions(options)
      /\ UNCHANGED <<options, entries, chunks, failed, cur, raw, stream, disk, hdr, toc_offset>>
  <2>1. /\ pc \in {"align", "finalign", "pad", "finpad"}
        /\ UNCHANGED <<options, entries, chunks, failed, cur, raw, stream, disk, hdr, toc_offset>>
    BY DEF Align, PadWrite, structVars, readerVars, writerVars
  <2>2. /\ pc \in {"align", "pad"} => pc' \in {"pad", "store"}
        /\ pc \in {"finalign", "finpad"} => pc' \in {"finpad", "toc"}
    BY DEF Align, PadWrite, AfterPad
  <2>3. ~failed /\ ValidOptions(options)
    BY <2>1 DEF IInv, PhaseInv, Typing, CallInv
  <2>4. hdr = 0
    BY <2>1 DEF IInv, PhaseInv, Typing, TypeOK
  <2> QED
    BY <2>1, <2>2, <2>3, <2>4
<1>2. Running /\ Running'
  BY <1>1 DEF Running
<1>3. /\ Aligned \in Nat /\ offset <= Aligned /\ Aligned % options.alignment = 0
      /\ offset \in Nat /\ pos \in Nat /\ remaining \in Nat /\ HEADER_SIZE \in Nat
  BY <1>1, AlignedFacts, Types DEF IInv, Typing
<1>4. offset' = offset => Aligned' = Aligned
  BY <1>1 DEF Aligned
<1>5. CursorInv' /\ offset <= offset'
  <2>1. CASE Align
    <3>1. pos' = pos /\ offset' = offset /\ remaining' = Aligned - offset /\ pos = offset
      BY <1>1, <1>2, <2>1 DEF Align, structVars, writerVars, IInv, CursorInv, Padding
    <3>2. \/ Aligned = offset /\ pc' \in {"store", "toc"}
          \/ pc' \in {"pad", "finpad"}
      BY <2>1 DEF Align, AfterPad
    <3>3. pos' + remaining' = Aligned /\ offset >= HEADER_SIZE
      BY <1>2, <1>3, <3>1 DEF IInv, CursorInv
    <3> QED
      BY <1>1, <1>3, <1>4, <3>1, <3>2, <3>3 DEF CursorInv, Padding
  <2>2. CASE PadWrite
    <3> DEFINE amount == IF remaining < ZEROES THEN remaining ELSE ZEROES
    <3>1. amount \in Nat /\ pos' = pos + amount /\ remaining' = remaining - amount
      BY <1>3, <2>2, ConstantTypes DEF PadWrite
    <3>2. pos + remaining = Aligned /\ offset >= HEADER_SIZE
      BY <1>2, <2>2 DEF PadWrite, IInv, CursorInv, Padding
    <3> HIDE DEF amount
    <3>3. pos' + remaining' = Aligned
      BY <1>3, <3>1, <3>2
    <3>4. CASE remaining' = 0
      <4>1. offset' = Aligned /\ pc' \in {"store", "toc"} /\ pos' \in Nat
        BY <1>3, <2>2, <3>1, <3>4 DEF PadWrite, AfterPad
      <4>2. pos' = Aligned /\ Aligned >= HEADER_SIZE
        <5>1. pos' = Aligned
          <6>1. pos' \in Nat
            BY <4>1
          <6>2. pos' + 0 = Aligned
            BY <3>3, <3>4
          <6> QED
            BY <6>1, <6>2, AddZero
        <5>2. Aligned >= HEADER_SIZE
          BY <1>3, <3>2
        <5> QED
          BY <5>1, <5>2
      <4>3. offset' % options'.alignment = 0
        BY <1>1, <1>3, <4>1
      <4> QED
        BY <1>3, <4>1, <4>2, <4>3 DEF CursorInv, Padding
    <3>5. CASE remaining' # 0
      <4>1. offset' = offset /\ pc' = pc /\ pc \in {"pad", "finpad"}
        BY <2>2, <3>5 DEF PadWrite
      <4> QED
        BY <1>1, <1>3, <1>4, <3>2, <3>3, <4>1 DEF CursorInv, Padding
    <3> QED
      BY <3>4, <3>5
  <2> QED
    BY <2>1, <2>2
<1>6. PhaseInv'
  BY <1>1 DEF IInv, PhaseInv
<1>7. ChunksInv' /\ EntriesInv'
  <2>1. PayloadEnd' = offset' /\ PayloadEnd = offset
    BY <1>1 DEF PayloadEnd
  <2>2. EntryChunks' = EntryChunks
    BY <1>1 DEF EntryChunks, Adding
  <2> QED
    BY <1>1, <1>2, <1>5, <2>1, <2>2, TableFrame DEF IInv
<1>8. FullInv'
  <2> SUFFICES ASSUME EofIsFinal PROVE FullInv'
    BY DEF FullInv
  <2>1. NonFinalChunksFull(Toc') /\ ClosedFormSizes(Toc')
    BY <1>1, <1>2, FullFrame DEF IInv
  <2>2. ~Drained /\ ~Drained' /\ Adding' = Adding
    BY <1>1 DEF Drained, Adding
  <2> QED
    BY <1>1, <1>2, <2>1, <2>2 DEF FullInv, IInv, Adding
<1>9. DiskInv'
  BY <1>1, <1>2, BodyFrame DEF IInv, DiskInv, HeaderCommitsBody
<1> QED
  BY <1>5, <1>6, <1>7, <1>8, <1>9 DEF IInv

\* One more chunk: where the cursor is, after every other, bound to its index.
LEMMA StoreStep ==
    ASSUME IInv, Typing', NEW n \in 1 .. (Len(raw) + 1), Store(n)
    PROVE  IInv'
<1> DEFINE size == StoredLen(PayloadLen(n))
           c == ChunkRecord(n)
<1>1. /\ pc = "store" /\ pc' = "read" /\ ~failed /\ hdr = 0
      /\ StoreChunk(size)
      /\ offset' = offset + size
      /\ chunks' = Append(chunks, c)
      /\ raw' = << >>
      /\ UNCHANGED <<options, entries, failed, remaining, toc_offset, stream, hdr>>
  BY DEF Store, StoreChunk, IInv, PhaseInv, Typing, TypeOK, readerVars
<1>2. Running /\ Running'
  BY <1>1 DEF Running
<1>3. /\ Len(raw) \in Nat \ {0}
      /\ PayloadLen(n) \in 1 .. Len(raw)
      /\ KeepCompressed(n) \in BOOLEAN
      /\ KeepCompressed(n) <=> PayloadLen(n) < Len(raw)
      /\ size \in Nat \ {0}
  BY <1>1, StoredFacts DEF IInv, Typing, CallInv
<1>4. /\ c.offset = offset /\ c.stored_size = size /\ c.original_size = Len(raw)
      /\ c.compressed = KeepCompressed(n)
  BY DEF ChunkRecord
<1>5. /\ offset >= HEADER_SIZE /\ pos = offset /\ offset % options.alignment = 0
      /\ offset \in Nat /\ HEADER_SIZE \in Nat
  BY <1>1, <1>2, Types DEF IInv, CursorInv, Padding
<1>6. Len(raw) <= options.chunk_size /\ options.chunk_size \in Nat
  BY Types DEF IInv, Typing, TypeOK
<1>7. /\ DOMAIN chunks' = 1 .. Len(chunks) + 1
      /\ DOMAIN chunks = 1 .. Len(chunks) /\ Len(chunks) \in Nat
      /\ Len(chunks') = Len(chunks) + 1
      /\ \A i \in DOMAIN chunks : chunks'[i] = chunks[i]
      /\ chunks'[Len(chunks) + 1] = c
  BY <1>1, Types DEF IInv
<1>8. /\ cur'.first_chunk = cur.first_chunk
      /\ cur'.original_total = cur.original_total + Len(raw)
      /\ cur.first_chunk \in Nat /\ cur.original_total \in Nat
      /\ cur.first_chunk <= Len(chunks)
  <2>1. cur' = [cur EXCEPT !.original_total = cur.original_total + Len(raw),
                           !.stored_total = cur.stored_total + size]
    BY DEF Store
  <2>2. cur \in Call
    BY DEF IInv, Typing, TypeOK
  <2> QED
    BY <1>1, <2>1, <2>2, Types DEF Call, IInv, Typing, CallInv, Adding
<1> HIDE DEF c
<1>9. PhaseInv' /\ CursorInv'
  <2>1. pos' = pos + size
    BY <1>1 DEF StoreChunk
  <2> HIDE DEF size
  <2>2. PhaseInv'
    BY <1>1 DEF IInv, PhaseInv
  <2> QED
    BY <1>1, <1>3, <1>5, <2>1, <2>2 DEF CursorInv, Padding
<1>10. ChunksInv'
  <2>1. ChunkSizesOk(Toc', c)
    <3>1. Toc'.chunk_size = options.chunk_size /\ (Toc'.aead <=> aead)
      BY <1>1 DEF Toc, aead
    <3>2. PayloadSize(Toc', c) = PayloadLen(n)
      BY <1>3, <1>4, <3>1 DEF PayloadSize, StoredLen, AEAD_OVERHEAD
    <3> QED
      BY <1>3, <1>4, <1>6, <3>1, <3>2 DEF ChunkSizesOk
  <2> HIDE DEF size
  <2>2. ChunkEnd(c) = offset' /\ offset <= offset' /\ offset' \in Nat
    BY <1>1, <1>3, <1>4, <1>5 DEF ChunkEnd
  <2>3. PayloadEnd = offset /\ PayloadEnd' = offset'
    BY <1>1 DEF PayloadEnd
  <2>4. \A i \in DOMAIN chunks :
           /\ ChunkEnd(chunks[i]) \in Nat /\ ChunkEnd(chunks[i]) <= offset
           /\ ChunkSizesOk(Toc', chunks[i])
           /\ chunks[i].offset % options.alignment = 0
           /\ HEADER_SIZE <= chunks[i].offset
    <3>1. \A i \in DOMAIN chunks : ChunkEnd(chunks[i]) \in Nat
      BY ChunkEnds DEF IInv
    <3>2. \A i \in DOMAIN chunks : ChunkSizesOk(Toc', chunks[i])
      BY <1>1, <1>2 DEF IInv, ChunksInv, ChunkSizesOk, PayloadSize, Toc, aead
    <3> QED
      BY <1>2, <2>3, <3>1, <3>2 DEF IInv, ChunksInv
  <2>5. \A i \in DOMAIN chunks' :
           /\ ChunkSizesOk(Toc', chunks'[i])
           /\ chunks'[i].offset % options'.alignment = 0
           /\ HEADER_SIZE <= chunks'[i].offset
           /\ ChunkEnd(chunks'[i]) <= PayloadEnd'
    <3> SUFFICES ASSUME NEW i \in DOMAIN chunks'
                 PROVE  /\ ChunkSizesOk(Toc', chunks'[i])
                        /\ chunks'[i].offset % options.alignment = 0
                        /\ HEADER_SIZE <= chunks'[i].offset
                        /\ ChunkEnd(chunks'[i]) <= offset'
      BY <1>1, <2>3
    <3>1. CASE i \in DOMAIN chunks
      BY <1>5, <1>7, <2>2, <2>4, <3>1
    <3>2. CASE i = Len(chunks) + 1
      BY <1>4, <1>5, <1>7, <2>1, <2>2, <3>2
    <3> QED
      BY <1>7, <3>1, <3>2
  <2>6. ChunksDisjoint(Toc')
    <3> SUFFICES ASSUME NEW i \in DOMAIN chunks', NEW j \in DOMAIN chunks', i < j
                 PROVE  ChunkEnd(chunks'[i]) <= chunks'[j].offset
      BY DEF ChunksDisjoint, Toc
    <3>1. i \in DOMAIN chunks
      BY <1>7
    <3>2. CASE j \in DOMAIN chunks
      BY <1>2, <1>7, <3>1, <3>2 DEF IInv, ChunksInv, ChunksDisjoint, Toc
    <3>3. CASE j = Len(chunks) + 1
      BY <1>4, <1>7, <2>4, <3>1, <3>3
    <3> QED
      BY <1>7, <3>2, <3>3
  <2> QED
    BY <2>5, <2>6 DEF ChunksInv
<1>11. EntriesInv'
  <2>1. EntryChunks = cur.first_chunk /\ EntryChunks' = cur.first_chunk
    BY <1>1, <1>8 DEF EntryChunks, Adding
  <2> QED
    BY <1>1, <1>2, <2>1 DEF IInv, EntriesInv
<1>12. FullInv'
  <2> SUFFICES ASSUME EofIsFinal PROVE FullInv'
    BY DEF FullInv
  <2> HIDE DEF size
  <2>1. \A k \in (cur.first_chunk + 1) .. Len(chunks) :
           chunks[k].original_size = options.chunk_size
    BY <1>1, <1>2 DEF IInv, FullInv, Adding, Drained
  <2>2. cur.original_total = (Len(chunks) - cur.first_chunk) * options.chunk_size
    BY <1>1, <1>2 DEF IInv, FullInv, Adding, Drained
  <2>3. ~stream.ended => Len(raw) = options.chunk_size
    BY <1>1, <1>2 DEF IInv, FullInv, Adding
  <2>0. \A i \in DOMAIN entries :
           entries[i].first_chunk \in Nat /\ entries[i].chunk_count \in Nat
    BY Types DEF IInv
  <2>4. \A i \in DOMAIN entries :
           entries[i].first_chunk + entries[i].chunk_count <= Len(chunks)
    <3>1. \A i \in DOMAIN entries :
             entries[i].first_chunk + entries[i].chunk_count <= cur.first_chunk
      BY <1>1, <1>2 DEF IInv, EntriesInv, EntryChunks, Adding
    <3> QED
      BY <1>7, <1>8, <2>0, <3>1
  <2>5. \A i \in DOMAIN entries : \A k \in Owned(entries[i]) :
           k \in DOMAIN chunks /\ chunks'[k] = chunks[k]
    BY <1>7, <2>0, <2>4 DEF Owned
  <2>6. NonFinalChunksFull(Toc')
    BY <1>1, <1>2, <2>5 DEF IInv, FullInv, NonFinalChunksFull, Toc
  <2>7. ASSUME NEW i \in DOMAIN entries, entries[i].chunk_count # 0
        PROVE  chunks'[entries[i].first_chunk + entries[i].chunk_count] =
               chunks[entries[i].first_chunk + entries[i].chunk_count]
    <3>1. entries[i].first_chunk + entries[i].chunk_count \in Owned(entries[i])
      BY <2>0, <2>7 DEF Owned
    <3> QED
      BY <2>5, <3>1
  <2>8. ClosedFormSizes(Toc')
    <3>1. ClosedFormSizes(Toc)
      BY <1>2 DEF IInv, FullInv
    <3>2. /\ Toc.entries = entries /\ Toc'.entries = entries
          /\ Toc.chunks = chunks /\ Toc'.chunks = chunks'
          /\ Toc'.chunk_size = Toc.chunk_size
      BY <1>1 DEF Toc
    <3> SUFFICES ASSUME NEW i \in DOMAIN entries
                 PROVE  entries[i].original_size =
                          IF entries[i].chunk_count = 0 THEN 0
                          ELSE (entries[i].chunk_count - 1) * Toc'.chunk_size
                                 + chunks'[entries[i].first_chunk
                                     + entries[i].chunk_count].original_size
      BY <3>2 DEF ClosedFormSizes
    <3>3. entries[i].original_size =
             IF entries[i].chunk_count = 0 THEN 0
             ELSE (entries[i].chunk_count - 1) * Toc.chunk_size
                    + chunks[entries[i].first_chunk
                        + entries[i].chunk_count].original_size
      BY <3>1, <3>2 DEF ClosedFormSizes
    <3> QED
      BY <2>7, <3>2, <3>3
  <2>9. Drained' <=> stream.ended
    BY <1>1 DEF Drained
  <2>10. \A k \in (cur.first_chunk + 1) .. Len(chunks') :
            k < Len(chunks') \/ ~Drained' =>
                chunks'[k].original_size = options.chunk_size
    <3> SUFFICES ASSUME NEW k \in (cur.first_chunk + 1) .. Len(chunks'),
                        k < Len(chunks') \/ ~Drained'
                 PROVE  chunks'[k].original_size = options.chunk_size
      OBVIOUS
    <3>1. CASE k \in (cur.first_chunk + 1) .. Len(chunks)
      BY <1>7, <1>8, <2>1, <3>1
    <3>2. CASE k = Len(chunks) + 1
      BY <1>4, <1>7, <2>3, <2>9, <3>2
    <3> QED
      BY <1>7, <1>8, <3>1, <3>2
  <2>11. Len(chunks') - cur.first_chunk - 1 = Len(chunks) - cur.first_chunk
    <3>1. Len(chunks') = Len(chunks) + 1 /\ Len(chunks) \in Nat
      BY <1>7
    <3>2. cur.first_chunk \in Nat
      BY <1>8
    <3> QED
      BY <3>1, <3>2
  <2>12. cur'.original_total =
            (Len(chunks') - cur.first_chunk - 1) * options.chunk_size + Len(raw)
    BY <1>8, <2>2, <2>11
  <2>13. ~Drained' => cur'.original_total =
            (Len(chunks') - cur.first_chunk) * options.chunk_size
    <3> DEFINE m == Len(chunks) - cur.first_chunk
    <3>1. m \in Int /\ Len(chunks') - cur.first_chunk = m + 1
      BY <1>7, <1>8
    <3>2. (m + 1) * options.chunk_size = m * options.chunk_size + options.chunk_size
      BY <1>6, <3>1
    <3> QED
      BY <1>8, <2>2, <2>3, <2>9, <3>1, <3>2
  <2>14. cur.first_chunk < Len(chunks')
    BY <1>7, <1>8
  <2> QED
    BY <1>1, <1>4, <1>7, <1>8, <2>6, <2>8, <2>10, <2>12, <2>13, <2>14 DEF FullInv
<1>13. DiskInv'
  <2> DEFINE x == Extent(pos, size, "chunk", Len(chunks), Len(entries) + 1, raw)
  <2>1. disk' = disk \cup {x}
    BY <1>1 DEF StoreChunk
  <2>2. /\ x.kind = "chunk" /\ x.at = c.offset /\ x.len = c.stored_size
        /\ x.index = (Len(chunks) + 1) - 1
    BY <1>4, <1>5, <1>7 DEF Extent
  <2> HIDE DEF x
  <2>0. PICK m \in Nat : m = Len(chunks) + 1
    BY <1>7
  <2>3. x \in StoredAt(m)'
    BY <1>7, <2>0, <2>1, <2>2 DEF StoredAt
  <2>4. \A i \in DOMAIN chunks : StoredAt(i) \subseteq StoredAt(i)'
    BY <1>7, <2>1 DEF StoredAt
  <2>5. BodyComplete
    BY <1>2 DEF IInv, DiskInv
  <2>6. \A i \in DOMAIN chunks' : StoredAt(i)' # {}
    <3> SUFFICES ASSUME NEW i \in DOMAIN chunks' PROVE StoredAt(i)' # {}
      OBVIOUS
    <3>1. CASE i \in DOMAIN chunks
      BY <2>4, <2>5, <3>1 DEF BodyComplete
    <3>2. CASE i = Len(chunks) + 1
      BY <2>0, <2>3, <3>2
    <3> QED
      BY <1>7, <3>1, <3>2
  <2>7. ASSUME NEW y \in disk', y.kind = "chunk"
        PROVE  \E i \in DOMAIN chunks' : y \in StoredAt(i)'
    <3>1. CASE y \in disk
      <4>1. PICK i \in DOMAIN chunks : y \in StoredAt(i)
        BY <2>5, <2>7, <3>1 DEF BodyComplete
      <4> QED
        BY <1>7, <2>4, <4>1
    <3>2. CASE y = x
      BY <1>7, <2>0, <2>3, <3>2
    <3> QED
      BY <2>1, <3>1, <3>2
  <2>8. {y.kind : y \in disk'} \subseteq {"chunk", "toc"}
    BY <2>1, <2>2, <2>5 DEF BodyComplete
  <2>9. BodyComplete'
    BY <2>6, <2>7, <2>8 DEF BodyComplete
  <2> QED
    BY <1>1, <2>9 DEF DiskInv, HeaderCommitsBody
<1> QED
  BY <1>9, <1>10, <1>11, <1>12, <1>13 DEF IInv

\* An entry is recorded: it owns the chunks stored since its first.
LEMMA EndOfEntryStep ==
    ASSUME IInv, Typing', EndOfEntry, Len(entries') <= U32_MAX
    PROVE  IInv'
<1> DEFINE e == [path |-> cur.path, first_chunk |-> cur.first_chunk,
                 chunk_count |-> Len(chunks) - cur.first_chunk,
                 original_size |-> cur.original_total,
                 stored_size |-> cur.stored_total]
<1>1. /\ pc = "read" /\ pc' = "idle" /\ ~failed /\ hdr = 0 /\ raw = << >>
      /\ entries' = Append(entries, e)
      /\ UNCHANGED <<options, chunks, offset, failed, pos, disk, hdr, toc_offset>>
  BY DEF EndOfEntry, IInv, PhaseInv, Typing, TypeOK, writerVars
<1>2. Running /\ Running'
  BY <1>1 DEF Running
<1>3. /\ e.first_chunk = cur.first_chunk
      /\ e.chunk_count = Len(chunks) - cur.first_chunk
      /\ e.original_size = cur.original_total
  OBVIOUS
<1> HIDE DEF e
<1>4. /\ cur.first_chunk \in Nat /\ Len(chunks) \in Nat /\ cur.first_chunk <= Len(chunks)
      /\ \A i \in DOMAIN entries :
            entries[i].first_chunk \in Nat /\ entries[i].chunk_count \in Nat
      /\ DOMAIN chunks = 1 .. Len(chunks)
  BY <1>1, Types DEF IInv, Typing, CallInv, Adding
<1>5. /\ DOMAIN entries' = 1 .. Len(entries) + 1
      /\ DOMAIN entries = 1 .. Len(entries) /\ Len(entries) \in Nat
      /\ \A i \in DOMAIN entries : entries'[i] = entries[i]
      /\ entries'[Len(entries) + 1] = e
  BY <1>1, Types DEF IInv
<1>6. PhaseInv' /\ CursorInv'
  BY <1>1, <1>2 DEF IInv, PhaseInv, CursorInv, Padding
<1>7. ChunksInv'
  <2>1. PayloadEnd' = PayloadEnd
    BY <1>1 DEF PayloadEnd
  <2> QED
    BY <1>1, <1>2, <2>1 DEF IInv, ChunksInv, ChunkSizesOk, PayloadSize,
                            ChunksDisjoint, Toc, aead
<1>8. EntriesInv'
  <2>1. EntryChunks = cur.first_chunk /\ EntryChunks' = Len(chunks)
    BY <1>1 DEF EntryChunks, Adding
  <2>2. \A i \in DOMAIN entries :
           entries[i].first_chunk + entries[i].chunk_count <= cur.first_chunk
    BY <1>2, <2>1 DEF IInv, EntriesInv
  <2>3. \A i \in DOMAIN entries' :
           entries'[i].first_chunk + entries'[i].chunk_count <= Len(chunks)
    <3> SUFFICES ASSUME NEW i \in DOMAIN entries'
                 PROVE  entries'[i].first_chunk + entries'[i].chunk_count <= Len(chunks)
      OBVIOUS
    <3>1. CASE i \in DOMAIN entries
      BY <1>4, <1>5, <2>2, <3>1
    <3>2. CASE i = Len(entries) + 1
      BY <1>3, <1>4, <1>5, <3>2
    <3> QED
      BY <1>5, <3>1, <3>2
  <2>4. \A i, j \in DOMAIN entries' :
           i < j => entries'[i].first_chunk + entries'[i].chunk_count
                       <= entries'[j].first_chunk
    <3> SUFFICES ASSUME NEW i \in DOMAIN entries', NEW j \in DOMAIN entries', i < j
                 PROVE  entries'[i].first_chunk + entries'[i].chunk_count
                           <= entries'[j].first_chunk
      OBVIOUS
    <3>1. i \in DOMAIN entries
      BY <1>5
    <3>2. CASE j \in DOMAIN entries
      BY <1>2, <1>5, <3>1, <3>2 DEF IInv, EntriesInv
    <3>3. CASE j = Len(entries) + 1
      BY <1>3, <1>5, <2>2, <3>1, <3>3
    <3> QED
      BY <1>5, <3>2, <3>3
  <2>5. \A k \in 1 .. Len(chunks) : \E i \in DOMAIN entries' : k \in Owned(entries'[i])
    <3> SUFFICES ASSUME NEW k \in 1 .. Len(chunks)
                 PROVE  \E i \in DOMAIN entries' : k \in Owned(entries'[i])
      OBVIOUS
    <3>1. CASE k <= cur.first_chunk
      <4>1. PICK i \in DOMAIN entries : k \in Owned(entries[i])
        BY <1>2, <1>4, <2>1, <3>1 DEF IInv, EntriesInv
      <4> QED
        BY <1>5, <4>1
    <3>2. CASE k > cur.first_chunk
      <4>1. k \in Owned(e)
        BY <1>3, <1>4, <3>2 DEF Owned
      <4>2. Len(entries) + 1 \in DOMAIN entries'
        BY <1>5
      <4> QED
        BY <1>5, <4>1, <4>2
    <3> QED
      BY <1>4, <3>1, <3>2
  <2> QED
    BY <1>1, <2>1, <2>3, <2>4, <2>5 DEF EntriesInv
<1>9. FullInv'
  <2> SUFFICES ASSUME EofIsFinal PROVE FullInv'
    BY DEF FullInv
  <2>1. /\ NonFinalChunksFull(Toc) /\ ClosedFormSizes(Toc)
        /\ \A k \in (cur.first_chunk + 1) .. Len(chunks) :
              k < Len(chunks) \/ ~Drained =>
                  chunks[k].original_size = options.chunk_size
    BY <1>1, <1>2 DEF IInv, FullInv, Adding
  <2>2. \A k \in Owned(e) : k + 1 \in Owned(e) =>
                               chunks[k].original_size = options.chunk_size
    BY <1>3, <1>4, <2>1 DEF Owned
  <2>3. NonFinalChunksFull(Toc')
    <3> SUFFICES ASSUME NEW i \in DOMAIN entries', NEW k \in Owned(entries'[i]),
                        k + 1 \in Owned(entries'[i])
                 PROVE  chunks[k].original_size = options.chunk_size
      BY <1>1 DEF NonFinalChunksFull, Toc
    <3>1. CASE i \in DOMAIN entries
      BY <1>5, <2>1, <3>1 DEF NonFinalChunksFull, Toc
    <3>2. CASE i = Len(entries) + 1
      BY <1>5, <2>2, <3>2
    <3> QED
      BY <1>5, <3>1, <3>2
  <2>4. e.original_size =
           IF e.chunk_count = 0 THEN 0
           ELSE (e.chunk_count - 1) * options.chunk_size
                   + chunks[e.first_chunk + e.chunk_count].original_size
    <3>0. /\ e.first_chunk + e.chunk_count = Len(chunks)
          /\ e.chunk_count \in Nat /\ options.chunk_size \in Nat
      <4>1. options.chunk_size \in Nat
        BY Types DEF IInv
      <4>2. /\ cur.first_chunk \in Nat /\ Len(chunks) \in Nat
            /\ cur.first_chunk <= Len(chunks)
        BY <1>4
      <4> QED
        BY <1>3, <4>1, <4>2
    <3>1. CASE Drained
      <4>1. /\ cur.first_chunk < Len(chunks)
            /\ cur.original_total =
                  (Len(chunks) - cur.first_chunk - 1) * options.chunk_size
                     + chunks[Len(chunks)].original_size
        BY <1>1, <1>2, <3>1 DEF IInv, FullInv, Adding
      <4>2. e.chunk_count # 0
        BY <1>3, <1>4, <4>1
      <4> QED
        BY <1>3, <3>0, <4>1, <4>2
    <3>2. CASE ~Drained
      <4>1. cur.original_total = e.chunk_count * options.chunk_size
        BY <1>1, <1>2, <1>3, <3>2 DEF IInv, FullInv, Adding
      <4>2. CASE e.chunk_count = 0
        <5>1. 0 * options.chunk_size = 0
          BY <3>0
        <5> QED
          BY <1>3, <4>1, <4>2, <5>1
      <4>3. CASE e.chunk_count # 0
        <5>1. Len(chunks) \in (cur.first_chunk + 1) .. Len(chunks)
          BY <1>3, <1>4, <3>0, <4>3
        <5>2. chunks[Len(chunks)].original_size = options.chunk_size
          BY <2>1, <3>2, <5>1
        <5>3. e.chunk_count * options.chunk_size =
                (e.chunk_count - 1) * options.chunk_size + options.chunk_size
          BY <3>0
        <5> QED
          BY <1>3, <3>0, <4>1, <4>3, <5>2, <5>3
      <4> QED
        BY <4>2, <4>3
    <3> QED
      BY <3>1, <3>2
  <2>5. ClosedFormSizes(Toc')
    <3> SUFFICES ASSUME NEW i \in DOMAIN entries'
                 PROVE  entries'[i].original_size =
                           IF entries'[i].chunk_count = 0 THEN 0
                           ELSE (entries'[i].chunk_count - 1) * options.chunk_size
                                 + chunks[entries'[i].first_chunk
                                          + entries'[i].chunk_count].original_size
      BY <1>1 DEF ClosedFormSizes, Toc
    <3>1. CASE i \in DOMAIN entries
      BY <1>5, <2>1, <3>1 DEF ClosedFormSizes, Toc
    <3>2. CASE i = Len(entries) + 1
      BY <1>5, <2>4, <3>2
    <3> QED
      BY <1>5, <3>1, <3>2
  <2> QED
    BY <1>1, <2>3, <2>5 DEF FullInv, Adding
<1>10. DiskInv'
  BY <1>1, <1>2, BodyFrame DEF IInv, DiskInv, HeaderCommitsBody
<1> QED
  BY <1>6, <1>7, <1>8, <1>9, <1>10 DEF IInv

\* finish: the call begins, the table of contents is written, the header's
\* fields replace the zeros, the last seek.
LEMMA FinishStep ==
    ASSUME IInv, Typing', Running', Finish \/ WriteHeaderField \/ SeekEnd
    PROVE  IInv'
<1>1. /\ \/ pc = "idle" /\ pc' = "finalign" /\ UNCHANGED hdr
         \/ pc = "header" /\ pc' \in {"header", "done"}
      /\ ~failed
      /\ UNCHANGED <<options, entries, chunks, offset, failed, cur, pos, disk, toc_offset>>
  BY DEF Finish, WriteHeaderField, SeekEnd, IInv, PhaseInv, Running,
         structVars, callVars, writerVars
<1>2. Running
  BY <1>1 DEF Running
<1>3. PhaseInv' /\ CursorInv'
  BY <1>1, <1>2 DEF IInv, PhaseInv, CursorInv, Padding
<1>4. ChunksInv' /\ EntriesInv'
  <2>1. PayloadEnd' = PayloadEnd
    BY <1>1 DEF PayloadEnd
  <2>2. EntryChunks' = EntryChunks
    BY <1>1 DEF EntryChunks, Adding
  <2>3. PayloadEnd <= PayloadEnd'
    BY <2>1, Types DEF PayloadEnd, IInv
  <2> QED
    BY <1>1, <1>2, <2>2, <2>3, TableFrame DEF IInv
<1>5. FullInv'
  BY <1>1, <1>2, FullFrame DEF IInv, FullInv, Adding
<1>6. DiskInv'
  <2>1. BodyComplete'
    BY <1>1, <1>2, BodyFrame DEF IInv, DiskInv
  <2>2. hdr' > 0 => pc = "header"
    BY <1>1 DEF IInv, PhaseInv
  <2> QED
    BY <1>1, <1>2, <2>1, <2>2 DEF IInv, DiskInv, HeaderCommitsBody
<1> QED
  BY <1>3, <1>4, <1>5, <1>6 DEF IInv

LEMMA WriteTocStep ==
    ASSUME IInv, Typing', Running', NEW toc_size \in TocSizes, WriteToc(toc_size)
    PROVE  IInv'
<1> DEFINE x == Extent(pos, toc_size, "toc", 0, 0, << >>)
<1>1. /\ pc = "toc" /\ pc' = "header" /\ ~failed /\ hdr = 0
      /\ toc_offset' = offset /\ offset' = offset + toc_size
      /\ pos' = pos + toc_size
      /\ disk' = disk \cup {x}
      /\ UNCHANGED <<options, entries, chunks, failed, cur, hdr>>
  BY DEF WriteToc, IInv, PhaseInv, Typing, TypeOK, Running
<1>2. Running
  BY <1>1 DEF Running
<1>3. /\ toc_size \in Nat /\ offset \in Nat /\ HEADER_SIZE \in Nat
      /\ offset >= HEADER_SIZE /\ pos = offset
  <2>1. toc_size \in Nat
    BY ConstantTypes DEF TocSizes, StoredLen, AEAD_OVERHEAD
  <2> QED
    BY <1>1, <1>2, <2>1, Types DEF IInv, CursorInv, Padding
<1>4. PhaseInv' /\ CursorInv'
  BY <1>1, <1>3 DEF IInv, PhaseInv, CursorInv, Padding
<1>5. ChunksInv' /\ EntriesInv'
  <2>1. PayloadEnd' = offset /\ PayloadEnd = offset
    BY <1>1 DEF PayloadEnd
  <2>2. EntryChunks' = EntryChunks
    BY <1>1 DEF EntryChunks, Adding
  <2> QED
    BY <1>1, <1>2, <1>3, <2>1, <2>2, TableFrame DEF IInv
<1>6. FullInv'
  BY <1>1, <1>2, FullFrame DEF IInv, FullInv, Adding
<1>7. x.kind = "toc" /\ x.at = toc_offset'
  BY <1>1, <1>3 DEF Extent
<1> HIDE DEF x
<1>8. BodyComplete'
  BY <1>1, <1>2, <1>7, BodyFrame DEF IInv, DiskInv
<1>9. DiskInv'
  BY <1>1, <1>7, <1>8 DEF DiskInv, HeaderCommitsBody
<1> QED
  BY <1>4, <1>5, <1>6, <1>9 DEF IInv

-----------------------------------------------------------------------------
LEMMA InitIInv == Init => IInv
<1> SUFFICES ASSUME Init PROVE IInv
  OBVIOUS
<1>1. Typing
  BY InitTyping
<1>2. ~Running /\ hdr = 0
  BY DEF Init, Running
<1>3. PhaseInv
  BY DEF Init, PhaseInv
<1> QED
  BY <1>1, <1>2, <1>3 DEF IInv, CursorInv, ChunksInv, EntriesInv, FullInv, DiskInv,
                          HeaderCommitsBody

LEMMA StutterStep ==
    ASSUME IInv, UNCHANGED vars
    PROVE  IInv'
<1>1. /\ UNCHANGED <<pc, options, entries, chunks, offset, failed>>
      /\ UNCHANGED <<cur, raw, remaining, toc_offset, stream, disk, pos, hdr>>
  BY DEF vars, structVars, callVars, readerVars, writerVars
<1>2. Typing'
  BY TypingStep DEF IInv
<1>3. PhaseInv'
  BY <1>1 DEF IInv, PhaseInv
<1>4. CursorInv'
  BY <1>1 DEF IInv, CursorInv, Running, Padding, Aligned
<1>5. Running' = Running /\ PayloadEnd' = PayloadEnd /\ EntryChunks' = EntryChunks
  BY <1>1 DEF Running, PayloadEnd, EntryChunks, Adding
<1>6. Toc' = Toc
  BY <1>1 DEF Toc, aead
<1>7. ChunksInv'
  BY <1>1, <1>5, <1>6 DEF IInv, ChunksInv
<1>8. EntriesInv'
  BY <1>1, <1>5 DEF IInv, EntriesInv
<1>9. FullInv'
  BY <1>1, <1>5, <1>6 DEF IInv, FullInv, Adding, Drained
<1>10. HeaderCommitsBody' = HeaderCommitsBody /\ BodyComplete' = BodyComplete
  BY <1>1 DEF HeaderCommitsBody, BodyComplete, StoredAt
<1>11. DiskInv'
  BY <1>1, <1>5, <1>10 DEF IInv, DiskInv
<1> QED
  BY <1>2, <1>3, <1>4, <1>7, <1>8, <1>9, <1>11 DEF IInv

LEMMA NextIInv == IInv /\ [Next]_vars => IInv'
<1> SUFFICES ASSUME IInv, [Next]_vars PROVE IInv'
  OBVIOUS
<1>0. Typing' /\ hdr \in Nat
  <2>1. Typing'
    BY TypingStep DEF IInv
  <2>2. hdr \in Nat
    BY DEF IInv, Typing, TypeOK
  <2> QED
    BY <2>1, <2>2
<1>1. CASE New
  BY <1>0, <1>1, NewStep
<1>2. CASE AddFails /\ UNCHANGED hdr /\ hdr = 0
  BY <1>0, <1>2, StopStep DEF AddFails, Running
<1>3. CASE pc' = "dead" /\ UNCHANGED <<hdr, chunks, toc_offset>> /\ (hdr > 0 => UNCHANGED disk)
  BY <1>0, <1>3, StopStep DEF Running
<1>4. ASSUME NEW p \in RawPaths, AddReader(p) PROVE IInv'
  BY <1>0, <1>4, AddReaderStep
<1>5. ASSUME NEW n \in 1 .. MAX_CHUNK_SIZE, ReadSome(n) PROVE IInv'
  BY <1>0, <1>5, ReadSomeStep
<1>6. CASE ReadEof
  BY <1>0, <1>6, ReadEofStep
<1>7. CASE EndOfEntry
  <2>1. CASE Len(entries') <= U32_MAX
    BY <1>0, <1>7, <2>1, EndOfEntryStep
  <2>2. CASE ~(Len(entries') <= U32_MAX)
    BY <1>2, <1>7, <2>2, <1>0 DEF EndOfEntry, IInv, PhaseInv, writerVars
  <2> QED
    BY <2>1, <2>2
<1>8. CASE Align \/ PadWrite
  BY <1>0, <1>8, AlignStep
<1>9. ASSUME NEW n \in 1 .. (Len(raw) + 1), Store(n) PROVE IInv'
  BY <1>0, <1>9, StoreStep
<1>10. ASSUME \/ \E p \in RawPaths : AddReaderRefused(p)
              \/ ReadFails \/ AlignFails
              \/ \E n \in 1 .. (Len(raw) + 1) : StoreTooLarge(n) \/ StoreFails(n)
       PROVE  IInv'
  <2>1. AddFails /\ UNCHANGED hdr /\ pc \notin {"header", "done", "dead"}
    BY <1>10 DEF AddReaderRefused, ReadFails, AlignFails, StoreTooLarge, StoreFails,
                 StoreChunk, writerVars
  <2> QED
    BY <1>0, <1>2, <2>1 DEF IInv, PhaseInv
<1>11. ASSUME NEW toc_size \in TocSizes, WriteToc(toc_size) PROVE IInv'
  <2>1. CASE Running'
    BY <1>0, <1>11, <2>1, WriteTocStep
  <2>2. CASE ~Running'
    <3>1. pc = "toc" /\ hdr = 0 /\ UNCHANGED <<hdr, failed>> /\ ~failed /\ pc' # "new"
      BY <1>0, <1>11 DEF WriteToc, IInv, PhaseInv
    <3> QED
      BY <1>0, <2>2, <3>1, StopStep DEF Running
  <2> QED
    BY <2>1, <2>2
<1>12. CASE Finish \/ WriteHeaderField \/ SeekEnd
  <2>1. CASE Running'
    BY <1>0, <1>12, <2>1, FinishStep
  <2>2. CASE ~Running'
    <3>1. pc' = "dead" /\ UNCHANGED <<hdr, chunks, toc_offset, disk>>
      BY <1>12, <2>2 DEF Finish, WriteHeaderField, SeekEnd, Running, IInv, PhaseInv,
                         structVars, callVars, writerVars
    <3> QED
      BY <1>3, <3>1
  <2> QED
    BY <2>1, <2>2
<1>13. CASE NewFails \/ FinishFails \/ Abandon
  <2>1. hdr > 0 => pc \in {"header", "done", "dead"}
    BY DEF IInv, PhaseInv
  <2> QED
    BY <1>3, <1>13, <2>1 DEF NewFails, FinishFails, Abandon, structVars, callVars, writerVars
<1>14. CASE Terminated \/ UNCHANGED vars
  BY <1>0, <1>14, StutterStep DEF Terminated
<1> QED
  BY <1>1, <1>4, <1>5, <1>6, <1>7, <1>8, <1>9, <1>10, <1>11, <1>12, <1>13, <1>14
     DEF Next, CallStep

\* A destination that has begun to look like an archive is one: whenever a
\* header field is written, table and chunks are whole and in their places.
THEOREM HeaderWrittenLast == Spec => []HeaderCommitsBody
<1>1. IInv => HeaderCommitsBody
  BY DEF IInv, DiskInv
<1> QED
  BY <1>1, InitIInv, NextIInv, PTL DEF Spec

\* What the invariant says of the tables when finish has returned.
LEMMA TablesWhenDone ==
    ASSUME IInv, pc = "done"
    PROVE  /\ ChunkTableOk(Toc) /\ EntriesInTable(Toc)
           /\ EntriesDisjoint(Toc) /\ NoOrphanChunk(Toc)
           /\ EofIsFinal => NonFinalChunksFull(Toc)
<1>1. Running /\ PayloadEnd = toc_offset /\ EntryChunks = Len(chunks)
  BY DEF IInv, PhaseInv, Running, PayloadEnd, EntryChunks, Adding
<1>2. ChunkTableOk(Toc)
  BY <1>1 DEF IInv, ChunksInv, ChunkTableOk, ChunkPlaced, Toc
<1>3. EntriesInTable(Toc)
  BY <1>1 DEF IInv, EntriesInv, EntriesInTable, Toc
<1>4. EntriesDisjoint(Toc)
  <2>0. \A i \in DOMAIN entries :
           /\ entries[i].first_chunk \in Nat /\ entries[i].chunk_count \in Nat
           /\ i \in Int
    BY Types DEF IInv
  <2>1. \A i, j \in DOMAIN entries :
           i < j => Owned(entries[i]) \cap Owned(entries[j]) = {}
    <3> SUFFICES ASSUME NEW i \in DOMAIN entries, NEW j \in DOMAIN entries, i < j
                 PROVE  Owned(entries[i]) \cap Owned(entries[j]) = {}
      OBVIOUS
    <3>1. entries[i].first_chunk + entries[i].chunk_count <= entries[j].first_chunk
      BY <1>1 DEF IInv, EntriesInv
    <3> QED
      BY <2>0, <3>1 DEF Owned
  <2>2. \A i, j \in DOMAIN entries : i # j => i < j \/ j < i
    BY <2>0
  <2> QED
    BY <2>1, <2>2 DEF EntriesDisjoint, Toc
<1>5. NoOrphanChunk(Toc)
  BY <1>1, Types DEF IInv, EntriesInv, NoOrphanChunk, Toc
<1>6. EofIsFinal => NonFinalChunksFull(Toc)
  BY <1>1 DEF IInv, FullInv
<1> QED
  BY <1>2, <1>3, <1>4, <1>5, <1>6

-----------------------------------------------------------------------------
(* What a finished archive holds: the sizes its entries declare, the paths  *)
(* they answer to, and every byte the readers delivered.                    *)

\* The chunks stored so far for the entry being added.
CurrentChunks == (cur.first_chunk + 1) .. Len(chunks)

SumInv ==
    Running =>
        /\ \A i \in DOMAIN entries :
              /\ entries[i].original_size = OriginalTotal(Toc, Owned(entries[i]))
              /\ entries[i].stored_size = StoredTotal(Toc, Owned(entries[i]))
        /\ Adding => /\ cur.original_total = OriginalTotal(Toc, CurrentChunks)
                     /\ cur.stored_total = StoredTotal(Toc, CurrentChunks)

\* Paths that a lookup can tell apart.
Distinct(p, q) == p # q /\ (strips_paths => PathHash[p] # PathHash[q])

\* seen_hashes knows every path, the one being added included, and all of
\* them can be told apart.
LookupInv ==
    Running =>
        /\ \A i \in DOMAIN entries : PathHash[entries[i].path] \in seen_hashes
        /\ \A i, j \in DOMAIN entries : i # j => Distinct(entries[i].path, entries[j].path)
        /\ Adding => /\ PathHash[cur.path] \in seen_hashes
                     /\ \A i \in DOMAIN entries : Distinct(cur.path, entries[i].path)

\* What a reader delivered is stored or in the buffer.
ServedInv ==
    /\ pc = "new" => served = << >> /\ raw = << >>
    /\ Running =>
          /\ pc = "idle" => raw = << >>
          /\ Len(served) = Len(entries)
          /\ \A i \in DOMAIN entries : entries[i].original_size = served[i]
          /\ Adding =>
                /\ stream.delivered = cur.original_total + Len(raw)
                /\ \A m \in 1 .. Len(raw) : raw[m] = cur.original_total + m

\* Chunk k holds its part of the stream of entry i, whose first chunk is f.
Holds(k, i, f) ==
    \E x \in StoredAt(k) :
        /\ x.entry = i
        /\ \A m \in 1 .. chunks[k].original_size :
              x.bytes[m] = (k - 1 - f) * options.chunk_size + m

BytesInv ==
    Running /\ EofIsFinal =>
        /\ \A i \in DOMAIN entries : \A k \in Owned(entries[i]) :
              Holds(k, i, entries[i].first_chunk)
        /\ Adding => \A k \in CurrentChunks : Holds(k, Len(entries) + 1, cur.first_chunk)

ContentInv == SumInv /\ LookupInv /\ ServedInv /\ BytesInv

\* A step that neither delivers bytes nor records any.
Calm ==
    /\ Running
    /\ UNCHANGED <<options, entries, chunks, seen_hashes, cur, raw, served>>
    /\ stream'.delivered = stream.delivered
    /\ Adding' => Adding
    /\ disk \subseteq disk'
    /\ pc' # "new" /\ (pc' = "idle" => pc = "idle")

LEMMA StepCases ==
    ASSUME Typing, [Next]_vars, Running'
    PROVE  \/ New
           \/ \E p \in RawPaths : AddReader(p)
           \/ \E n \in 1 .. MAX_CHUNK_SIZE : ReadSome(n)
           \/ \E n \in 1 .. (Len(raw) + 1) : Store(n)
           \/ EndOfEntry /\ pc' = "idle" /\ cur' = NoCall /\ UNCHANGED <<failed, raw>>
           \/ Calm
<1>1. stream \in [delivered : Nat, ended : BOOLEAN]
  BY DEF Typing, TypeOK
<1>2. CASE ReadEof
  BY <1>1, <1>2 DEF ReadEof, structVars, callVars, writerVars, Calm, Running, Adding
<1>3. CASE Align \/ PadWrite
  <2>1. /\ pc \in {"align", "finalign", "pad", "finpad"}
        /\ UNCHANGED <<options, entries, chunks, seen_hashes, cur, raw, stream, served, disk, failed>>
    BY <1>3 DEF Align, PadWrite, structVars, readerVars, writerVars
  <2>2. /\ pc \in {"finalign", "finpad"} => pc' \in {"finpad", "toc"}
        /\ pc' \notin {"new", "idle"}
    BY <1>3 DEF Align, PadWrite, AfterPad
  <2> QED
    BY <2>1, <2>2 DEF Calm, Running, Adding
<1>4. ASSUME NEW toc_size \in TocSizes, WriteToc(toc_size)
      PROVE  Calm
  BY <1>4 DEF WriteToc, readerVars, Calm, Running, Adding
<1>5. CASE Finish \/ WriteHeaderField \/ SeekEnd
  BY <1>5 DEF Finish, WriteHeaderField, SeekEnd, structVars, callVars, readerVars,
              writerVars, Calm, Running, Adding
<1>6. CASE NewFails \/ FinishFails \/ Abandon
  BY <1>6 DEF NewFails, FinishFails, Abandon, Running
<1>7. ASSUME \/ \E p \in RawPaths : AddReaderRefused(p)
             \/ ReadFails \/ AlignFails
             \/ \E n \in 1 .. (Len(raw) + 1) : StoreTooLarge(n) \/ StoreFails(n)
      PROVE  FALSE
  BY <1>7 DEF AddReaderRefused, ReadFails, AlignFails, StoreTooLarge, StoreFails,
              AddFails, Running
<1>8. CASE Terminated \/ UNCHANGED vars
  BY <1>8 DEF Terminated, vars, structVars, callVars, readerVars, writerVars, Calm,
              Running, Adding
<1>9. CASE EndOfEntry
  BY <1>9 DEF EndOfEntry, AddFails, Running
<1> QED
  BY <1>2, <1>3, <1>4, <1>5, <1>6, <1>7, <1>8, <1>9 DEF Next, CallStep

LEMMA NewContent ==
    ASSUME IInv, ContentInv, New
    PROVE  ContentInv'
<1>1. /\ pc' = "idle" /\ entries = << >> /\ served = << >> /\ UNCHANGED <<entries, served>>
  BY DEF New, IInv, PhaseInv, readerVars, ContentInv, ServedInv
<1>2. DOMAIN entries' = {} /\ ~Adding' /\ Len(entries') = 0 /\ Len(served') = 0
  BY <1>1 DEF Adding
<1> QED
  BY <1>1, <1>2 DEF ContentInv, SumInv, LookupInv, ServedInv, BytesInv, New, callVars

\* The chunks of the table, as a layout.
LEMMA ChunksOfToc ==
    ASSUME Typing
    PROVE  /\ Toc.chunks = chunks /\ Toc.entries = entries
           /\ HasChunks(Toc, Len(chunks))
<1>1. Toc.chunks = chunks /\ Toc.entries = entries
  BY DEF Toc
<1> QED
  BY <1>1, Types DEF HasChunks

\* A chunk that is stored stays stored.
LEMMA HoldsKept ==
    ASSUME NEW k \in DOMAIN chunks, NEW i, NEW f, Holds(k, i, f), chunks'[k] = chunks[k],
           options' = options, disk \subseteq disk'
    PROVE  Holds(k, i, f)'
<1>1. StoredAt(k) \subseteq StoredAt(k)'
  BY DEF StoredAt
<1> QED
  BY <1>1 DEF Holds

LEMMA OwnedInTable ==
    ASSUME IInv, Running
    PROVE  /\ \A i \in DOMAIN entries : Owned(entries[i]) \in SUBSET (1 .. Len(chunks))
           /\ Adding => CurrentChunks \in SUBSET (1 .. Len(chunks))
<1>1. /\ Len(chunks) \in Nat /\ cur.first_chunk \in Nat
      /\ \A i \in DOMAIN entries :
            entries[i].first_chunk \in Nat /\ entries[i].chunk_count \in Nat
  BY Types DEF IInv
<1>2. EntryChunks \in Nat /\ EntryChunks <= Len(chunks)
  BY <1>1 DEF IInv, Typing, CallInv, EntryChunks
<1>3. ASSUME NEW i \in DOMAIN entries
      PROVE  Owned(entries[i]) \in SUBSET (1 .. Len(chunks))
  <2>1. entries[i].first_chunk + entries[i].chunk_count <= EntryChunks
    BY DEF IInv, EntriesInv
  <2> QED
    BY <1>1, <1>2, <2>1 DEF Owned
<1>4. CurrentChunks \in SUBSET (1 .. Len(chunks))
  BY <1>1 DEF CurrentChunks
<1> QED
  BY <1>3, <1>4

LEMMA CalmContent ==
    ASSUME IInv, ContentInv, Calm
    PROVE  ContentInv'
<1>1. /\ UNCHANGED <<options, entries, chunks, seen_hashes, cur, raw, served>>
      /\ stream'.delivered = stream.delivered /\ (Adding' => Adding)
      /\ disk \subseteq disk' /\ Running
      /\ pc' # "new" /\ (pc' = "idle" => pc = "idle")
  BY DEF Calm
<1>2. \A K : /\ OriginalTotal(Toc', K) = OriginalTotal(Toc, K)
             /\ StoredTotal(Toc', K) = StoredTotal(Toc, K)
  BY <1>1 DEF OriginalTotal, StoredTotal, Toc
<1>3. CurrentChunks' = CurrentChunks
  BY <1>1 DEF CurrentChunks
<1>4. SumInv'
  BY <1>1, <1>2, <1>3 DEF ContentInv, SumInv
<1>5. LookupInv'
  BY <1>1 DEF ContentInv, LookupInv, Distinct, strips_paths
<1>6. ServedInv'
  BY <1>1 DEF ContentInv, ServedInv
<1>7. BytesInv'
  <2> SUFFICES ASSUME EofIsFinal
               PROVE  BytesInv'
    BY DEF BytesInv
  <2>1. DOMAIN chunks = 1 .. Len(chunks)
    BY Types DEF IInv
  <2>2. ASSUME NEW i \in DOMAIN entries, NEW k \in Owned(entries[i])
        PROVE  Holds(k, i, entries[i].first_chunk)'
    <3>1. k \in DOMAIN chunks
      BY <1>1, <2>1, OwnedInTable
    <3>2. Holds(k, i, entries[i].first_chunk)
      BY <1>1 DEF ContentInv, BytesInv
    <3> QED
      BY <1>1, <3>1, <3>2, HoldsKept
  <2>3. ASSUME Adding', NEW k \in CurrentChunks
        PROVE  Holds(k, Len(entries) + 1, cur.first_chunk)'
    <3>1. k \in DOMAIN chunks
      BY <1>1, <2>1, <2>3, OwnedInTable
    <3>2. Holds(k, Len(entries) + 1, cur.first_chunk)
      BY <1>1, <2>3 DEF ContentInv, BytesInv
    <3> QED
      BY <1>1, <3>1, <3>2, HoldsKept
  <2> QED
    BY <1>1, <1>3, <2>2, <2>3 DEF BytesInv
<1> QED
  BY <1>4, <1>5, <1>6, <1>7 DEF ContentInv

\* A call begins: its path can be told from those before it, and it has
\* stored nothing yet.
LEMMA AddReaderContent ==
    ASSUME IInv, ContentInv, NEW p \in RawPaths, AddReader(p)
    PROVE  ContentInv'
<1>1. /\ pc = "idle" /\ pc' = "read" /\ ~failed /\ ~PathRefused(p)
      /\ seen_hashes' = seen_hashes \cup {PathHash[Normalize[p]]}
      /\ cur'.path = Normalize[p] /\ cur'.first_chunk = Len(chunks)
      /\ cur'.original_total = 0 /\ cur'.stored_total = 0
      /\ stream'.delivered = 0
      /\ UNCHANGED <<options, entries, chunks, raw, served, disk>>
  BY DEF AddReader, NoCall, Unread, writerVars
<1>2. Running /\ Len(chunks) \in Nat /\ DOMAIN chunks = 1 .. Len(chunks)
  BY <1>1, Types DEF Running, IInv
<1>3. \A K : /\ OriginalTotal(Toc', K) = OriginalTotal(Toc, K)
             /\ StoredTotal(Toc', K) = StoredTotal(Toc, K)
  BY <1>1 DEF OriginalTotal, StoredTotal, Toc
<1>4. CurrentChunks' = {}
  BY <1>1, <1>2 DEF CurrentChunks
<1>5. SumInv'
  <2>1. OriginalTotal(Toc, {}) = 0 /\ StoredTotal(Toc, {}) = 0
    BY ChunksOfToc, TotalFacts DEF IInv
  <2>2. OriginalTotal(Toc', CurrentChunks') = 0 /\ StoredTotal(Toc', CurrentChunks') = 0
    BY <1>3, <1>4, <2>1
  <2> QED
    BY <1>1, <1>2, <1>3, <2>2 DEF ContentInv, SumInv
<1>6. LookupInv'
  <2>1. PICK q : q = Normalize[p]
    OBVIOUS
  <2>2. /\ \A i \in DOMAIN entries : PathHash[entries[i].path] \in seen_hashes
        /\ \A i, j \in DOMAIN entries : i # j => Distinct(entries[i].path, entries[j].path)
    BY <1>2 DEF ContentInv, LookupInv
  <2>3. ASSUME NEW i \in DOMAIN entries
        PROVE  Distinct(q, entries[i].path)
    BY <1>1, <2>1, <2>2 DEF PathRefused, Distinct
  <2>4. strips_paths' = strips_paths
    BY <1>1 DEF strips_paths
  <2>5. \A a, b : Distinct(a, b)' <=> Distinct(a, b)
    BY <2>4 DEF Distinct
  <2> QED
    BY <1>1, <2>1, <2>2, <2>3, <2>5 DEF LookupInv
<1>7. ServedInv'
  <2>1. raw = << >>
    BY <1>1, <1>2 DEF ContentInv, ServedInv
  <2>2. Len(raw') = 0
    BY <1>1, <2>1
  <2> QED
    BY <1>1, <1>2, <2>2 DEF ContentInv, ServedInv
<1>8. BytesInv'
  <2> SUFFICES ASSUME EofIsFinal
               PROVE  BytesInv'
    BY DEF BytesInv
  <2>1. ASSUME NEW i \in DOMAIN entries, NEW k \in Owned(entries[i])
        PROVE  Holds(k, i, entries[i].first_chunk)'
    <3>1. k \in DOMAIN chunks
      BY <1>2, OwnedInTable
    <3>2. Holds(k, i, entries[i].first_chunk)
      BY <1>2 DEF ContentInv, BytesInv
    <3> QED
      BY <1>1, <3>1, <3>2, HoldsKept
  <2> QED
    BY <1>1, <1>4, <2>1 DEF BytesInv
<1> QED
  BY <1>5, <1>6, <1>7, <1>8 DEF ContentInv

\* A reader.read continues the buffer where the stream is.
LEMMA ReadSomeContent ==
    ASSUME IInv, ContentInv, NEW n \in 1 .. MAX_CHUNK_SIZE, ReadSome(n)
    PROVE  ContentInv'
<1>1. /\ pc = "read" /\ pc' \in {"read", "align"} /\ n \in Nat
      /\ raw' = raw \o [i \in 1 .. n |-> stream.delivered + i]
      /\ stream' = [stream EXCEPT !.delivered = stream.delivered + n]
      /\ UNCHANGED <<options, entries, chunks, seen_hashes, cur, served, disk, failed>>
  BY ConstantTypes DEF ReadSome, structVars, writerVars
<1>2. Running /\ Adding /\ Adding' /\ Len(chunks) \in Nat /\ DOMAIN chunks = 1 .. Len(chunks)
  BY <1>1, Types DEF Running, IInv, PhaseInv, Adding
<1>3. \A K : /\ OriginalTotal(Toc', K) = OriginalTotal(Toc, K)
             /\ StoredTotal(Toc', K) = StoredTotal(Toc, K)
  BY <1>1 DEF OriginalTotal, StoredTotal, Toc
<1>4. CurrentChunks' = CurrentChunks
  BY <1>1 DEF CurrentChunks
<1>5. SumInv'
  BY <1>1, <1>2, <1>3, <1>4 DEF ContentInv, SumInv
<1>6. LookupInv'
  BY <1>1, <1>2 DEF ContentInv, LookupInv, Distinct, strips_paths
<1>7. ServedInv'
  <2>1. /\ stream \in [delivered : Nat, ended : BOOLEAN] /\ raw \in Seq(Nat)
        /\ cur.original_total \in Nat /\ Len(raw) \in Nat
    BY Types DEF IInv, Typing, TypeOK
  <2>2. /\ stream.delivered = cur.original_total + Len(raw)
        /\ \A m \in 1 .. Len(raw) : raw[m] = cur.original_total + m
        /\ Len(served) = Len(entries)
        /\ \A i \in DOMAIN entries : entries[i].original_size = served[i]
    BY <1>2 DEF ContentInv, ServedInv
  <2>3. PICK s : s = [i \in 1 .. n |-> stream.delivered + i]
    OBVIOUS
  <2>4. s \in Seq(Nat) /\ Len(s) = n /\ \A i \in 1 .. n : s[i] = stream.delivered + i
    <3>1. stream.delivered \in Nat
      BY <2>1
    <3>2. [i \in 1 .. n |-> stream.delivered + i] \in Seq(Nat)
      BY <1>1, <3>1
    <3>3. Len([i \in 1 .. n |-> stream.delivered + i]) = n
      BY <1>1, <3>1
    <3> QED
      BY <2>3, <3>2, <3>3
  <2>5. /\ Len(raw') = Len(raw) + n
        /\ \A m \in 1 .. (Len(raw) + n) :
              raw'[m] = IF m <= Len(raw) THEN raw[m] ELSE s[m - Len(raw)]
    <3>1. raw' = raw \o s
      BY <1>1, <2>3
    <3> QED
      BY <1>1, <2>1, <2>4, <3>1
  <2>6. \A m \in 1 .. Len(raw') : raw'[m] = cur'.original_total + m
    <3> SUFFICES ASSUME NEW m \in 1 .. (Len(raw) + n)
                 PROVE  raw'[m] = cur.original_total + m
      BY <1>1, <2>5
    <3>1. CASE m <= Len(raw)
      <4>1. m \in 1 .. Len(raw)
        BY <1>1, <2>1, <3>1
      <4> QED
        BY <2>2, <2>5, <3>1, <4>1
    <3>2. CASE ~(m <= Len(raw))
      <4>1. m - Len(raw) \in 1 .. n
        BY <1>1, <2>1, <3>2
      <4>2. raw'[m] = stream.delivered + (m - Len(raw))
        BY <2>4, <2>5, <3>2, <4>1
      <4>3. stream.delivered = cur.original_total + Len(raw)
        BY <2>2
      <4>4. cur.original_total \in Nat /\ Len(raw) \in Nat /\ m \in Nat
        BY <1>1, <2>1
      <4> QED
        BY <4>2, <4>3, <4>4
    <3> QED
      BY <3>1, <3>2
  <2>7. stream'.delivered = cur'.original_total + Len(raw')
    <3>1. stream'.delivered = stream.delivered + n
      BY <1>1, <2>1
    <3> QED
      BY <1>1, <2>1, <2>2, <2>5, <3>1
  <2> QED
    BY <1>1, <2>2, <2>6, <2>7 DEF ServedInv
<1>8. BytesInv'
  <2> SUFFICES ASSUME EofIsFinal
               PROVE  BytesInv'
    BY DEF BytesInv
  <2>1. ASSUME NEW i \in DOMAIN entries, NEW k \in Owned(entries[i])
        PROVE  Holds(k, i, entries[i].first_chunk)'
    <3>1. k \in DOMAIN chunks
      BY <1>2, OwnedInTable
    <3>2. Holds(k, i, entries[i].first_chunk)
      BY <1>2 DEF ContentInv, BytesInv
    <3> QED
      BY <1>1, <3>1, <3>2, HoldsKept
  <2>2. ASSUME NEW k \in CurrentChunks
        PROVE  Holds(k, Len(entries) + 1, cur.first_chunk)'
    <3>1. k \in DOMAIN chunks
      BY <1>2, OwnedInTable
    <3>2. Holds(k, Len(entries) + 1, cur.first_chunk)
      BY <1>2 DEF ContentInv, BytesInv
    <3> QED
      BY <1>1, <3>1, <3>2, HoldsKept
  <2> QED
    BY <1>1, <1>4, <2>1, <2>2 DEF BytesInv
<1> QED
  BY <1>5, <1>6, <1>7, <1>8 DEF ContentInv

\* A chunk is stored: it holds the buffer, which follows what was stored
\* before for the entry.
LEMMA StoreContent ==
    ASSUME IInv, Typing', ContentInv, NEW n \in 1 .. (Len(raw) + 1), Store(n)
    PROVE  ContentInv'
<1>1. PICK size : size = StoredLen(PayloadLen(n))
  OBVIOUS
<1>2. PICK c : c = ChunkRecord(n)
  OBVIOUS
<1>3. /\ pc = "store" /\ pc' = "read"
      /\ disk' = disk \cup {Extent(pos, size, "chunk", Len(chunks), Len(entries) + 1, raw)}
      /\ chunks' = Append(chunks, c) /\ raw' = << >>
      /\ cur' = [cur EXCEPT !.original_total = cur.original_total + Len(raw),
                            !.stored_total = cur.stored_total + size]
      /\ UNCHANGED <<options, entries, seen_hashes, failed, stream, served>>
  BY <1>1, <1>2 DEF Store, StoreChunk, readerVars
<1>4. /\ c.offset = offset /\ c.stored_size = size /\ c.original_size = Len(raw)
  BY <1>1, <1>2 DEF ChunkRecord
<1>5. /\ Running /\ Adding /\ Adding' /\ pos = offset
  BY <1>3 DEF IInv, PhaseInv, Running, Adding, CursorInv, Padding
<1>6. /\ Len(raw) \in Nat \ {0} /\ size \in Nat
  BY <1>1, <1>3, StoredFacts DEF IInv, Typing, CallInv
<1>7. /\ DOMAIN chunks' = 1 .. Len(chunks) + 1
      /\ DOMAIN chunks = 1 .. Len(chunks) /\ Len(chunks) \in Nat
      /\ Len(chunks') = Len(chunks) + 1
      /\ \A i \in DOMAIN chunks : chunks'[i] = chunks[i]
      /\ chunks'[Len(chunks) + 1] = c
  BY <1>3, Types DEF IInv
<1>8. /\ cur \in Call /\ cur.first_chunk \in Nat /\ cur.original_total \in Nat
      /\ cur.stored_total \in Nat /\ cur.first_chunk <= Len(chunks)
      /\ cur'.first_chunk = cur.first_chunk /\ cur'.path = cur.path
      /\ cur'.original_total = cur.original_total + Len(raw)
      /\ cur'.stored_total = cur.stored_total + size
  <2>1. cur \in Call /\ cur.first_chunk <= Len(chunks)
    BY <1>5 DEF IInv, Typing, TypeOK, CallInv
  <2> QED
    BY <1>3, <2>1 DEF Call
<1>9. /\ \A i \in DOMAIN entries : Owned(entries[i]) \in SUBSET (1 .. Len(chunks))
      /\ CurrentChunks \in SUBSET (1 .. Len(chunks))
  BY <1>5, OwnedInTable
<1>10. PICK last : last = Len(chunks) + 1
  OBVIOUS
<1>11. CurrentChunks' = CurrentChunks \cup {last} /\ last \notin CurrentChunks
  BY <1>7, <1>8, <1>10 DEF CurrentChunks
<1>12. SumInv'
  <2>1. PICK M : M = Toc
    OBVIOUS
  <2>2. PICK N : N = Toc'
    OBVIOUS
  <2>3. M.chunks = chunks /\ HasChunks(M, Len(chunks))
    BY <2>1, ChunksOfToc DEF IInv
  <2>4. N.chunks = chunks'
    BY <2>2 DEF Toc
  <2>5. HasChunks(N, last)
    <3>1. \A i \in DOMAIN chunks' : /\ chunks'[i].original_size \in Nat
                                    /\ chunks'[i].stored_size \in Nat
      <4>1. chunks' \in Seq(Chunk)
        BY DEF Typing, TypeOK
      <4>2. \A i \in DOMAIN chunks' : chunks'[i] \in Chunk
        BY <4>1
      <4> QED
        BY <4>2 DEF Chunk
    <3> QED
      BY <1>7, <1>10, <2>4, <3>1 DEF HasChunks
  <2>6. \A K \in SUBSET (1 .. Len(chunks)) :
           /\ OriginalTotal(N, K) = OriginalTotal(M, K)
           /\ StoredTotal(N, K) = StoredTotal(M, K)
    <3>1. HasChunks(M, Len(chunks)) /\ Len(chunks) <= last
      BY <1>7, <1>10, <2>3
    <3>2. \A k \in 1 .. Len(chunks) : N.chunks[k] = M.chunks[k]
      BY <1>7, <2>3, <2>4
    <3> QED
      BY <2>5, <3>1, <3>2, GrownTotals
  <2>7. /\ OriginalTotal(N, CurrentChunks \cup {last})
             = OriginalTotal(N, CurrentChunks) + c.original_size
        /\ StoredTotal(N, CurrentChunks \cup {last})
             = StoredTotal(N, CurrentChunks) + c.stored_size
    <3>1. CurrentChunks \in SUBSET (1 .. last) /\ last \in 1 .. last /\ N.chunks[last] = c
      BY <1>7, <1>9, <1>10, <2>4
    <3> QED
      BY <1>11, <2>5, <3>1, TotalFacts
  <2>8. /\ cur.original_total = OriginalTotal(M, CurrentChunks)
        /\ cur.stored_total = StoredTotal(M, CurrentChunks)
        /\ \A i \in DOMAIN entries :
              /\ entries[i].original_size = OriginalTotal(M, Owned(entries[i]))
              /\ entries[i].stored_size = StoredTotal(M, Owned(entries[i]))
    BY <1>5, <2>1 DEF ContentInv, SumInv
  <2>9. /\ cur'.original_total = OriginalTotal(N, CurrentChunks')
        /\ cur'.stored_total = StoredTotal(N, CurrentChunks')
    BY <1>4, <1>8, <1>9, <1>11, <2>6, <2>7, <2>8
  <2>10. \A i \in DOMAIN entries :
              /\ entries[i].original_size = OriginalTotal(N, Owned(entries[i]))
              /\ entries[i].stored_size = StoredTotal(N, Owned(entries[i]))
    BY <1>9, <2>6, <2>8
  <2> QED
    BY <1>3, <2>2, <2>9, <2>10 DEF SumInv
<1>13. LookupInv'
  BY <1>3, <1>5, <1>8 DEF ContentInv, LookupInv, Distinct, strips_paths
<1>14. ServedInv'
  <2>1. Len(raw') = 0
    BY <1>3
  <2>2. /\ stream.delivered = cur.original_total + Len(raw)
        /\ Len(served) = Len(entries)
        /\ \A i \in DOMAIN entries : entries[i].original_size = served[i]
    BY <1>5 DEF ContentInv, ServedInv
  <2>3. stream'.delivered = cur'.original_total + Len(raw')
    BY <1>3, <1>6, <1>8, <2>1, <2>2
  <2> QED
    BY <1>3, <2>1, <2>2, <2>3 DEF ServedInv
<1>15. BytesInv'
  <2> SUFFICES ASSUME EofIsFinal
               PROVE  BytesInv'
    BY DEF BytesInv
  <2>1. disk \subseteq disk'
    BY <1>3
  <2>2. ASSUME NEW i \in DOMAIN entries, NEW k \in Owned(entries[i])
        PROVE  Holds(k, i, entries[i].first_chunk)'
    <3>1. k \in DOMAIN chunks /\ chunks'[k] = chunks[k]
      BY <1>7, <1>9
    <3>2. Holds(k, i, entries[i].first_chunk)
      BY <1>5 DEF ContentInv, BytesInv
    <3> QED
      BY <1>3, <2>1, <3>1, <3>2, HoldsKept
  <2>3. ASSUME NEW k \in CurrentChunks
        PROVE  Holds(k, Len(entries) + 1, cur.first_chunk)'
    <3>1. k \in DOMAIN chunks /\ chunks'[k] = chunks[k]
      BY <1>7, <1>9
    <3>2. Holds(k, Len(entries) + 1, cur.first_chunk)
      BY <1>5 DEF ContentInv, BytesInv
    <3> QED
      BY <1>3, <1>8, <2>1, <3>1, <3>2, HoldsKept
  <2>4. Holds(last, Len(entries) + 1, cur.first_chunk)'
    <3>1. PICK x : x = Extent(pos, size, "chunk", Len(chunks), Len(entries) + 1, raw)
      OBVIOUS
    <3>2. /\ x.kind = "chunk" /\ x.at = c.offset /\ x.len = c.stored_size
          /\ x.index = last - 1 /\ x.entry = Len(entries) + 1 /\ x.bytes = raw
      BY <1>4, <1>5, <1>7, <1>10, <3>1 DEF Extent
    <3>3. x \in StoredAt(last)'
      BY <1>3, <1>7, <1>10, <3>1, <3>2 DEF StoredAt
    <3>4. cur.original_total = (Len(chunks) - cur.first_chunk) * options.chunk_size
      BY <1>3, <1>5 DEF IInv, FullInv, Drained
    <3>5. last - 1 - cur.first_chunk = Len(chunks) - cur.first_chunk
      BY <1>7, <1>8, <1>10
    <3>6. \A m \in 1 .. Len(raw) : raw[m] = cur.original_total + m
      BY <1>5 DEF ContentInv, ServedInv
    <3>7. \A m \in 1 .. chunks'[last].original_size :
             x.bytes[m] = (last - 1 - cur'.first_chunk) * options'.chunk_size + m
      BY <1>3, <1>4, <1>7, <1>8, <1>10, <3>2, <3>4, <3>5, <3>6
    <3> QED
      BY <1>3, <3>2, <3>3, <3>7 DEF Holds
  <2> QED
    BY <1>3, <1>8, <1>11, <2>2, <2>3, <2>4 DEF BytesInv
<1> QED
  BY <1>12, <1>13, <1>14, <1>15 DEF ContentInv

\* The entry is recorded with the chunks, the sizes and the path of the call.
LEMMA EndOfEntryContent ==
    ASSUME IInv, ContentInv, EndOfEntry, pc' = "idle", UNCHANGED <<failed, raw>>
    PROVE  ContentInv'
<1>1. PICK e : e = [path |-> cur.path, first_chunk |-> cur.first_chunk,
                    chunk_count |-> Len(chunks) - cur.first_chunk,
                    original_size |-> cur.original_total,
                    stored_size |-> cur.stored_total]
  OBVIOUS
<1>2. /\ pc = "read" /\ raw = << >> /\ raw' = << >>
      /\ entries' = Append(entries, e) /\ served' = Append(served, stream.delivered)
      /\ UNCHANGED <<options, chunks, seen_hashes, disk>>
  BY <1>1 DEF EndOfEntry, writerVars
<1>3. /\ e.path = cur.path /\ e.first_chunk = cur.first_chunk
      /\ e.chunk_count = Len(chunks) - cur.first_chunk
      /\ e.original_size = cur.original_total /\ e.stored_size = cur.stored_total
  BY <1>1
<1>4. Running /\ Adding /\ ~Adding'
  BY <1>2 DEF IInv, PhaseInv, Running, Adding
<1>5. /\ Len(chunks) \in Nat /\ DOMAIN chunks = 1 .. Len(chunks)
      /\ cur.first_chunk \in Nat /\ cur.original_total \in Nat
      /\ served \in Seq(Nat) /\ stream.delivered \in Nat
      /\ entries \in Seq(TocEntry)
  <2>1. stream \in [delivered : Nat, ended : BOOLEAN] /\ served \in Seq(Nat)
    BY DEF IInv, Typing, TypeOK
  <2> QED
    BY <2>1, Types DEF IInv
<1>6. /\ DOMAIN entries' = 1 .. Len(entries) + 1
      /\ DOMAIN entries = 1 .. Len(entries) /\ Len(entries) \in Nat
      /\ Len(entries') = Len(entries) + 1
      /\ \A i \in DOMAIN entries : entries'[i] = entries[i]
      /\ entries'[Len(entries) + 1] = e
  BY <1>2, <1>5
<1>7. Owned(e) = CurrentChunks
  <2>1. e.first_chunk + e.chunk_count = Len(chunks)
    BY <1>3, <1>5
  <2> QED
    BY <1>3, <2>1 DEF Owned, CurrentChunks
<1>8. \A K : /\ OriginalTotal(Toc', K) = OriginalTotal(Toc, K)
             /\ StoredTotal(Toc', K) = StoredTotal(Toc, K)
  BY <1>2 DEF OriginalTotal, StoredTotal, Toc
<1>9. SumInv'
  <2>1. /\ e.original_size = OriginalTotal(Toc, Owned(e))
        /\ e.stored_size = StoredTotal(Toc, Owned(e))
        /\ \A i \in DOMAIN entries :
              /\ entries[i].original_size = OriginalTotal(Toc, Owned(entries[i]))
              /\ entries[i].stored_size = StoredTotal(Toc, Owned(entries[i]))
    BY <1>3, <1>4, <1>7 DEF ContentInv, SumInv
  <2>2. ASSUME NEW i \in DOMAIN entries'
        PROVE  /\ entries'[i].original_size = OriginalTotal(Toc', Owned(entries'[i]))
               /\ entries'[i].stored_size = StoredTotal(Toc', Owned(entries'[i]))
    <3>1. CASE i \in DOMAIN entries
      BY <1>6, <1>8, <2>1, <3>1
    <3>2. CASE i = Len(entries) + 1
      BY <1>6, <1>8, <2>1, <3>2
    <3> QED
      BY <1>6, <3>1, <3>2
  <2> QED
    BY <1>4, <2>2 DEF SumInv
<1>10. LookupInv'
  <2>1. /\ \A i \in DOMAIN entries : PathHash[entries[i].path] \in seen_hashes
        /\ \A i, j \in DOMAIN entries : i # j => Distinct(entries[i].path, entries[j].path)
        /\ PathHash[e.path] \in seen_hashes
        /\ \A i \in DOMAIN entries : Distinct(e.path, entries[i].path)
    BY <1>3, <1>4 DEF ContentInv, LookupInv
  <2>2. \A a, b : (Distinct(a, b) <=> Distinct(b, a)) /\ (Distinct(a, b)' <=> Distinct(a, b))
    BY <1>2 DEF Distinct, strips_paths
  <2>3. \A i \in DOMAIN entries' : PathHash[entries'[i].path] \in seen_hashes'
    BY <1>2, <1>6, <2>1
  <2>4. \A i, j \in DOMAIN entries' : i # j => Distinct(entries'[i].path, entries'[j].path)
    <3> SUFFICES ASSUME NEW i \in DOMAIN entries', NEW j \in DOMAIN entries', i # j
                 PROVE  Distinct(entries'[i].path, entries'[j].path)
      OBVIOUS
    <3>1. CASE i \in DOMAIN entries /\ j \in DOMAIN entries
      BY <1>6, <2>1, <3>1
    <3>2. CASE i = Len(entries) + 1
      BY <1>6, <2>1, <3>2
    <3>3. CASE j = Len(entries) + 1
      BY <1>6, <2>1, <2>2, <3>3
    <3> QED
      BY <1>6, <3>1, <3>2, <3>3
  <2> QED
    BY <1>4, <2>2, <2>3, <2>4 DEF LookupInv
<1>11. ServedInv'
  <2>1. /\ Len(served) = Len(entries) /\ stream.delivered = cur.original_total + Len(raw)
        /\ \A i \in DOMAIN entries : entries[i].original_size = served[i]
    BY <1>4 DEF ContentInv, ServedInv
  <2>2. stream.delivered = e.original_size
    <3>1. Len(raw) = 0
      BY <1>2
    <3> QED
      BY <1>3, <1>5, <2>1, <3>1
  <2>3. /\ Len(served') = Len(entries) + 1
        /\ \A i \in 1 .. Len(entries) : served'[i] = served[i]
        /\ served'[Len(entries) + 1] = stream.delivered
    BY <1>2, <1>5, <2>1
  <2>4. \A i \in DOMAIN entries' : entries'[i].original_size = served'[i]
    BY <1>6, <2>1, <2>2, <2>3
  <2> QED
    BY <1>2, <1>4, <1>6, <2>3, <2>4 DEF ServedInv
<1>12. BytesInv'
  <2> SUFFICES ASSUME EofIsFinal
               PROVE  BytesInv'
    BY DEF BytesInv
  <2>1. disk \subseteq disk' /\ options' = options /\ chunks' = chunks
    BY <1>2
  <2>2. ASSUME NEW i \in DOMAIN entries', NEW k \in Owned(entries'[i]), NEW f,
               f = entries'[i].first_chunk
        PROVE  Holds(k, i, f)'
    <3>1. CASE i \in DOMAIN entries
      <4>1. k \in DOMAIN chunks
        BY <1>4, <1>5, <1>6, <2>2, <3>1, OwnedInTable
      <4>2. Holds(k, i, f)
        BY <1>4, <1>6, <2>2, <3>1 DEF ContentInv, BytesInv
      <4> QED
        BY <2>1, <4>1, <4>2, HoldsKept
    <3>2. CASE i = Len(entries) + 1
      <4>1. k \in CurrentChunks /\ f = cur.first_chunk
        BY <1>3, <1>6, <1>7, <2>2, <3>2
      <4>2. k \in DOMAIN chunks
        BY <1>4, <1>5, <4>1, OwnedInTable
      <4>3. Holds(k, i, f)
        BY <1>4, <3>2, <4>1 DEF ContentInv, BytesInv
      <4> QED
        BY <2>1, <4>2, <4>3, HoldsKept
    <3> QED
      BY <1>6, <3>1, <3>2
  <2> QED
    BY <1>4, <2>2 DEF BytesInv
<1> QED
  BY <1>9, <1>10, <1>11, <1>12 DEF ContentInv

\* A packer that stops or has not begun holds nothing to keep.
LEMMA StoppedContent ==
    ASSUME ContentInv, [Next]_vars, ~Running'
    PROVE  ContentInv'
<1>1. SumInv' /\ LookupInv' /\ BytesInv'
  BY DEF SumInv, LookupInv, BytesInv
<1>2. pc' = "new" => UNCHANGED vars
  BY DEF Next, CallStep, New, NewFails, AddReader, AddReaderRefused, ReadSome, ReadEof,
         EndOfEntry, ReadFails, Align, PadWrite, AlignFails, AfterPad, Store,
         StoreTooLarge, StoreFails, AddFails, WriteToc, WriteHeaderField, SeekEnd,
         FinishFails, Finish, Abandon, Terminated
<1>3. ServedInv'
  BY <1>2 DEF ContentInv, ServedInv, vars, callVars, readerVars
<1> QED
  BY <1>1, <1>3 DEF ContentInv

LEMMA ContentStep == IInv /\ ContentInv /\ [Next]_vars => ContentInv'
<1> SUFFICES ASSUME IInv, ContentInv, [Next]_vars
             PROVE  ContentInv'
  OBVIOUS
<1>1. Typing /\ Typing'
  BY TypingStep DEF IInv
<1>2. CASE ~Running'
  BY <1>2, StoppedContent
<1>3. CASE Running'
  <2>1. \/ New
        \/ \E p \in RawPaths : AddReader(p)
        \/ \E n \in 1 .. MAX_CHUNK_SIZE : ReadSome(n)
        \/ \E n \in 1 .. (Len(raw) + 1) : Store(n)
        \/ EndOfEntry /\ pc' = "idle" /\ cur' = NoCall /\ UNCHANGED <<failed, raw>>
        \/ Calm
    BY <1>1, <1>3, StepCases
  <2>2. CASE New
    BY <2>2, NewContent
  <2>3. ASSUME NEW p \in RawPaths, AddReader(p)
        PROVE  ContentInv'
    BY <2>3, AddReaderContent
  <2>4. ASSUME NEW n \in 1 .. MAX_CHUNK_SIZE, ReadSome(n)
        PROVE  ContentInv'
    BY <2>4, ReadSomeContent
  <2>5. ASSUME NEW n \in 1 .. (Len(raw) + 1), Store(n)
        PROVE  ContentInv'
    BY <1>1, <2>5, StoreContent
  <2>6. CASE EndOfEntry /\ pc' = "idle" /\ UNCHANGED <<failed, raw>>
    BY <2>6, EndOfEntryContent
  <2>7. CASE Calm
    BY <2>7, CalmContent
  <2> QED
    BY <2>1, <2>2, <2>3, <2>4, <2>5, <2>6, <2>7
<1> QED
  BY <1>2, <1>3

LEMMA ContentAlways == Spec => [](IInv /\ ContentInv)
<1>1. Init => ContentInv
  BY DEF Init, ContentInv, SumInv, LookupInv, ServedInv, BytesInv, Running
<1> QED
  BY <1>1, InitIInv, NextIInv, ContentStep, PTL DEF Spec

\* No two entries of an archive that finish reported as written answer to
\* the same lookup, whatever the hash function collides on.
THEOREM FinishedLookupsAreUnique == Spec => []LookupsUnique
<1>1. IInv /\ ContentInv => LookupsUnique
  <2> SUFFICES ASSUME IInv, ContentInv, pc = "done"
               PROVE  LookupsUnique
    BY DEF LookupsUnique
  <2>1. Running
    BY DEF IInv, PhaseInv, Running
  <2> QED
    BY <2>1 DEF ContentInv, LookupInv, Distinct, LookupsUnique
<1> QED
  BY <1>1, ContentAlways, PTL

\* What any reader leads to: when finish has returned, the tables are sound but
\* for short chunks inside an entry.
LEMMA SoundWhenDone == IInv /\ ContentInv => SoundForAnyReader
<1> SUFFICES ASSUME IInv, ContentInv, pc = "done"
             PROVE  SoundForAnyReader
  BY DEF SoundForAnyReader
<1>1. Running
  BY DEF IInv, PhaseInv, Running
<1>2. Toc.entries = entries
  BY DEF Toc
<1>3. EntrySizesMatch(Toc)
  BY <1>1, <1>2 DEF ContentInv, SumInv, EntrySizesMatch
<1> QED
  BY <1>3, TablesWhenDone DEF SoundForAnyReader

\* What finish reports as written, for any reader: chunks in their places, each
\* owned by one entry, and entries as large as their chunks.
THEOREM FinishedTablesAreSound == Spec => []SoundForAnyReader
  BY SoundWhenDone, ContentAlways, PTL

\* When Ok(0) from a reader is final, what finish reports as written is well
\* formed: by VerdictIsExact, validate_layout accepts it.
THEOREM FinishedArchivesAreWellFormed ==
    ASSUME EofIsFinal
    PROVE  Spec => []FinishedIsWellFormed
<1>1. IInv /\ ContentInv => FinishedIsWellFormed
  <2> SUFFICES ASSUME IInv, ContentInv, pc = "done"
               PROVE  WellFormed(Toc)
    BY DEF FinishedIsWellFormed
  <2>1. SoundForAnyReader
    BY SoundWhenDone
  <2>2. NonFinalChunksFull(Toc)
    BY TablesWhenDone
  <2> QED
    BY <2>1, <2>2 DEF SoundForAnyReader, WellFormed, EntryTableOk
<1> QED
  BY <1>1, ContentAlways, PTL

\* Byte b of a stream that is cut into full chunks of size c and a last one:
\* its chunk is one of them, and its place is in that chunk.
LEMMA BytePlace ==
    \A c, b, n, z \in Nat :
       1 <= c /\ 1 <= b /\ 1 <= n /\ z <= c /\ b <= (n - 1) * c + z =>
          /\ (b - 1) \div c \in 0 .. (n - 1)
          /\ (b - 1) % c \in 0 .. (c - 1)
          /\ ((b - 1) \div c) * c + (((b - 1) % c) + 1) = b
          /\ (b - 1) \div c = n - 1 => (b - 1) % c < z
<1> TAKE c, b, n, z \in Nat
<1> HAVE 1 <= c /\ 1 <= b /\ 1 <= n /\ z <= c /\ b <= (n - 1) * c + z
<1>1. PICK q : q = (b - 1) \div c
  OBVIOUS
<1>2. PICK r : r = (b - 1) % c
  OBVIOUS
<1>3. b - 1 = c * q + r /\ r \in 0 .. (c - 1) /\ q \in Int
  BY <1>1, <1>2, Division
<1>4. r \in Int /\ 0 <= r /\ r < c
  BY <1>3
<1>5. q >= 0
  <2>1. SUFFICES ASSUME q <= -1
                 PROVE  FALSE
    BY <1>3
  <2>2. c * q <= c * (-1)
    BY <1>3, <2>1
  <2> QED
    BY <1>3, <1>4, <2>2
<1>6. q <= n - 1
  <2>1. SUFFICES ASSUME q >= n
                 PROVE  FALSE
    BY <1>3
  <2>2. c * q >= c * n /\ c * n = (n - 1) * c + c
    BY <1>3, <2>1
  <2>3. (n - 1) * c \in Int /\ c * q \in Int
    BY <1>3
  <2> QED
    BY <1>3, <1>4, <2>2, <2>3
<1>7. q = n - 1 => r < z
  <2>1. SUFFICES ASSUME q = n - 1
                 PROVE  r < z
    OBVIOUS
  <2>2. c * q = (n - 1) * c /\ (n - 1) * c \in Int
    BY <1>3, <2>1
  <2> QED
    BY <1>3, <1>4, <2>2
<1>8. q * c + (r + 1) = b
  <2>1. q * c = c * q /\ c * q \in Int
    BY <1>3
  <2> QED
    BY <1>3, <1>4, <2>1
<1>9. q \in 0 .. (n - 1)
  BY <1>3, <1>5, <1>6
<1> QED
  BY <1>1, <1>2, <1>3, <1>7, <1>8, <1>9

\* When Ok(0) from a reader is final, every byte a reader delivered is where
\* a range read of the finished archive looks for it.
THEOREM FinishedBytesAreFound ==
    ASSUME EofIsFinal
    PROVE  Spec => []EveryByteFound
<1>1. IInv /\ ContentInv => EveryByteFound
  <2> SUFFICES ASSUME IInv, ContentInv, pc = "done", NEW i \in DOMAIN entries
               PROVE  /\ entries[i].original_size = served[i]
                      /\ \A b \in 1 .. served[i] :
                            \E x \in StoredAt(entries[i].first_chunk + 1
                                                + ((b - 1) \div options.chunk_size)) :
                               /\ x.entry = i
                               /\ x.bytes[((b - 1) % options.chunk_size) + 1] = b
    BY DEF EveryByteFound
  <2>1. Running
    BY DEF IInv, PhaseInv, Running
  <2>2. entries[i].original_size = served[i] /\ served[i] \in Nat
    <3>1. served \in Seq(Nat) /\ Len(served) = Len(entries) /\ DOMAIN entries = 1 .. Len(entries)
      BY <2>1, Types DEF IInv, Typing, TypeOK, ContentInv, ServedInv
    <3> QED
      BY <2>1, <3>1 DEF ContentInv, ServedInv
  <2>3. PICK f : f = entries[i].first_chunk
    OBVIOUS
  <2>4. PICK n : n = entries[i].chunk_count
    OBVIOUS
  <2>5. PICK c : c = options.chunk_size
    OBVIOUS
  <2>6. f \in Nat /\ n \in Nat /\ c \in Nat /\ c >= 1
    BY <2>1, <2>3, <2>4, <2>5, Types, OptionTypes DEF IInv, Typing, CallInv, Running
  <2>7. NonFinalChunksFull(Toc) /\ ClosedFormSizes(Toc) /\ Toc.entries = entries
        /\ Toc.chunks = chunks /\ Toc.chunk_size = c
    BY <2>1, <2>5 DEF IInv, FullInv, Toc
  <2>8. served[i] = IF n = 0 THEN 0 ELSE (n - 1) * c + chunks[f + n].original_size
    BY <2>2, <2>3, <2>4, <2>7 DEF ClosedFormSizes
  <2>9. Owned(entries[i]) = (f + 1) .. (f + n)
    BY <2>3, <2>4 DEF Owned
  <2>10. \A k \in (f + 1) .. (f + n) :
            /\ k \in DOMAIN chunks
            /\ chunks[k].original_size \in Nat /\ chunks[k].original_size <= c
            /\ k # f + n => chunks[k].original_size = c
            /\ Holds(k, i, f)
    <3> SUFFICES ASSUME NEW k \in (f + 1) .. (f + n)
                 PROVE  /\ k \in DOMAIN chunks
                        /\ chunks[k].original_size \in Nat /\ chunks[k].original_size <= c
                        /\ k # f + n => chunks[k].original_size = c
                        /\ Holds(k, i, f)
      OBVIOUS
    <3>1. k \in DOMAIN chunks /\ chunks[k].original_size \in Nat
      BY <2>1, <2>9, OwnedInTable, Types DEF IInv
    <3>2. chunks[k].original_size <= c
      <4>1. ChunkSizesOk(Toc, chunks[k])
        BY <2>1, <3>1 DEF IInv, ChunksInv
      <4> QED
        BY <2>6, <2>7, <3>1, <4>1 DEF ChunkSizesOk
    <3>3. k # f + n => chunks[k].original_size = c
      <4>1. k # f + n => k + 1 \in (f + 1) .. (f + n)
        BY <2>6
      <4> QED
        BY <2>7, <2>9, <4>1 DEF NonFinalChunksFull
    <3>4. Holds(k, i, f)
      BY <2>1, <2>3, <2>9 DEF ContentInv, BytesInv
    <3> QED
      BY <3>1, <3>2, <3>3, <3>4
  <2>11. ASSUME NEW b \in 1 .. served[i]
         PROVE  \E x \in StoredAt(f + 1 + ((b - 1) \div c)) :
                   x.entry = i /\ x.bytes[((b - 1) % c) + 1] = b
    <3>1. b \in Nat /\ b >= 1 /\ b <= served[i]
      BY <2>2
    <3>2. n >= 1 /\ f + n \in (f + 1) .. (f + n)
      BY <2>6, <2>8, <3>1
    <3>3. PICK z : z = chunks[f + n].original_size
      OBVIOUS
    <3>4. z \in Nat /\ z <= c /\ b <= (n - 1) * c + z
      BY <2>8, <2>10, <3>1, <3>2, <3>3
    <3>5. PICK q : q = (b - 1) \div c
      OBVIOUS
    <3>6. PICK r : r = (b - 1) % c
      OBVIOUS
    <3>7. /\ q \in 0 .. (n - 1) /\ r \in 0 .. (c - 1)
          /\ q * c + (r + 1) = b /\ (q = n - 1 => r < z)
      <4>1. /\ c \in Nat /\ b \in Nat /\ n \in Nat /\ z \in Nat
            /\ 1 <= c /\ 1 <= b /\ 1 <= n /\ z <= c /\ b <= (n - 1) * c + z
        BY <2>6, <3>1, <3>2, <3>4
      <4>2. /\ (b - 1) \div c \in 0 .. (n - 1)
            /\ (b - 1) % c \in 0 .. (c - 1)
            /\ ((b - 1) \div c) * c + (((b - 1) % c) + 1) = b
            /\ (b - 1) \div c = n - 1 => (b - 1) % c < z
        BY <4>1, BytePlace, Zenon
      <4> QED
        BY <3>5, <3>6, <4>2, Zenon
    <3>8. PICK k : k = f + 1 + q
      OBVIOUS
    <3>9. k \in (f + 1) .. (f + n) /\ k - 1 - f = q /\ (k = f + n <=> q = n - 1)
      BY <2>6, <3>2, <3>7, <3>8
    <3>10. r + 1 \in 1 .. chunks[k].original_size
      <4>1. CASE k = f + n
        BY <2>6, <3>3, <3>4, <3>7, <3>9, <4>1
      <4>2. CASE k # f + n
        <5>1. chunks[k].original_size = c
          BY <2>10, <3>9, <4>2
        <5> QED
          BY <2>6, <3>7, <5>1
      <4> QED
        BY <4>1, <4>2
    <3>11. PICK x \in StoredAt(k) :
              /\ x.entry = i
              /\ \A m \in 1 .. chunks[k].original_size : x.bytes[m] = (k - 1 - f) * c + m
      BY <2>5, <2>10, <3>9 DEF Holds
    <3>12. x.bytes[r + 1] = b
      BY <3>7, <3>9, <3>10, <3>11
    <3> QED
      BY <3>5, <3>6, <3>8, <3>11, <3>12
  <2> QED
    BY <2>2, <2>3, <2>5, <2>11
<1> QED
  BY <1>1, ContentAlways, PTL

-----------------------------------------------------------------------------
(* The packer on its writer, WriterStack: the buffer, the device's cursor   *)
(* and the header's twelve writes.                                         *)

Kinds == {"zeros", "field", "chunk", "toc"}
Items == [kind : Kinds, n : Nat, len : Nat \ {0}]
Pieces == [at : Nat, item : Items, whole : BOOLEAN]

StackTyping ==
    /\ capacity \in Nat
    /\ buf \in Seq(Items)
    /\ dev \in SUBSET Pieces
    /\ dpos \in Nat
    /\ position \in Nat
    /\ at_header \in BOOLEAN
    /\ broken \in BOOLEAN

\* What is on the device or will be when the buffer goes out.
Places == dev \cup Placed(buf)

\* The writer's cursor is where the packer appends until it goes back to the
\* start; without a buffer nothing is held back.
CursorAgrees ==
    /\ ~broken => position = dpos + Total(buf)
    /\ ~broken /\ ~at_header => position = pos
    /\ capacity = 0 => buf = << >>

\* After a failed write or seek the packer is failed or gone.
BrokenInv == broken => pc = "dead" \/ (pc = "idle" /\ failed)

\* Every chunk of the table is where the table says, or in the buffer on its
\* way there, and so is the table itself once it is written.
BodyPlaced ==
    /\ \A i \in DOMAIN chunks :
          Piece(chunks[i].offset, Item("chunk", i, chunks[i].stored_size), TRUE) \in Places
    /\ pc = "header" => \E n \in TocSizes : Piece(toc_offset, Item("toc", 0, n), TRUE) \in Places

\* How many header fields have left the buffer.
Sent == hdr - Len(buf)

\* Nothing of a header exists yet.
NoFields ==
    /\ \A x \in dev : x.item.kind # "field"
    /\ \A i \in 1 .. Len(buf) : buf[i].kind # "field"

\* The first m fields are on the device, each in its place, and at most a part
\* of the next one.
FieldsOut(m) ==
    /\ \A k \in 1 .. m : Whole(FieldAt(k), Field(k))
    /\ \A x \in dev : x.item.kind = "field" =>
          x.item.n <= m \/ (x.item.n = m + 1 /\ ~x.whole)

\* From the moment finish is back at the start the body is on the device, and
\* the fields leave the buffer in their order.
HeaderLeaves ==
    /\ pc \in {"header", "done", "dead"}
    /\ BodyOnDevice
    /\ Len(buf) <= hdr
    /\ FieldsOut(Sent)
    /\ \A i \in 1 .. Len(buf) : buf[i] = Field(Sent + i)
    /\ pc # "done" => dpos = FieldAt(Sent + 1)

HeaderInv ==
    /\ ~at_header => hdr = 0 /\ pc # "done" /\ NoFields
    /\ at_header => HeaderLeaves
    /\ pc = "done" => hdr = HEADER_FIELDS /\ buf = << >> /\ dpos = offset

StackInv ==
    /\ StackTyping
    /\ CursorAgrees
    /\ BrokenInv
    /\ Running => BodyPlaced
    /\ HeaderInv

-----------------------------------------------------------------------------
(* The lengths of writes in a row.                                         *)

\* The bytes of the first n items.
Before(s, n) == Total(SubSeq(s, 1, n))

LEMMA ItemFacts ==
    ASSUME NEW x \in Items
    PROVE  x.len \in Nat /\ x.len # 0 /\ x.kind \in Kinds /\ x.n \in Nat
  BY DEF Items

LEMMA PrefixFacts ==
    ASSUME NEW s \in Seq(Items), NEW n \in 0 .. Len(s)
    PROVE  /\ SubSeq(s, 1, n) \in Seq(Items)
           /\ Len(SubSeq(s, 1, n)) = n
           /\ \A i \in 1 .. n : SubSeq(s, 1, n)[i] = s[i]
<1>1. \A i \in 1 .. n : s[i] \in Items
  OBVIOUS
<1>2. n \in Int /\ 1 \in Int /\ n >= 0
  OBVIOUS
<1>3. /\ SubSeq(s, 1, n) \in Seq(Items)
      /\ Len(SubSeq(s, 1, n)) = IF 1 <= n THEN n - 1 + 1 ELSE 0
      /\ \A i \in 1 .. n - 1 + 1 : SubSeq(s, 1, n)[i] = s[1 + i - 1]
  BY <1>1, <1>2, SubSeqProperties
<1> QED
  BY <1>2, <1>3

\* Writes that begin alike have the same lengths there.
LEMMA BeforeAgrees ==
    ASSUME NEW s \in Seq(Items), NEW t \in Seq(Items),
           NEW n \in 0 .. Len(s), n <= Len(t), \A i \in 1 .. n : s[i] = t[i]
    PROVE  SubSeq(s, 1, n) = SubSeq(t, 1, n) /\ Before(s, n) = Before(t, n)
<1>1. n \in 0 .. Len(t)
  OBVIOUS
<1>2. /\ SubSeq(s, 1, n) \in Seq(Items) /\ SubSeq(t, 1, n) \in Seq(Items)
      /\ Len(SubSeq(s, 1, n)) = n /\ Len(SubSeq(t, 1, n)) = n
      /\ \A i \in 1 .. n : SubSeq(s, 1, n)[i] = SubSeq(t, 1, n)[i]
  BY <1>1, PrefixFacts
<1>3. SubSeq(s, 1, n) = SubSeq(t, 1, n)
  BY <1>2, SeqEqual
<1> QED
  BY <1>3 DEF Before

LEMMA TotalOneMore ==
    ASSUME NEW s \in Seq(Items), NEW t \in Seq(Items), Len(t) = Len(s) + 1,
           \A i \in 1 .. Len(s) : t[i] = s[i]
    PROVE  /\ Total(s) \in Nat
           /\ Total(t) = Total(s) + t[Len(s) + 1].len
<1> DEFINE n == Len(s)
           f == [i \in DOMAIN s |-> s[i].len]
           g == [i \in DOMAIN t |-> t[i].len]
<1>1. n \in Nat /\ DOMAIN s = 1 .. n /\ DOMAIN t = 1 .. n + 1
  OBVIOUS
<1>2. (\A i \in 1 .. n : s[i].len \in Nat) /\ (\A i \in 1 .. n + 1 : t[i].len \in Nat)
  <2>1. (\A i \in 1 .. n : s[i] \in Items) /\ (\A i \in 1 .. n + 1 : t[i] \in Items)
    BY <1>1
  <2> QED
    BY <2>1, ItemFacts
<1>3. f \in [1 .. n -> Nat] /\ g \in [1 .. n + 1 -> Nat]
  BY <1>1, <1>2
<1>4. (\A i \in 1 .. n : g[i] = f[i]) /\ g[n + 1] = t[n + 1].len
  BY <1>1
<1>5. SumFunction(f) \in Nat /\ SumFunction(g) = SumFunction(f) + g[n + 1]
  <2> HIDE DEF n, f, g
  <2> QED
    BY <1>1, <1>3, <1>4, SumOneMore
<1> QED
  BY <1>4, <1>5 DEF Total

LEMMA TotalEmpty == Total(<< >>) = 0
<1> DEFINE f == [i \in DOMAIN << >> |-> << >>[i].len]
<1>1. DOMAIN f = {}
  OBVIOUS
<1>2. SumFunctionOnSet(f, {}) = 0
  BY SumEmpty
<1>3. SumFunction(f) = 0
  <2> HIDE DEF f
  <2> QED
    BY <1>1, <1>2 DEF SumFunction
<1> QED
  BY <1>3 DEF Total

LEMMA BeforeStep ==
    ASSUME NEW s \in Seq(Items), NEW n \in Nat, n < Len(s)
    PROVE  /\ Before(s, n) \in Nat /\ s[n + 1].len \in Nat
           /\ Before(s, n + 1) = Before(s, n) + s[n + 1].len
<1> DEFINE p == SubSeq(s, 1, n)
           q == SubSeq(s, 1, n + 1)
<1>1. n \in 0 .. Len(s) /\ n + 1 \in 0 .. Len(s)
  OBVIOUS
<1>2. /\ p \in Seq(Items) /\ Len(p) = n /\ \A i \in 1 .. n : p[i] = s[i]
      /\ q \in Seq(Items) /\ Len(q) = n + 1 /\ \A i \in 1 .. n + 1 : q[i] = s[i]
  BY <1>1, PrefixFacts
<1>3. s[n + 1] \in Items
  OBVIOUS
<1>4. q[n + 1] = s[n + 1] /\ \A i \in 1 .. Len(p) : q[i] = p[i]
  BY <1>2
<1>5. Total(p) \in Nat /\ Total(q) = Total(p) + q[n + 1].len
  <2> HIDE DEF p, q
  <2> QED
    BY <1>2, <1>4, TotalOneMore
<1> QED
  BY <1>3, <1>4, <1>5, ItemFacts DEF Before

LEMMA BeforeFacts ==
    ASSUME NEW s \in Seq(Items)
    PROVE  /\ Before(s, 0) = 0
           /\ Before(s, Len(s)) = Total(s)
           /\ \A n \in 0 .. Len(s) : Before(s, n) \in Nat
           /\ Total(s) \in Nat
<1>1. Before(s, 0) = 0
  <2>1. SubSeq(s, 1, 0) = << >>
    BY 0 \in Int, 1 \in Int, 0 < 1, SubSeqEmpty
  <2> QED
    BY <2>1, TotalEmpty DEF Before
<1>2. Before(s, Len(s)) = Total(s)
  <2>1. Len(s) \in 0 .. Len(s)
    OBVIOUS
  <2>2. /\ SubSeq(s, 1, Len(s)) \in Seq(Items) /\ Len(SubSeq(s, 1, Len(s))) = Len(s)
        /\ \A i \in 1 .. Len(s) : SubSeq(s, 1, Len(s))[i] = s[i]
    BY <2>1, PrefixFacts
  <2>3. SubSeq(s, 1, Len(s)) = s
    BY <2>2, SeqEqual
  <2> QED
    BY <2>3 DEF Before
<1>3. ASSUME NEW n \in 0 .. Len(s) PROVE Before(s, n) \in Nat
  <2>1. CASE n = 0
    BY <1>1, <2>1
  <2>2. CASE n # 0
    <3>1. n - 1 \in Nat /\ n - 1 < Len(s) /\ (n - 1) + 1 = n
      BY <2>2
    <3>2. /\ Before(s, n - 1) \in Nat /\ s[(n - 1) + 1].len \in Nat
          /\ Before(s, (n - 1) + 1) = Before(s, n - 1) + s[(n - 1) + 1].len
      BY <3>1, BeforeStep
    <3> QED
      BY <3>1, <3>2
  <2> QED
    BY <2>1, <2>2
<1>4. Len(s) \in 0 .. Len(s)
  OBVIOUS
<1> QED
  BY <1>1, <1>2, <1>3, <1>4

\* The rest of the writes begins where the first n of them end.
LEMMA BeforeRest ==
    ASSUME NEW s \in Seq(Items), NEW t \in Seq(Items), NEW n \in Nat,
           n + Len(t) = Len(s), \A i \in 1 .. Len(t) : t[i] = s[n + i],
           NEW j \in 0 .. Len(t)
    PROVE  Before(s, n + j) = Before(s, n) + Before(t, j)
<1> DEFINE Bad == {k \in 0 .. Len(t) : Before(s, n + k) # Before(s, n) + Before(t, k)}
<1> SUFFICES ASSUME Bad # {} PROVE FALSE
  OBVIOUS
<1>1. Bad \in SUBSET Nat
  OBVIOUS
<1>2. PICK m \in Bad : \A k \in Bad : m <= k
  <2> HIDE DEF Bad
  <2> QED
    BY <1>1, SmallestNat
<1>3. m \in 0 .. Len(t) /\ Before(s, n + m) # Before(s, n) + Before(t, m)
  BY <1>2
<1>4. Before(s, n) \in Nat
  <2>1. n \in 0 .. Len(s)
    OBVIOUS
  <2> QED
    BY <2>1, BeforeFacts
<1>5. CASE m = 0
  <2>1. n + 0 = n /\ Before(t, 0) = 0
    BY BeforeFacts
  <2> QED
    BY <1>3, <1>4, <1>5, <2>1
<1>6. CASE m # 0
  <2> DEFINE k == m - 1
  <2>1. /\ k \in Nat /\ k < Len(t) /\ k + 1 = m /\ n + k \in Nat /\ n + k < Len(s)
        /\ (n + k) + 1 = n + m /\ k + 1 \in 1 .. Len(t) /\ n + (k + 1) = (n + k) + 1
    BY <1>3, <1>6
  <2>2. k \notin Bad
    BY <1>2, <1>3, <2>1
  <2>3. Before(s, n + k) = Before(s, n) + Before(t, k)
    BY <2>1, <2>2
  <2> HIDE DEF k, Bad
  <2>4. /\ Before(t, k) \in Nat /\ t[k + 1].len \in Nat
        /\ Before(t, k + 1) = Before(t, k) + t[k + 1].len
    BY <2>1, BeforeStep
  <2>5. Before(s, (n + k) + 1) = Before(s, n + k) + s[(n + k) + 1].len
    BY <2>1, BeforeStep
  <2>6. t[k + 1] = s[(n + k) + 1]
    BY <2>1
  <2> QED
    BY <1>3, <1>4, <2>1, <2>3, <2>4, <2>5, <2>6
<1> QED
  BY <1>5, <1>6

-----------------------------------------------------------------------------
(* The fields of the header.                                               *)

LEMMA FieldFacts ==
    ASSUME NEW k \in 1 .. HEADER_FIELDS
    PROVE  /\ FIELD_BYTES[k] \in Nat \ {0}
           /\ Field(k) \in Items
           /\ Field(k).n = k /\ Field(k).kind = "field" /\ Field(k).len = FIELD_BYTES[k]
<1>1. FIELD_BYTES[k] \in Nat \ {0}
  BY DEF FIELD_BYTES, HEADER_FIELDS
<1>2. Field(k) = [kind |-> "field", n |-> k, len |-> FIELD_BYTES[k]]
  BY DEF Field, Item
<1>3. k \in Nat
  BY DEF HEADER_FIELDS
<1> QED
  BY <1>1, <1>2, <1>3 DEF Items, Kinds

\* Each field begins where the one before it ends.
LEMMA FieldAtStep ==
    ASSUME NEW k \in 1 .. HEADER_FIELDS
    PROVE  FieldAt(k) \in Nat /\ FieldAt(k + 1) = FieldAt(k) + FIELD_BYTES[k]
<1> DEFINE n == k - 1
           f == [j \in 1 .. k - 1 |-> FIELD_BYTES[j]]
           g == [j \in 1 .. (k + 1) - 1 |-> FIELD_BYTES[j]]
<1>1. k \in Nat /\ n \in Nat /\ n + 1 = k /\ (k + 1) - 1 = n + 1 /\ k - 1 = n
  BY DEF HEADER_FIELDS
<1>2. \A j \in 1 .. n + 1 : FIELD_BYTES[j] \in Nat
  <2>1. \A j \in 1 .. n + 1 : j \in 1 .. HEADER_FIELDS
    BY <1>1 DEF HEADER_FIELDS
  <2> QED
    BY <2>1, FieldFacts
<1>3. f \in [1 .. n -> Nat] /\ g \in [1 .. n + 1 -> Nat]
  BY <1>1, <1>2
<1>4. (\A j \in 1 .. n : g[j] = f[j]) /\ g[n + 1] = FIELD_BYTES[k]
  BY <1>1
<1>5. SumFunction(f) \in Nat /\ SumFunction(g) = SumFunction(f) + g[n + 1]
  <2> HIDE DEF n, f, g
  <2> QED
    BY <1>1, <1>3, <1>4, SumOneMore
<1> QED
  BY <1>4, <1>5 DEF FieldAt

LEMMA FirstField == FieldAt(1) = 0
<1> DEFINE f == [j \in 1 .. 1 - 1 |-> FIELD_BYTES[j]]
<1>1. DOMAIN f = {}
  OBVIOUS
<1>2. SumFunctionOnSet(f, {}) = 0
  BY SumEmpty
<1>3. SumFunction(f) = 0
  <2> HIDE DEF f
  <2> QED
    BY <1>1, <1>2 DEF SumFunction
<1> QED
  BY <1>3 DEF FieldAt

\* The header's fields are HEADER_SIZE bytes.
LEMMA FieldsEnd ==
    ASSUME NEW k \in 1 .. HEADER_FIELDS
    PROVE  FieldAt(k) + FIELD_BYTES[k] <= HEADER_SIZE
<1>1. FieldAt(1) = 0
  BY FirstField
<1>2. /\ 1 \in 1 .. 12 /\ 2 \in 1 .. 12 /\ 3 \in 1 .. 12 /\ 4 \in 1 .. 12
      /\ 5 \in 1 .. 12 /\ 6 \in 1 .. 12 /\ 7 \in 1 .. 12 /\ 8 \in 1 .. 12
      /\ 9 \in 1 .. 12 /\ 10 \in 1 .. 12 /\ 11 \in 1 .. 12 /\ 12 \in 1 .. 12
  OBVIOUS
<1>3. \A j \in 1 .. 12 : FieldAt(j + 1) = FieldAt(j) + FIELD_BYTES[j]
  BY FieldAtStep DEF HEADER_FIELDS
<1>4. /\ FieldAt(2) = 4 /\ FieldAt(3) = 6 /\ FieldAt(4) = 8 /\ FieldAt(5) = 12
      /\ FieldAt(6) = 16 /\ FieldAt(7) = 20 /\ FieldAt(8) = 24
  BY <1>1, <1>2, <1>3 DEF FIELD_BYTES
<1>5. /\ FieldAt(9) = 28 /\ FieldAt(10) = 36 /\ FieldAt(11) = 44 /\ FieldAt(12) = 52
  BY <1>2, <1>3, <1>4 DEF FIELD_BYTES
<1>6. k \in {1, 2, 3, 4, 5, 6, 7, 8, 9, 10, 11, 12}
  BY DEF HEADER_FIELDS
<1> QED
  BY <1>1, <1>4, <1>5, <1>6 DEF FIELD_BYTES, HEADER_SIZE

\* Fields written in a row from field m + 1 on land in their places.
LEMMA FieldRun ==
    ASSUME NEW s \in Seq(Items), NEW m \in Nat, m + Len(s) <= HEADER_FIELDS,
           \A i \in 1 .. Len(s) : s[i] = Field(m + i), NEW n \in 0 .. Len(s)
    PROVE  FieldAt((m + n) + 1) = FieldAt(m + 1) + Before(s, n)
<1> DEFINE Bad == {k \in 0 .. Len(s) : FieldAt((m + k) + 1) # FieldAt(m + 1) + Before(s, k)}
<1> SUFFICES ASSUME Bad # {} PROVE FALSE
  OBVIOUS
<1>1. Bad \in SUBSET Nat
  OBVIOUS
<1>2. PICK b \in Bad : \A k \in Bad : b <= k
  <2> HIDE DEF Bad
  <2> QED
    BY <1>1, SmallestNat
<1>3. b \in 0 .. Len(s) /\ FieldAt((m + b) + 1) # FieldAt(m + 1) + Before(s, b)
  BY <1>2
<1>4. CASE b = 0
  <2>1. Before(s, 0) = 0 /\ (m + 0) + 1 = m + 1
    BY BeforeFacts
  <2>2. FieldAt(m + 1) \in Nat
    <3>1. CASE m = 0
      BY <3>1, FirstField
    <3>2. CASE m # 0
      <4>1. m \in 1 .. HEADER_FIELDS
        BY <3>2 DEF HEADER_FIELDS
      <4>2. FieldAt(m) \in Nat /\ FieldAt(m + 1) = FieldAt(m) + FIELD_BYTES[m]
        BY <4>1, FieldAtStep
      <4>3. FIELD_BYTES[m] \in Nat
        BY <4>1, FieldFacts
      <4> QED
        BY <4>2, <4>3
    <3> QED
      BY <3>1, <3>2
  <2> QED
    BY <1>3, <1>4, <2>1, <2>2
<1>5. CASE b # 0
  <2> DEFINE k == b - 1
  <2>1. /\ k \in Nat /\ k < Len(s) /\ k + 1 = b /\ k + 1 \in 1 .. Len(s)
        /\ (m + k) + 1 \in 1 .. HEADER_FIELDS /\ m + (k + 1) = (m + k) + 1
        /\ ((m + k) + 1) + 1 = (m + b) + 1
    BY <1>3, <1>5 DEF HEADER_FIELDS
  <2>2. k \notin Bad
    BY <1>2, <1>3, <2>1
  <2>3. FieldAt((m + k) + 1) = FieldAt(m + 1) + Before(s, k)
    BY <2>1, <2>2
  <2> HIDE DEF k, Bad
  <2>4. /\ FieldAt((m + k) + 1) \in Nat
        /\ FieldAt(((m + k) + 1) + 1) = FieldAt((m + k) + 1) + FIELD_BYTES[(m + k) + 1]
    BY <2>1, FieldAtStep
  <2>5. Before(s, k) \in Nat /\ Before(s, k + 1) = Before(s, k) + s[k + 1].len
    BY <2>1, BeforeStep
  <2>6. s[k + 1].len = FIELD_BYTES[(m + k) + 1] /\ s[k + 1].len \in Nat
    <3>1. s[k + 1] = Field((m + k) + 1)
      BY <2>1
    <3> QED
      BY <2>1, <3>1, FieldFacts
  <2>7. FieldAt(m + 1) \in Nat
    <3>1. m + 1 \in 1 .. HEADER_FIELDS
      BY <2>1 DEF HEADER_FIELDS
    <3> QED
      BY <3>1, FieldAtStep
  <2>8. FieldAt((m + b) + 1) = (FieldAt(m + 1) + Before(s, k)) + s[k + 1].len
    BY <2>1, <2>3, <2>4, <2>6
  <2>9. Before(s, b) = Before(s, k) + s[k + 1].len
    BY <2>1, <2>5
  <2> QED
    BY <1>3, <2>5, <2>6, <2>7, <2>8, <2>9
<1> QED
  BY <1>4, <1>5

-----------------------------------------------------------------------------
(* What a write, a flush and a failure do to the device.                   *)

\* The first n of the writes s, at the device's cursor.
Leading(s, n) == {Piece(dpos + Before(s, i - 1), s[i], TRUE) : i \in 1 .. n}

LEMMA PlacedIs ==
    ASSUME NEW s \in Seq(Items)
    PROVE  Placed(s) = Leading(s, Len(s))
<1>1. DOMAIN s = 1 .. Len(s)
  OBVIOUS
<1> QED
  BY <1>1 DEF Placed, Leading, Before

LEMMA LeadingAgrees ==
    ASSUME NEW s \in Seq(Items), NEW t \in Seq(Items), NEW n \in 0 .. Len(s),
           n <= Len(t), \A i \in 1 .. n : s[i] = t[i]
    PROVE  Leading(s, n) = Leading(t, n)
<1>1. ASSUME NEW i \in 1 .. n PROVE Before(s, i - 1) = Before(t, i - 1) /\ s[i] = t[i]
  <2>1. i - 1 \in 0 .. Len(s) /\ i - 1 <= Len(t) /\ \A j \in 1 .. i - 1 : s[j] = t[j]
    OBVIOUS
  <2> QED
    BY <2>1, BeforeAgrees
<1> QED
  BY <1>1 DEF Leading

LEMMA PlacedPrefix ==
    ASSUME NEW s \in Seq(Items), NEW n \in 0 .. Len(s)
    PROVE  Placed(SubSeq(s, 1, n)) = Leading(s, n)
<1> DEFINE p == SubSeq(s, 1, n)
<1>1. p \in Seq(Items) /\ Len(p) = n /\ \A i \in 1 .. n : p[i] = s[i]
  BY PrefixFacts
<1> HIDE DEF p
<1>2. Placed(p) = Leading(p, n)
  BY <1>1, PlacedIs
<1>3. Leading(p, n) = Leading(s, n)
  <2>1. n \in 0 .. Len(p) /\ n <= Len(s)
    BY <1>1
  <2> QED
    BY <1>1, <2>1, LeadingAgrees
<1> QED
  BY <1>2, <1>3 DEF p

\* The device takes the first n of the writes s, the buffer holds the rest.
Taken(s, n) ==
    /\ dev' = dev \cup Leading(s, n)
    /\ dpos' = dpos + Before(s, n)
    /\ buf' \in Seq(Items)
    /\ Len(buf') = Len(s) - n
    /\ \A i \in 1 .. Len(buf') : buf'[i] = s[n + i]

\* However much the device takes, everything is bound for the same place.
LEMMA TakenKeeps ==
    ASSUME NEW s \in Seq(Items), NEW n \in 0 .. Len(s), dpos \in Nat, Taken(s, n)
    PROVE  /\ dpos' \in Nat
           /\ dpos' + Total(buf') = dpos + Total(s)
           /\ dev \subseteq dev'
           /\ Places' = dev \cup Leading(s, Len(s))
<1>1. /\ dev' = dev \cup Leading(s, n) /\ dpos' = dpos + Before(s, n)
      /\ buf' \in Seq(Items) /\ Len(buf') = Len(s) - n
      /\ \A i \in 1 .. Len(buf') : buf'[i] = s[n + i]
      /\ n \in Nat /\ n + Len(buf') = Len(s)
  BY DEF Taken
<1>2. Before(s, n) \in Nat /\ Before(s, Len(s)) = Total(s) /\ Total(s) \in Nat
  BY BeforeFacts
<1>3. \A j \in 0 .. Len(buf') : Before(s, n + j) = Before(s, n) + Before(buf', j)
  BY <1>1, BeforeRest
<1>4. /\ Before(buf', Len(buf')) = Total(buf') /\ Total(buf') \in Nat
      /\ \A j \in 0 .. Len(buf') : Before(buf', j) \in Nat
  BY <1>1, BeforeFacts
<1>5. dpos' + Total(buf') = dpos + Total(s)
  <2>1. Len(buf') \in 0 .. Len(buf')
    BY <1>1
  <2>2. Before(s, Len(s)) = Before(s, n) + Before(buf', Len(buf'))
    BY <1>1, <1>3, <2>1
  <2> QED
    BY <1>1, <1>2, <1>4, <2>2
<1>6. Placed(buf)' = {Piece(dpos + Before(s, i - 1), s[i], TRUE) : i \in n + 1 .. Len(s)}
  <2>1. DOMAIN buf' = 1 .. Len(buf')
    BY <1>1
  <2>2. Placed(buf)' = {Piece(dpos' + Before(buf', i - 1), buf'[i], TRUE) : i \in 1 .. Len(buf')}
    BY <2>1 DEF Placed, Before
  <2>3. ASSUME NEW i \in 1 .. Len(buf')
        PROVE  /\ n + i \in n + 1 .. Len(s)
               /\ Piece(dpos' + Before(buf', i - 1), buf'[i], TRUE)
                     = Piece(dpos + Before(s, (n + i) - 1), s[n + i], TRUE)
    <3>1. i - 1 \in 0 .. Len(buf') /\ n + (i - 1) = (n + i) - 1 /\ n + i \in n + 1 .. Len(s)
      BY <1>1
    <3>2. dpos' + Before(buf', i - 1) = dpos + Before(s, (n + i) - 1)
      <4>1. Before(s, n + (i - 1)) = Before(s, n) + Before(buf', i - 1)
        BY <1>3, <3>1
      <4>2. Before(buf', i - 1) \in Nat
        BY <1>4, <3>1
      <4> QED
        BY <1>1, <1>2, <3>1, <4>1, <4>2
    <3> QED
      BY <1>1, <3>1, <3>2
  <2>4. ASSUME NEW k \in n + 1 .. Len(s)
        PROVE  k - n \in 1 .. Len(buf') /\ n + (k - n) = k
    BY <1>1
  <2> DEFINE A(i) == Piece(dpos' + Before(buf', i - 1), buf'[i], TRUE)
             B(k) == Piece(dpos + Before(s, k - 1), s[k], TRUE)
  <2>5. \A i \in 1 .. Len(buf') : n + i \in n + 1 .. Len(s) /\ A(i) = B(n + i)
    BY <2>3
  <2>6. \A k \in n + 1 .. Len(s) : k - n \in 1 .. Len(buf') /\ n + (k - n) = k
    BY <2>4
  <2>7. {A(i) : i \in 1 .. Len(buf')} = {B(k) : k \in n + 1 .. Len(s)}
    <3> HIDE DEF A, B
    <3> QED
      BY <2>5, <2>6
  <2> QED
    BY <2>2, <2>7
<1>7. Leading(s, n) \cup Placed(buf)' = Leading(s, Len(s))
  <2> DEFINE B(k) == Piece(dpos + Before(s, k - 1), s[k], TRUE)
  <2>1. (1 .. n) \cup (n + 1 .. Len(s)) = 1 .. Len(s)
    BY <1>1
  <2>2. {B(k) : k \in 1 .. n} \cup {B(k) : k \in n + 1 .. Len(s)} = {B(k) : k \in 1 .. Len(s)}
    <3> HIDE DEF B
    <3> QED
      BY <2>1
  <2> QED
    BY <1>6, <2>2 DEF Leading
<1> QED
  BY <1>1, <1>2, <1>5, <1>7 DEF Places

LEMMA AppendFacts ==
    ASSUME NEW s \in Seq(Items), NEW x \in Items
    PROVE  /\ Append(s, x) \in Seq(Items) /\ Len(Append(s, x)) = Len(s) + 1
           /\ \A i \in 1 .. Len(s) : Append(s, x)[i] = s[i]
           /\ Append(s, x)[Len(s) + 1] = x
           /\ s \o <<x>> = Append(s, x)
           /\ Total(Append(s, x)) = Total(s) + x.len
           /\ Leading(Append(s, x), Len(s) + 1)
                 = Leading(s, Len(s)) \cup {Piece(dpos + Total(s), x, TRUE)}
<1> DEFINE t == Append(s, x)
<1>1. /\ t \in Seq(Items) /\ Len(t) = Len(s) + 1
      /\ \A i \in 1 .. Len(s) : t[i] = s[i]
      /\ t[Len(s) + 1] = x
  OBVIOUS
<1>2. s \o <<x>> = t
  BY AppendIsConcat
<1>3. Len(s) \in Nat /\ Len(s) \in 0 .. Len(s) /\ Len(s) <= Len(t)
  BY <1>1
<1> HIDE DEF t
<1>4. Total(t) = Total(s) + x.len
  BY <1>1, TotalOneMore
<1>5. Leading(t, Len(s)) = Leading(s, Len(s))
  BY <1>1, <1>3, LeadingAgrees
<1>6. Before(t, Len(s)) = Total(s)
  <2>1. Before(s, Len(s)) = Before(t, Len(s))
    BY <1>1, <1>3, BeforeAgrees
  <2> QED
    BY <2>1, BeforeFacts
<1>7. Leading(t, Len(s) + 1) = Leading(t, Len(s)) \cup {Piece(dpos + Total(s), x, TRUE)}
  <2> DEFINE B(k) == Piece(dpos + Before(t, k - 1), t[k], TRUE)
             l == Len(s)
  <2>1. 1 .. l + 1 = (1 .. l) \cup {l + 1} /\ (l + 1) - 1 = l
    BY <1>3
  <2>2. B(l + 1) = Piece(dpos + Total(s), x, TRUE)
    BY <1>1, <1>6, <2>1
  <2>3. {B(k) : k \in 1 .. l + 1} = {B(k) : k \in 1 .. l} \cup {B(l + 1)}
    <3> HIDE DEF B, l
    <3> QED
      BY <2>1
  <2> QED
    BY <2>2, <2>3 DEF Leading
<1> QED
  BY <1>1, <1>2, <1>4, <1>5, <1>7 DEF t

\* Only an empty buffer has nothing to write.
LEMMA NothingBuffered ==
    ASSUME NEW s \in Seq(Items), Total(s) <= 0
    PROVE  s = << >>
<1> SUFFICES ASSUME s # << >> PROVE FALSE
  OBVIOUS
<1> DEFINE k == Len(s) - 1
<1>1. k \in Nat /\ k < Len(s) /\ k + 1 = Len(s) /\ s[k + 1] \in Items
  OBVIOUS
<1> HIDE DEF k
<1>2. Before(s, k) \in Nat /\ Before(s, k + 1) = Before(s, k) + s[k + 1].len
  BY <1>1, BeforeStep
<1>3. Before(s, Len(s)) = Total(s) /\ s[k + 1].len \in Nat /\ s[k + 1].len # 0
  BY <1>1, BeforeFacts, ItemFacts
<1> QED
  BY <1>1, <1>2, <1>3

LEMMA OutgoingIs ==
    ASSUME StackTyping, NEW item \in Items
    PROVE  /\ Flushes(item) /\ Bypasses(item) => Outgoing(item) = Append(buf, item)
           /\ Flushes(item) /\ ~Bypasses(item) => Outgoing(item) = buf
           /\ ~Flushes(item) /\ ~Bypasses(item) => Outgoing(item) = << >>
           /\ ~Flushes(item) /\ Bypasses(item) =>
                 buf = << >> /\ Outgoing(item) = Append(buf, item)
<1>1. buf \in Seq(Items) /\ capacity \in Nat /\ Total(buf) \in Nat
  BY BeforeFacts DEF StackTyping
<1>2. item.len \in Nat /\ item.len # 0 /\ <<item>> \in Seq(Items)
  BY ItemFacts
<1>3. buf \o <<item>> = Append(buf, item)
  BY <1>1, AppendFacts
<1>4. buf \o << >> = buf /\ << >> \o <<item>> = <<item>> /\ << >> \o << >> = << >>
  BY <1>1, <1>2, ConcatEmptySeq
<1>5. ASSUME ~Flushes(item), Bypasses(item) PROVE buf = << >>
  <2>1. Total(buf) <= 0
    BY <1>1, <1>2, <1>5 DEF Flushes, Bypasses, Spare
  <2> QED
    BY <1>1, <2>1, NothingBuffered
<1>6. buf = << >> => <<item>> = Append(buf, item)
  BY <1>3, <1>4
<1> QED
  BY <1>3, <1>4, <1>5, <1>6 DEF Outgoing

\* write_all through the BufWriter: some of what was buffered and the item go
\* out, in their order, and the rest is buffered.
LEMMA WriteTakes ==
    ASSUME StackTyping, capacity = 0 => buf = << >>, NEW item \in Items, Write(item)
    PROVE  /\ \E n \in 0 .. Len(Append(buf, item)) : Taken(Append(buf, item), n)
           /\ capacity' = 0 => buf' = << >>
<1> DEFINE s == Append(buf, item)
<1>1. buf \in Seq(Items) /\ capacity \in Nat /\ item.len \in Nat /\ item.len # 0
  BY ItemFacts DEF StackTyping
<1>2. /\ s \in Seq(Items) /\ Len(s) = Len(buf) + 1 /\ Len(buf) \in Nat
      /\ \A i \in 1 .. Len(buf) : s[i] = buf[i]
      /\ s[Len(buf) + 1] = item
  BY <1>1, AppendFacts
<1>3. /\ dev' = dev \cup Placed(Outgoing(item))
      /\ dpos' = dpos + Total(Outgoing(item))
      /\ capacity' = capacity
      /\ buf' = IF Bypasses(item) THEN (IF Flushes(item) THEN << >> ELSE buf)
                ELSE Append(IF Flushes(item) THEN << >> ELSE buf, item)
  BY DEF Write
<1>4. Before(s, Len(s)) = Total(s) /\ Before(s, 0) = 0 /\ Placed(s) = Leading(s, Len(s))
  BY <1>2, BeforeFacts, PlacedIs
<1> HIDE DEF s
<1>5. CASE Bypasses(item)
  <2>1. Outgoing(item) = s /\ buf' = << >>
    BY <1>3, <1>5, OutgoingIs DEF s
  <2>2. Len(s) - Len(s) = 0 /\ Len(s) \in 0 .. Len(s)
    BY <1>2
  <2>3. << >> \in Seq(Items) /\ Len(<< >>) = 0 /\ \A i \in 1 .. 0 : << >>[i] = s[Len(s) + i]
    OBVIOUS
  <2>4. Taken(s, Len(s))
    BY <1>3, <1>4, <2>1, <2>2, <2>3 DEF Taken
  <2> QED
    BY <2>1, <2>2, <2>4 DEF s
<1>6. CASE ~Bypasses(item) /\ Flushes(item)
  <2>1. Outgoing(item) = buf /\ buf' = Append(<< >>, item)
    BY <1>3, <1>6, OutgoingIs
  <2>2. Len(buf) \in 0 .. Len(s) /\ Len(s) - Len(buf) = 1
    BY <1>2
  <2>3. buf' \in Seq(Items) /\ Len(buf') = 1 /\ buf'[1] = item
    BY <2>1
  <2>4. Placed(buf) = Leading(s, Len(buf)) /\ Total(buf) = Before(s, Len(buf))
    <3>1. Placed(buf) = Leading(buf, Len(buf)) /\ Total(buf) = Before(buf, Len(buf))
      BY <1>1, PlacedIs, BeforeFacts
    <3>2. Len(buf) \in 0 .. Len(buf) /\ Len(buf) <= Len(s)
      BY <1>2
    <3> QED
      BY <1>1, <1>2, <3>1, <3>2, LeadingAgrees, BeforeAgrees
  <2>5. Taken(s, Len(buf))
    BY <1>2, <1>3, <2>1, <2>2, <2>3, <2>4 DEF Taken
  <2>6. capacity # 0
    BY <1>1, <1>6 DEF Bypasses
  <2> QED
    BY <1>3, <2>2, <2>5, <2>6 DEF s
<1>7. CASE ~Bypasses(item) /\ ~Flushes(item)
  <2>1. Outgoing(item) = << >> /\ buf' = s
    BY <1>3, <1>7, OutgoingIs DEF s
  <2>2. Placed(<< >>) = {} /\ Leading(s, 0) = {} /\ Total(<< >>) = 0
    BY TotalEmpty DEF Placed, Leading
  <2>3. 0 \in 0 .. Len(s) /\ Len(s) - 0 = Len(s) /\ \A i \in 1 .. Len(s) : 0 + i = i
    BY <1>2
  <2>4. Taken(s, 0)
    BY <1>2, <1>3, <1>4, <2>1, <2>2, <2>3 DEF Taken
  <2>5. capacity # 0
    BY <1>1, <1>7 DEF Bypasses
  <2> QED
    BY <1>3, <2>3, <2>4, <2>5 DEF s
<1> QED
  BY <1>5, <1>6, <1>7

\* A flush, by a seek or by dropping the writer: the device takes everything.
LEMMA FlushTakes ==
    ASSUME StackTyping, dev' = dev \cup Placed(buf), buf' = << >>
    PROVE  /\ dev' = Places /\ dev' = dev \cup Leading(buf, Len(buf))
           /\ buf' \in Seq(Items) /\ Len(buf') = 0 /\ Total(buf') = 0
           /\ Placed(buf)' = {} /\ Places' = Places
<1>1. buf \in Seq(Items)
  BY DEF StackTyping
<1>2. Placed(buf)' = {}
  BY DEF Placed
<1>3. dev' = Places /\ dev' = dev \cup Leading(buf, Len(buf))
  BY <1>1, PlacedIs DEF Places
<1>4. Places' = Places
  BY <1>2, <1>3 DEF Places
<1>5. buf' \in Seq(Items) /\ Len(buf') = 0
  OBVIOUS
<1>6. Total(buf') = 0
  BY TotalEmpty
<1> QED
  BY <1>2, <1>3, <1>4, <1>5, <1>6

\* A write_all or a seek fails after the device took the first n of the writes
\* s, and perhaps part of the next; what was buffered behind them stays there.
Cut(s, n) ==
    /\ n \in 0 .. Len(buf) /\ n <= Len(s)
    /\ \/ dev' = dev \cup Leading(s, n)
       \/ /\ n < Len(s)
          /\ dev' = dev \cup Leading(s, n)
                      \cup {Piece(dpos + Before(s, n), s[n + 1], FALSE)}
    /\ dpos' = dpos + Before(s, n)
    /\ buf' \in Seq(Items)
    /\ Len(buf') = Len(buf) - n
    /\ \A i \in 1 .. Len(buf') : buf'[i] = buf[n + i]
    /\ broken' = TRUE
    /\ UNCHANGED <<capacity, position>>

LEMMA BreaksCuts ==
    ASSUME StackTyping, NEW s \in Seq(Items), NEW n \in 0 .. Len(s),
           n <= Len(buf), Breaks(s, n)
    PROVE  Cut(s, n)
<1>1. buf \in Seq(Items) /\ Len(buf) \in Nat /\ n \in Nat
  BY DEF StackTyping
<1>2. Placed(SubSeq(s, 1, n)) = Leading(s, n) /\ Total(SubSeq(s, 1, n)) = Before(s, n)
  BY PlacedPrefix DEF Before
<1>3. /\ \/ dev' = dev \cup Leading(s, n)
         \/ /\ n < Len(s)
            /\ dev' = dev \cup Leading(s, n)
                        \cup {Piece(dpos + Before(s, n), s[n + 1], FALSE)}
      /\ dpos' = dpos + Before(s, n)
      /\ buf' = SubSeq(buf, n + 1, Len(buf))
      /\ broken' = TRUE
      /\ UNCHANGED <<capacity, position>>
  BY <1>2 DEF Breaks
<1>4. /\ buf' \in Seq(Items) /\ Len(buf') = Len(buf) - n
      /\ \A i \in 1 .. Len(buf') : buf'[i] = buf[n + i]
  <2>1. \A i \in n + 1 .. Len(buf) : buf[i] \in Items
    BY <1>1
  <2>2. n + 1 \in Int /\ Len(buf) \in Int
    BY <1>1
  <2>3. /\ SubSeq(buf, n + 1, Len(buf)) \in Seq(Items)
        /\ Len(SubSeq(buf, n + 1, Len(buf))) =
              IF n + 1 <= Len(buf) THEN Len(buf) - (n + 1) + 1 ELSE 0
        /\ \A i \in 1 .. Len(buf) - (n + 1) + 1 :
              SubSeq(buf, n + 1, Len(buf))[i] = buf[(n + 1) + i - 1]
    BY <2>1, <2>2, SubSeqProperties
  <2>4. Len(buf') = Len(buf) - n
    BY <1>1, <1>3, <2>3
  <2>5. ASSUME NEW i \in 1 .. Len(buf') PROVE buf'[i] = buf[n + i]
    <3>1. i \in 1 .. Len(buf) - (n + 1) + 1 /\ (n + 1) + i - 1 = n + i
      BY <1>1, <2>4
    <3> QED
      BY <1>3, <2>3, <3>1
  <2> QED
    BY <1>3, <2>3, <2>4, <2>5
<1>5. n \in 0 .. Len(buf) /\ n <= Len(s)
  BY <1>1
<1> QED
  BY <1>3, <1>4, <1>5, Zenon DEF Cut

LEMMA SeekFailsCuts ==
    ASSUME StackTyping, SeekFails
    PROVE  \E n \in 0 .. Len(buf) : Cut(buf, n)
<1>1. buf \in Seq(Items)
  BY DEF StackTyping
<1>2. PICK n \in 0 .. Len(buf) : Breaks(buf, n)
  BY DEF SeekFails
<1>3. n <= Len(buf)
  BY <1>1
<1> QED
  BY <1>1, <1>2, <1>3, BreaksCuts

LEMMA WriteFailsCuts ==
    ASSUME StackTyping, NEW item \in Items, WriteFails(item), ~PositionOverflows(item)
    PROVE  \E n \in 0 .. Len(buf) : Cut(Append(buf, item), n)
<1> DEFINE s == Append(buf, item)
<1>1. buf \in Seq(Items) /\ Len(buf) \in Nat
  BY DEF StackTyping
<1>2. /\ s \in Seq(Items) /\ Len(s) = Len(buf) + 1
      /\ \A i \in 1 .. Len(buf) : s[i] = buf[i]
  BY <1>1, AppendFacts
<1>3. PICK n \in 0 .. Len(Outgoing(item)) - 1 : Breaks(Outgoing(item), n)
  BY DEF WriteFails
<1>4. CASE Outgoing(item) = s
  <2>1. n \in 0 .. Len(s) /\ n <= Len(buf) /\ n \in 0 .. Len(buf)
    BY <1>1, <1>2, <1>3, <1>4
  <2>2. Breaks(s, n)
    BY <1>3, <1>4
  <2> HIDE DEF s
  <2>3. Cut(s, n)
    BY <1>2, <2>1, <2>2, BreaksCuts
  <2> QED
    BY <2>1, <2>3 DEF s
<1>5. CASE Outgoing(item) = buf
  <2>1. n \in 0 .. Len(buf) - 1 /\ n \in 0 .. Len(buf) /\ n <= Len(buf) /\ n < Len(s)
    BY <1>1, <1>2, <1>3, <1>5
  <2>2. Cut(buf, n)
    BY <1>1, <1>3, <1>5, <2>1, BreaksCuts
  <2> HIDE DEF s
  <2>3. Leading(buf, n) = Leading(s, n) /\ Before(buf, n) = Before(s, n)
    <3>1. n <= Len(s) /\ \A i \in 1 .. n : buf[i] = s[i]
      BY <1>1, <1>2, <2>1
    <3> QED
      BY <1>1, <1>2, <2>1, <3>1, LeadingAgrees, BeforeAgrees
  <2>4. buf[n + 1] = s[n + 1]
    BY <1>1, <1>2, <2>1
  <2>5. Cut(s, n)
    <3>1. n <= Len(s)
      BY <1>1, <1>2, <2>1
    <3> QED
      BY <2>1, <2>2, <2>3, <2>4, <3>1, Zenon DEF Cut
  <2> QED
    BY <2>1, <2>5 DEF s
<1>6. CASE Outgoing(item) = << >>
  BY <1>3, <1>6
<1> QED
  BY <1>4, <1>5, <1>6, OutgoingIs

-----------------------------------------------------------------------------
(* What those steps keep.                                                  *)

LEMMA LeadingTypes ==
    ASSUME StackTyping, NEW s \in Seq(Items), NEW n \in 0 .. Len(s)
    PROVE  /\ Leading(s, n) \in SUBSET Pieces
           /\ n < Len(s) => Piece(dpos + Before(s, n), s[n + 1], FALSE) \in Pieces
<1>1. dpos \in Nat /\ \A i \in 0 .. Len(s) : Before(s, i) \in Nat
  BY BeforeFacts DEF StackTyping
<1>2. ASSUME NEW a \in Nat, NEW x \in Items, NEW w \in BOOLEAN
      PROVE  Piece(a, x, w) \in Pieces
  BY DEF Piece, Pieces
<1>3. ASSUME NEW i \in 1 .. n PROVE Piece(dpos + Before(s, i - 1), s[i], TRUE) \in Pieces
  <2>1. i - 1 \in 0 .. Len(s) /\ s[i] \in Items
    OBVIOUS
  <2>2. dpos + Before(s, i - 1) \in Nat
    BY <1>1, <2>1
  <2> QED
    BY <1>2, <2>1, <2>2
<1>4. ASSUME n < Len(s) PROVE Piece(dpos + Before(s, n), s[n + 1], FALSE) \in Pieces
  <2>1. s[n + 1] \in Items
    BY <1>4
  <2>2. dpos + Before(s, n) \in Nat
    BY <1>1
  <2> QED
    BY <1>2, <2>1, <2>2
<1> QED
  BY <1>3, <1>4 DEF Leading

\* The items that reach the device are among those written.
LEMMA LeadingItems ==
    ASSUME NEW s, NEW n, NEW x \in Leading(s, n)
    PROVE  \E i \in 1 .. n : x = Piece(dpos + Before(s, i - 1), s[i], TRUE)
                              /\ x.item = s[i] /\ x.whole = TRUE
  BY DEF Leading, Piece

LEMMA NoFieldsKept ==
    ASSUME NEW s \in Seq(Items), NEW n \in 0 .. Len(s), NoFields,
           \A i \in 1 .. Len(s) : s[i].kind # "field",
           \/ dev' = dev \cup Leading(s, n)
           \/ /\ n < Len(s)
              /\ dev' = dev \cup Leading(s, n)
                          \cup {Piece(dpos + Before(s, n), s[n + 1], FALSE)}
    PROVE  \A x \in dev' : x.item.kind # "field"
<1>1. \A x \in Leading(s, n) : x.item.kind # "field"
  <2> TAKE x \in Leading(s, n)
  <2>1. PICK i \in 1 .. n : x.item = s[i]
    BY LeadingItems
  <2>2. i \in 1 .. Len(s)
    OBVIOUS
  <2> QED
    BY <2>1, <2>2
<1>2. ASSUME n < Len(s)
      PROVE  Piece(dpos + Before(s, n), s[n + 1], FALSE).item.kind # "field"
  <2>1. n + 1 \in 1 .. Len(s)
    BY <1>2
  <2>2. Piece(dpos + Before(s, n), s[n + 1], FALSE).item = s[n + 1]
    BY DEF Piece
  <2> QED
    BY <2>1, <2>2
<1> QED
  BY <1>1, <1>2 DEF NoFields

\* Fields that leave one after the other, however far they get.
LEMMA FieldsLeave ==
    ASSUME NEW s \in Seq(Items), NEW m \in Nat, m + Len(s) <= HEADER_FIELDS,
           \A i \in 1 .. Len(s) : s[i] = Field(m + i), NEW n \in 0 .. Len(s),
           dpos = FieldAt(m + 1), FieldsOut(m), dev \in SUBSET Pieces,
           \/ dev' = dev \cup Leading(s, n)
           \/ /\ n < Len(s)
              /\ dev' = dev \cup Leading(s, n)
                          \cup {Piece(dpos + Before(s, n), s[n + 1], FALSE)}
    PROVE  /\ FieldsOut(m + n)'
           /\ dpos + Before(s, n) = FieldAt((m + n) + 1)
<1>1. \A j \in 0 .. Len(s) : dpos + Before(s, j) = FieldAt((m + j) + 1)
  BY FieldRun
<1>2. ASSUME NEW i \in 1 .. Len(s)
      PROVE  m + i \in 1 .. HEADER_FIELDS /\ s[i].n = m + i /\ s[i].kind = "field"
  <2>1. m + i \in 1 .. HEADER_FIELDS
    BY DEF HEADER_FIELDS
  <2> QED
    BY <2>1, FieldFacts
<1>3. ASSUME NEW k \in 1 .. (m + n)
      PROVE  Piece(FieldAt(k), Field(k), TRUE) \in dev'
  <2>1. CASE k <= m
    <3>1. k \in 1 .. m
      BY <2>1
    <3> QED
      BY <3>1 DEF FieldsOut, Whole
  <2>2. CASE ~(k <= m)
    <3>1. PICK i \in 1 .. n : k = m + i
      <4>1. k - m \in 1 .. n /\ k = m + (k - m)
        BY <2>2
      <4> QED
        BY <4>1
    <3>2. i - 1 \in 0 .. Len(s) /\ (m + (i - 1)) + 1 = k /\ i \in 1 .. Len(s)
      BY <3>1
    <3>3. dpos + Before(s, i - 1) = FieldAt(k) /\ s[i] = Field(k)
      BY <1>1, <3>1, <3>2
    <3>4. Piece(dpos + Before(s, i - 1), s[i], TRUE) \in Leading(s, n)
      BY DEF Leading
    <3> QED
      BY <3>3, <3>4
  <2> QED
    BY <2>1, <2>2
<1>4. ASSUME NEW x \in dev', x.item.kind = "field"
      PROVE  x.item.n <= m + n \/ (x.item.n = (m + n) + 1 /\ ~x.whole)
  <2>1. CASE x \in dev
    <3>1. x.item.n <= m \/ (x.item.n = m + 1 /\ ~x.whole)
      BY <1>4, <2>1 DEF FieldsOut
    <3>2. x.item.n \in Nat
      BY <2>1 DEF Pieces, Items
    <3> QED
      BY <3>1, <3>2
  <2>2. CASE x \in Leading(s, n)
    <3>0. \E i \in 1 .. n : x.item = s[i]
      BY <2>2 DEF Leading, Piece
    <3>1. PICK i \in 1 .. n : x.item = s[i]
      BY <3>0
    <3>2. i \in 1 .. Len(s)
      OBVIOUS
    <3>3. x.item.n = m + i
      BY <1>2, <3>1, <3>2
    <3> QED
      BY <3>3
  <2>3. CASE n < Len(s) /\ x = Piece(dpos + Before(s, n), s[n + 1], FALSE)
    <3>1. n + 1 \in 1 .. Len(s) /\ m + (n + 1) = (m + n) + 1
      BY <2>3
    <3>2. x.item = s[n + 1] /\ x.whole = FALSE
      BY <2>3 DEF Piece
    <3> QED
      BY <1>2, <3>1, <3>2
  <2> QED
    BY <2>1, <2>2, <2>3
<1>5. FieldsOut(m + n)'
  BY <1>3, <1>4 DEF FieldsOut, Whole
<1> QED
  BY <1>1, <1>5

LEMMA BodyStays ==
    ASSUME BodyOnDevice, dev \subseteq dev', UNCHANGED <<chunks, toc_offset, options>>
    PROVE  BodyOnDevice'
<1>1. TocSizes' = TocSizes
  BY DEF TocSizes, StoredLen, aead
<1>2. \A i \in DOMAIN chunks :
         Piece(chunks[i].offset, Item("chunk", i, chunks[i].stored_size), TRUE) \in dev'
  BY DEF BodyOnDevice, Whole
<1>3. \E n \in TocSizes : Piece(toc_offset, Item("toc", 0, n), TRUE) \in dev'
  BY DEF BodyOnDevice, Whole
<1> QED
  BY <1>1, <1>2, <1>3 DEF BodyOnDevice, Whole

-----------------------------------------------------------------------------
(* The kinds of steps.                                                     *)

\* A step of the packer that does not reach the writer.
LEMMA QuietStep ==
    ASSUME StackInv, UNCHANGED <<devVars, at_header>>,
           UNCHANGED <<pos, hdr, chunks, toc_offset, options>>,
           pc' = "done" <=> pc = "done", pc' = "done" => offset' = offset,
           pc' = "header" => pc = "header",
           broken => pc' = "dead" \/ (pc' = "idle" /\ failed'),
           Running' => Running,
           at_header => pc' \in {"header", "done", "dead"}
    PROVE  StackInv'
<1>1. UNCHANGED <<capacity, buf, dev, dpos, position, broken, at_header>>
  BY DEF devVars
<1>2. StackTyping'
  BY <1>1 DEF StackInv, StackTyping
<1>3. CursorAgrees'
  BY <1>1 DEF StackInv, CursorAgrees
<1>4. BrokenInv'
  BY <1>1 DEF BrokenInv
<1>5. Running' => BodyPlaced'
  <2>1. Places' = Places /\ TocSizes' = TocSizes
    BY <1>1 DEF Places, Placed, TocSizes, StoredLen, aead
  <2> QED
    BY <2>1 DEF StackInv, BodyPlaced
<1>6. HeaderInv'
  <2>1. ~at_header' => hdr' = 0 /\ pc' # "done" /\ NoFields'
    BY <1>1 DEF StackInv, HeaderInv, NoFields
  <2>2. ASSUME at_header PROVE HeaderLeaves'
    <3>1. HeaderLeaves
      BY <2>2 DEF StackInv, HeaderInv
    <3>2. BodyOnDevice'
      BY <1>1, <3>1, BodyStays DEF HeaderLeaves
    <3>3. Sent' = Sent
      BY <1>1 DEF Sent
    <3>4. FieldsOut(Sent)'
      BY <1>1, <3>1, <3>3 DEF HeaderLeaves, FieldsOut, Whole
    <3>5. \A i \in 1 .. Len(buf') : buf'[i] = Field(Sent' + i)
      BY <1>1, <3>1, <3>3 DEF HeaderLeaves
    <3>6. pc' # "done" => dpos' = FieldAt(Sent' + 1)
      BY <1>1, <3>1, <3>3 DEF HeaderLeaves
    <3> QED
      BY <1>1, <2>2, <3>1, <3>2, <3>3, <3>4, <3>5, <3>6 DEF HeaderLeaves
  <2>3. pc' = "done" => hdr' = HEADER_FIELDS /\ buf' = << >> /\ dpos' = offset'
    BY <1>1 DEF StackInv, HeaderInv
  <2> QED
    BY <1>1, <2>1, <2>2, <2>3 DEF HeaderInv
<1> QED
  BY <1>2, <1>3, <1>4, <1>5, <1>6 DEF StackInv

\* A write_all of something that is not a header field.
LEMMA AppendStep ==
    ASSUME StackInv, NEW item \in Items, item.kind # "field", Write(item),
           ~at_header, ~broken, UNCHANGED <<at_header, hdr>>, pc' # "done",
           pos' = pos + item.len,
           Running' =>
              /\ \A i \in DOMAIN chunks' :
                    Piece(chunks'[i].offset, Item("chunk", i, chunks'[i].stored_size), TRUE)
                       \in Places \cup {Piece(position, item, TRUE)}
              /\ pc' = "header" =>
                    \E n \in TocSizes' : Piece(toc_offset', Item("toc", 0, n), TRUE)
                                            \in Places \cup {Piece(position, item, TRUE)}
    PROVE  StackInv'
<1> DEFINE s == Append(buf, item)
<1>1. /\ StackTyping /\ CursorAgrees /\ HeaderInv
      /\ capacity = 0 => buf = << >>
      /\ buf \in Seq(Items) /\ dpos \in Nat /\ position \in Nat
      /\ position = dpos + Total(buf) /\ position = pos /\ NoFields /\ hdr = 0
  BY DEF StackInv, StackTyping, CursorAgrees, HeaderInv
<1>2. /\ s \in Seq(Items) /\ Len(s) = Len(buf) + 1
      /\ \A i \in 1 .. Len(buf) : s[i] = buf[i]
      /\ s[Len(buf) + 1] = item
      /\ Total(s) = Total(buf) + item.len
      /\ Leading(s, Len(buf) + 1) = Leading(buf, Len(buf)) \cup {Piece(dpos + Total(buf), item, TRUE)}
  BY <1>1, AppendFacts
<1>3. /\ position' = position + item.len /\ UNCHANGED <<capacity, broken>>
  BY DEF Write
<1>4. /\ \E n \in 0 .. Len(s) : Taken(s, n)
      /\ capacity' = 0 => buf' = << >>
  BY <1>1, WriteTakes
<1> HIDE DEF s
<1>5. PICK n \in 0 .. Len(s) : Taken(s, n)
  BY <1>4
<1>6. /\ dpos' \in Nat /\ dpos' + Total(buf') = dpos + Total(s)
      /\ Places' = dev \cup Leading(s, Len(s))
  BY <1>1, <1>2, <1>5, TakenKeeps
<1>7. Places' = Places \cup {Piece(position, item, TRUE)}
  <2>1. Placed(buf) = Leading(buf, Len(buf))
    BY <1>1, PlacedIs
  <2>2. Leading(s, Len(s)) = Placed(buf) \cup {Piece(position, item, TRUE)}
    BY <1>1, <1>2, <2>1
  <2>3. Places = dev \cup Placed(buf)
    BY DEF Places
  <2> QED
    BY <1>6, <2>2, <2>3
<1>8. item.len \in Nat /\ Total(buf) \in Nat
  BY <1>1, ItemFacts, BeforeFacts
<1>9. StackTyping'
  <2>1. Leading(s, n) \in SUBSET Pieces
    BY <1>1, <1>2, LeadingTypes
  <2>2. dev' \in SUBSET Pieces /\ buf' \in Seq(Items)
    BY <1>1, <1>5, <2>1 DEF Taken, StackTyping
  <2> QED
    BY <1>1, <1>3, <1>6, <1>8, <2>2 DEF StackTyping
<1>10. CursorAgrees'
  <2>1. position' = dpos' + Total(buf')
    BY <1>1, <1>2, <1>3, <1>6, <1>8
  <2>2. position' = pos'
    BY <1>1, <1>3
  <2> QED
    BY <1>4, <2>1, <2>2 DEF CursorAgrees
<1>11. BrokenInv'
  BY <1>3 DEF BrokenInv
<1>12. Running' => BodyPlaced'
  BY <1>7 DEF BodyPlaced
<1>13. HeaderInv'
  <2>1. ASSUME NEW i \in 1 .. Len(s) PROVE s[i].kind # "field"
    <3>1. CASE i \in 1 .. Len(buf)
      BY <1>1, <1>2, <3>1 DEF NoFields
    <3>2. CASE i = Len(buf) + 1
      BY <1>2, <3>2
    <3> QED
      BY <1>1, <1>2, <3>1, <3>2
  <2>2. \A x \in dev' : x.item.kind # "field"
    BY <1>1, <1>2, <1>5, <2>1, NoFieldsKept DEF Taken
  <2>3. ASSUME NEW i \in 1 .. Len(buf') PROVE buf'[i].kind # "field"
    <3>1. buf'[i] = s[n + i] /\ n + i \in 1 .. Len(s)
      BY <1>2, <1>5 DEF Taken
    <3> QED
      BY <2>1, <3>1
  <2> QED
    BY <1>1, <2>2, <2>3 DEF HeaderInv, NoFields
<1> QED
  BY <1>9, <1>10, <1>11, <1>12, <1>13 DEF StackInv

\* A write_all or a seek that fails.
LEMMA CutStep ==
    ASSUME StackInv, NEW s \in Seq(Items), NEW n, Cut(s, n), hdr \in Nat,
           UNCHANGED <<at_header, hdr, chunks, toc_offset, options>>,
           pc' = "dead" \/ (pc' = "idle" /\ failed' /\ ~at_header),
           ~at_header => \A i \in 1 .. Len(s) : s[i].kind # "field",
           at_header => /\ pc # "done"
                        /\ \A i \in 1 .. Len(s) : s[i] = Field(Sent + i)
                        /\ Sent + Len(s) <= HEADER_FIELDS
    PROVE  StackInv'
<1>1. /\ StackTyping /\ CursorAgrees /\ HeaderInv
      /\ buf \in Seq(Items) /\ dpos \in Nat /\ dev \in SUBSET Pieces /\ Len(buf) \in Nat
  BY DEF StackInv, StackTyping
<1>2. /\ n \in 0 .. Len(buf) /\ n <= Len(s)
      /\ \/ dev' = dev \cup Leading(s, n)
         \/ /\ n < Len(s)
            /\ dev' = dev \cup Leading(s, n)
                        \cup {Piece(dpos + Before(s, n), s[n + 1], FALSE)}
      /\ dpos' = dpos + Before(s, n)
      /\ buf' \in Seq(Items)
      /\ Len(buf') = Len(buf) - n
      /\ \A i \in 1 .. Len(buf') : buf'[i] = buf[n + i]
      /\ broken' = TRUE
      /\ UNCHANGED <<capacity, position>>
  BY DEF Cut
<1>3. n \in 0 .. Len(s) /\ n \in Nat
  BY <1>1, <1>2
<1>4. StackTyping'
  <2>1. Before(s, n) \in Nat
    BY <1>3, BeforeFacts
  <2>2. /\ Leading(s, n) \in SUBSET Pieces
        /\ n < Len(s) => Piece(dpos + Before(s, n), s[n + 1], FALSE) \in Pieces
    BY <1>1, <1>3, LeadingTypes
  <2>3. dev' \in SUBSET Pieces
    BY <1>1, <1>2, <2>2
  <2>4. dpos' \in Nat
    BY <1>1, <1>2, <2>1
  <2> QED
    BY <1>1, <1>2, <2>3, <2>4 DEF StackTyping
<1>5. CursorAgrees'
  <2>1. ASSUME capacity = 0 PROVE buf' = << >>
    <3>1. buf = << >>
      BY <1>1, <2>1 DEF CursorAgrees
    <3>2. Len(buf') = 0
      BY <1>1, <1>2, <1>3, <3>1
    <3> QED
      BY <1>2, <3>2
  <2> QED
    BY <1>2, <2>1 DEF CursorAgrees
<1>6. BrokenInv' /\ ~Running'
  BY DEF BrokenInv, Running
<1>7. HeaderInv'
  <2>1. CASE ~at_header
    <3>1. NoFields /\ hdr = 0
      BY <1>1, <2>1 DEF HeaderInv
    <3>2. \A x \in dev' : x.item.kind # "field"
      BY <1>2, <1>3, <2>1, <3>1, NoFieldsKept
    <3>3. ASSUME NEW i \in 1 .. Len(buf') PROVE buf'[i].kind # "field"
      <4>1. buf'[i] = buf[n + i] /\ n + i \in 1 .. Len(buf)
        BY <1>1, <1>2, <1>3
      <4> QED
        BY <3>1, <4>1 DEF NoFields
    <3> QED
      BY <2>1, <3>1, <3>2, <3>3 DEF HeaderInv, NoFields
  <2>2. CASE at_header
    <3>1. HeaderLeaves /\ pc' = "dead"
      BY <1>1, <2>2 DEF HeaderInv
    <3>2. /\ Len(buf) <= hdr /\ FieldsOut(Sent) /\ dpos = FieldAt(Sent + 1)
          /\ \A i \in 1 .. Len(buf) : buf[i] = Field(Sent + i)
          /\ BodyOnDevice
      BY <2>2, <3>1 DEF HeaderLeaves
    <3>3. PICK m \in Nat : m = Sent /\ m = hdr - Len(buf)
      <4>1. hdr - Len(buf) \in Nat
        BY <1>1, <3>2
      <4>2. Sent = hdr - Len(buf)
        BY DEF Sent
      <4> QED
        BY <4>1, <4>2
    <3>4. /\ m + Len(s) <= HEADER_FIELDS /\ dpos = FieldAt(m + 1) /\ FieldsOut(m)
          /\ \A i \in 1 .. Len(s) : s[i] = Field(m + i)
          /\ \A i \in 1 .. Len(buf) : buf[i] = Field(m + i)
      BY <2>2, <3>2, <3>3
    <3>5. FieldsOut(m + n)' /\ dpos' = FieldAt((m + n) + 1)
      BY <1>1, <1>2, <1>3, <3>4, FieldsLeave
    <3>6. Sent' = m + n /\ Len(buf') <= hdr'
      BY <1>1, <1>2, <1>3, <3>2, <3>3 DEF Sent
    <3>7. ASSUME NEW i \in 1 .. Len(buf') PROVE buf'[i] = Field(Sent' + i)
      <4>1. buf'[i] = buf[n + i] /\ n + i \in 1 .. Len(buf) /\ m + (n + i) = (m + n) + i
        BY <1>1, <1>2, <1>3
      <4> QED
        BY <3>4, <3>6, <4>1
    <3>8. BodyOnDevice'
      <4>1. dev \subseteq dev'
        BY <1>2
      <4> QED
        BY <3>2, <4>1, BodyStays
    <3>9. FieldsOut(Sent)' /\ dpos' = FieldAt(Sent' + 1)
      BY <3>5, <3>6 DEF FieldsOut
    <3>10. HeaderLeaves'
      BY <3>1, <3>6, <3>7, <3>8, <3>9 DEF HeaderLeaves
    <3> QED
      BY <2>2, <3>1, <3>10 DEF HeaderInv
  <2> QED
    BY <2>1, <2>2
<1> QED
  BY <1>4, <1>5, <1>6, <1>7 DEF StackInv

\* finish seeks to the start: the body leaves the buffer.
LEMMA SeekStartStep ==
    ASSUME StackInv, IInv, SeekStart
    PROVE  StackInv'
<1>1. /\ pc = "header" /\ ~at_header /\ at_header' /\ UNCHANGED vars
      /\ dev' = dev \cup Placed(buf) /\ buf' = << >> /\ dpos' = 0 /\ position' = 0
      /\ UNCHANGED <<capacity, broken>>
  BY DEF SeekStart, Seek
<1>2. at_header' = TRUE
  BY DEF SeekStart
<1>3. UNCHANGED <<pc, options, chunks, failed, toc_offset, offset, pos, hdr>>
  BY <1>1 DEF vars, structVars, callVars, writerVars
<1>4. Running /\ ~broken
  BY <1>1 DEF IInv, PhaseInv, Running, StackInv, BrokenInv
<1>5. StackTyping /\ CursorAgrees /\ BodyPlaced /\ NoFields /\ hdr = 0 /\ buf \in Seq(Items)
  BY <1>1, <1>4 DEF StackInv, HeaderInv, StackTyping
<1>6. /\ dev' = Places /\ dev' = dev \cup Leading(buf, Len(buf))
      /\ buf' \in Seq(Items) /\ Len(buf') = 0 /\ Total(buf') = 0 /\ Places' = Places
  BY <1>1, <1>5, FlushTakes
<1>7. TocSizes' = TocSizes
  BY <1>3 DEF TocSizes, StoredLen, aead
<1>8. BodyPlaced'
  BY <1>3, <1>5, <1>6, <1>7 DEF BodyPlaced
<1>9. BodyOnDevice'
  BY <1>1, <1>3, <1>5, <1>6, <1>7 DEF BodyPlaced, BodyOnDevice, Whole
<1>10. Len(buf) \in 0 .. Len(buf)
  BY <1>5
<1>11. StackTyping'
  <2>1. Leading(buf, Len(buf)) \in SUBSET Pieces
    BY <1>5, <1>10, LeadingTypes
  <2>2. dev' \in SUBSET Pieces
    BY <1>5, <1>6, <2>1 DEF StackTyping
  <2> QED
    BY <1>1, <1>2, <1>5, <1>6, <2>2 DEF StackTyping
<1>12. CursorAgrees'
  BY <1>1, <1>6 DEF CursorAgrees
<1>13. HeaderInv'
  <2>1. \A x \in dev' : x.item.kind # "field"
    BY <1>5, <1>6, <1>10, NoFieldsKept DEF NoFields
  <2>2. Sent' = 0
    BY <1>3, <1>5, <1>6 DEF Sent
  <2>3. FieldsOut(Sent)' /\ dpos' = FieldAt(Sent' + 1)
    BY <1>1, <2>1, <2>2, FirstField DEF FieldsOut
  <2>4. HeaderLeaves'
    BY <1>1, <1>3, <1>5, <1>6, <1>9, <2>3 DEF HeaderLeaves
  <2> QED
    BY <1>1, <1>3, <2>4 DEF HeaderInv
<1>14. BrokenInv'
  BY <1>1, <1>4 DEF BrokenInv
<1> QED
  BY <1>8, <1>11, <1>12, <1>13, <1>14 DEF StackInv

LEMMA HdrTypes ==
    ASSUME IInv
    PROVE  hdr \in Nat /\ hdr <= HEADER_FIELDS /\ HEADER_FIELDS = 12 /\ offset \in Nat
<1>1. hdr \in 0 .. HEADER_FIELDS /\ offset \in 0 .. U64_MAX
  BY DEF IInv, Typing, TypeOK
<1>2. HEADER_FIELDS = 12 /\ U64_MAX \in Nat
  BY ConstantTypes DEF HEADER_FIELDS
<1> QED
  BY <1>1, <1>2

\* Where the header's writes stand while finish writes it or has failed to.
LEMMA SentFacts ==
    ASSUME StackInv, IInv, at_header
    PROVE  /\ HeaderLeaves /\ StackTyping /\ CursorAgrees
           /\ buf \in Seq(Items) /\ Len(buf) \in Nat /\ dpos \in Nat /\ dev \in SUBSET Pieces
           /\ \E m \in Nat : /\ m = Sent /\ m = hdr - Len(buf) /\ FieldsOut(m)
                             /\ \A i \in 1 .. Len(buf) : buf[i] = Field(m + i)
                             /\ pc # "done" => dpos = FieldAt(m + 1)
<1>1. /\ HeaderLeaves /\ StackTyping /\ CursorAgrees
      /\ buf \in Seq(Items) /\ Len(buf) \in Nat /\ dpos \in Nat /\ dev \in SUBSET Pieces
  BY DEF StackInv, HeaderInv, StackTyping
<1>2. Len(buf) <= hdr /\ hdr \in Nat
  BY <1>1, HdrTypes DEF HeaderLeaves
<1>3. Sent \in Nat /\ Sent = hdr - Len(buf)
  BY <1>1, <1>2 DEF Sent
<1>4. /\ FieldsOut(Sent)
      /\ \A i \in 1 .. Len(buf) : buf[i] = Field(Sent + i)
      /\ pc # "done" => dpos = FieldAt(Sent + 1)
  BY <1>1 DEF HeaderLeaves
<1> QED
  BY <1>1, <1>3, <1>4

\* The next field joins the row.
LEMMA FieldJoins ==
    ASSUME StackInv, IInv, at_header, hdr < HEADER_FIELDS
    PROVE  /\ Field(hdr + 1) \in Items /\ Append(buf, Field(hdr + 1)) \in Seq(Items)
           /\ Len(Append(buf, Field(hdr + 1))) = Len(buf) + 1
           /\ \A i \in 1 .. Len(buf) + 1 : Append(buf, Field(hdr + 1))[i] = Field(Sent + i)
           /\ Sent + (Len(buf) + 1) = hdr + 1
<1>1. /\ buf \in Seq(Items) /\ Len(buf) \in Nat
      /\ \A i \in 1 .. Len(buf) : buf[i] = Field(Sent + i)
      /\ Sent = hdr - Len(buf) /\ Sent \in Nat
  BY SentFacts DEF HeaderLeaves
<1>2. Field(hdr + 1) \in Items
  <2>1. hdr + 1 \in 1 .. HEADER_FIELDS
    BY HdrTypes
  <2> QED
    BY <2>1, FieldFacts
<1> DEFINE s == Append(buf, Field(hdr + 1))
<1>3. /\ s \in Seq(Items) /\ Len(s) = Len(buf) + 1
      /\ \A i \in 1 .. Len(buf) : s[i] = buf[i]
      /\ s[Len(buf) + 1] = Field(hdr + 1)
  BY <1>1, <1>2, AppendFacts
<1>4. Sent + (Len(buf) + 1) = hdr + 1
  BY <1>1, HdrTypes
<1> HIDE DEF s
<1>5. ASSUME NEW i \in 1 .. Len(buf) + 1 PROVE s[i] = Field(Sent + i)
  <2>1. CASE i \in 1 .. Len(buf)
    BY <1>1, <1>3, <2>1
  <2>2. CASE i = Len(buf) + 1
    BY <1>3, <1>4, <2>2
  <2> QED
    BY <1>1, <2>1, <2>2
<1> QED
  BY <1>2, <1>3, <1>4, <1>5 DEF s

\* write_header: one write_all of a field.
LEMMA WriteFieldStep ==
    ASSUME StackInv, IInv, SWriteHeaderField
    PROVE  StackInv'
<1> DEFINE s == Append(buf, Field(hdr + 1))
<1>1. /\ at_header /\ at_header' = at_header /\ pc = "header" /\ hdr < HEADER_FIELDS
      /\ hdr' = hdr + 1 /\ Write(Field(hdr + 1))
      /\ UNCHANGED <<pc, options, chunks, failed, toc_offset, offset, pos>>
  BY DEF SWriteHeaderField, WriteHeaderField, structVars, callVars
<1>2. Running /\ ~broken
  BY <1>1 DEF IInv, PhaseInv, Running, StackInv, BrokenInv
<1>3. /\ HeaderLeaves /\ StackTyping /\ CursorAgrees /\ BodyPlaced
      /\ buf \in Seq(Items) /\ Len(buf) \in Nat /\ dpos \in Nat /\ dev \in SUBSET Pieces
      /\ position = dpos + Total(buf) /\ position \in Nat
      /\ capacity = 0 => buf = << >>
  BY <1>1, <1>2, SentFacts DEF StackInv, CursorAgrees, StackTyping
<1>4. PICK m \in Nat : /\ m = Sent /\ m = hdr - Len(buf) /\ FieldsOut(m)
                       /\ dpos = FieldAt(m + 1)
  BY <1>1, SentFacts
<1>5. /\ Field(hdr + 1) \in Items /\ s \in Seq(Items) /\ Len(s) = Len(buf) + 1
      /\ \A i \in 1 .. Len(s) : s[i] = Field(m + i)
      /\ m + Len(s) = hdr + 1
  BY <1>1, <1>4, FieldJoins
<1>6. /\ Total(s) = Total(buf) + Field(hdr + 1).len
      /\ Leading(s, Len(buf) + 1) = Leading(buf, Len(buf)) \cup
            {Piece(dpos + Total(buf), Field(hdr + 1), TRUE)}
  BY <1>3, <1>5, AppendFacts
<1>7. /\ position' = position + Field(hdr + 1).len /\ UNCHANGED <<capacity, broken>>
  BY <1>1 DEF Write
<1>8. /\ \E n \in 0 .. Len(s) : Taken(s, n)
      /\ capacity' = 0 => buf' = << >>
  BY <1>1, <1>3, <1>5, WriteTakes
<1> HIDE DEF s
<1>9. PICK n \in 0 .. Len(s) : Taken(s, n)
  BY <1>8
<1>10. /\ dpos' \in Nat /\ dpos' + Total(buf') = dpos + Total(s)
       /\ Places' = dev \cup Leading(s, Len(s)) /\ dev \subseteq dev'
  BY <1>3, <1>5, <1>9, TakenKeeps
<1>11. Places \subseteq Places'
  <2>1. Placed(buf) = Leading(buf, Len(buf))
    BY <1>3, PlacedIs
  <2> QED
    BY <1>5, <1>6, <1>10, <2>1 DEF Places
<1>12. Field(hdr + 1).len \in Nat /\ Total(buf) \in Nat
  BY <1>3, <1>5, ItemFacts, BeforeFacts
<1>13. StackTyping'
  <2>1. Leading(s, n) \in SUBSET Pieces
    BY <1>3, <1>5, LeadingTypes
  <2>2. dev' \in SUBSET Pieces /\ buf' \in Seq(Items)
    BY <1>3, <1>9, <2>1 DEF Taken
  <2> QED
    BY <1>1, <1>3, <1>7, <1>10, <1>12, <2>2 DEF StackTyping
<1>14. CursorAgrees'
  <2>1. position' = dpos' + Total(buf')
    BY <1>3, <1>6, <1>7, <1>10, <1>12
  <2> QED
    BY <1>1, <1>8, <2>1 DEF CursorAgrees
<1>15. BrokenInv'
  BY <1>2, <1>7 DEF BrokenInv
<1>16. BodyPlaced'
  <2>1. TocSizes' = TocSizes
    BY <1>1 DEF TocSizes, StoredLen, aead
  <2> QED
    BY <1>1, <1>3, <1>11, <2>1 DEF BodyPlaced
<1>17. HeaderInv'
  <2>1. m + Len(s) <= HEADER_FIELDS
    BY <1>1, <1>5, HdrTypes
  <2>2. FieldsOut(m + n)' /\ dpos' = FieldAt((m + n) + 1)
    BY <1>3, <1>4, <1>5, <1>9, <2>1, FieldsLeave DEF Taken
  <2>3. Len(buf') = Len(s) - n /\ \A i \in 1 .. Len(buf') : buf'[i] = s[n + i]
    BY <1>9 DEF Taken
  <2>4. Sent' = m + n /\ Len(buf') <= hdr'
    <3>1. Sent' = hdr' - Len(buf')
      BY DEF Sent
    <3>2. n \in Nat /\ n <= Len(s) /\ hdr \in Nat
      BY <1>3, <1>5, HdrTypes
    <3>3. Len(buf') = (Len(buf) + 1) - n /\ hdr = m + Len(buf)
      BY <1>3, <1>4, <1>5, <2>3, <3>2
    <3> QED
      BY <1>1, <1>3, <3>1, <3>2, <3>3
  <2>5. ASSUME NEW i \in 1 .. Len(buf') PROVE buf'[i] = Field(Sent' + i)
    <3>1. n + i \in 1 .. Len(s) /\ m + (n + i) = (m + n) + i
      BY <1>3, <1>5, <2>3
    <3> QED
      BY <1>5, <2>3, <2>4, <3>1
  <2>6. FieldsOut(Sent)' /\ dpos' = FieldAt(Sent' + 1)
    BY <2>2, <2>4 DEF FieldsOut
  <2>7. BodyOnDevice'
    BY <1>1, <1>3, <1>10, BodyStays DEF HeaderLeaves
  <2>8. HeaderLeaves'
    BY <1>1, <2>4, <2>5, <2>6, <2>7 DEF HeaderLeaves
  <2> QED
    BY <1>1, <2>8 DEF HeaderInv
<1> QED
  BY <1>13, <1>14, <1>15, <1>16, <1>17 DEF StackInv

\* Everything buffered leaves while the header is written or after finish
\* failed in it.
LEMMA HeaderFlush ==
    ASSUME StackInv, IInv, at_header, pc # "done",
           dev' = dev \cup Placed(buf), buf' = << >>,
           UNCHANGED <<hdr, chunks, toc_offset, options>>
    PROVE  /\ StackTyping /\ dev' \in SUBSET Pieces /\ Places' = Places
           /\ buf' \in Seq(Items) /\ Len(buf') = 0 /\ Total(buf') = 0
           /\ Sent' = hdr /\ FieldsOut(Sent)' /\ BodyOnDevice'
           /\ dpos + Total(buf) = FieldAt(hdr + 1)
<1>1. /\ HeaderLeaves /\ StackTyping
      /\ buf \in Seq(Items) /\ Len(buf) \in Nat /\ dpos \in Nat /\ dev \in SUBSET Pieces
  BY SentFacts
<1>2. PICK m \in Nat : /\ m = Sent /\ m = hdr - Len(buf) /\ FieldsOut(m)
                       /\ dpos = FieldAt(m + 1)
                       /\ \A i \in 1 .. Len(buf) : buf[i] = Field(m + i)
  BY SentFacts
<1>3. /\ dev' = dev \cup Leading(buf, Len(buf))
      /\ buf' \in Seq(Items) /\ Len(buf') = 0 /\ Total(buf') = 0 /\ Places' = Places
  BY <1>1, FlushTakes
<1>4. /\ Len(buf) \in 0 .. Len(buf) /\ m + Len(buf) = hdr /\ m + Len(buf) <= HEADER_FIELDS
  BY <1>1, <1>2, HdrTypes
<1>5. PICK l \in 0 .. Len(buf) : l = Len(buf)
  BY <1>4
<1>6. FieldsOut(m + l)' /\ dpos + Before(buf, l) = FieldAt((m + l) + 1)
  BY <1>1, <1>2, <1>3, <1>4, <1>5, FieldsLeave
<1>7. Sent' = hdr' - Len(buf')
  BY DEF Sent
<1>8. Sent' = hdr /\ Sent' = m + l
  BY <1>1, <1>3, <1>4, <1>5, <1>7, HdrTypes
<1>9. FieldsOut(Sent)'
  BY <1>6, <1>8 DEF FieldsOut
<1>10. dpos + Total(buf) = FieldAt(hdr + 1)
  BY <1>1, <1>4, <1>5, <1>6, BeforeFacts
<1>11. dev' \in SUBSET Pieces
  <2>1. Leading(buf, Len(buf)) \in SUBSET Pieces
    BY <1>1, <1>4, LeadingTypes
  <2> QED
    BY <1>1, <1>3, <2>1
<1>12. BodyOnDevice'
  <2>1. dev \subseteq dev'
    OBVIOUS
  <2> QED
    BY <1>1, <2>1, BodyStays DEF HeaderLeaves
<1> QED
  BY <1>1, <1>3, <1>8, <1>9, <1>10, <1>11, <1>12

\* finish seeks to the end: the header leaves the buffer.
LEMMA SeekEndStep ==
    ASSUME StackInv, IInv, SSeekEnd
    PROVE  StackInv'
<1>1. /\ pc = "header" /\ pc' = "done" /\ hdr = HEADER_FIELDS /\ at_header' = at_header
      /\ dev' = dev \cup Placed(buf) /\ buf' = << >> /\ dpos' = offset /\ position' = offset
      /\ UNCHANGED <<capacity, broken, options, chunks, failed, toc_offset, offset, pos, hdr>>
  BY DEF SSeekEnd, SeekEnd, Seek, structVars, callVars, writerVars
<1>2. Running /\ ~broken /\ at_header
  <2>1. hdr # 0
    BY <1>1, HdrTypes
  <2> QED
    BY <1>1, <2>1 DEF IInv, PhaseInv, Running, StackInv, BrokenInv, HeaderInv
<1>3. /\ StackTyping /\ dev' \in SUBSET Pieces /\ Places' = Places
      /\ buf' \in Seq(Items) /\ Len(buf') = 0 /\ Total(buf') = 0
      /\ Sent' = hdr /\ FieldsOut(Sent)' /\ BodyOnDevice'
  BY <1>1, <1>2, HeaderFlush
<1>4. offset \in Nat /\ hdr \in Nat
  BY HdrTypes
<1>5. StackTyping'
  BY <1>1, <1>3, <1>4 DEF StackTyping
<1>6. CursorAgrees'
  BY <1>1, <1>2, <1>3, <1>4 DEF CursorAgrees
<1>7. BrokenInv'
  BY <1>1, <1>2 DEF BrokenInv
<1>8. BodyPlaced'
  <2>1. BodyPlaced
    BY <1>2 DEF StackInv
  <2> QED
    BY <1>1, <1>3, <2>1 DEF BodyPlaced
<1>9. HeaderInv'
  <2>1. HeaderLeaves'
    BY <1>1, <1>3, <1>4 DEF HeaderLeaves
  <2> QED
    BY <1>1, <1>2, <2>1 DEF HeaderInv
<1> QED
  BY <1>5, <1>6, <1>7, <1>8, <1>9 DEF StackInv

\* A BufWriter that is dropped writes what it holds.
LEMMA DropStep ==
    ASSUME StackInv, IInv, DropWriter
    PROVE  StackInv'
<1>1. /\ pc \in {"done", "dead"} /\ buf # << >>
      /\ dev' = dev \cup Placed(buf) /\ dpos' = dpos + Total(buf) /\ buf' = << >>
      /\ UNCHANGED <<vars, capacity, position, broken, at_header>>
  BY DEF DropWriter
<1>2. UNCHANGED <<pc, options, chunks, failed, toc_offset, offset, pos, hdr>>
  BY <1>1 DEF vars, structVars, callVars, writerVars
<1>3. pc = "dead"
  BY <1>1 DEF StackInv, HeaderInv
<1>4. /\ StackTyping /\ buf \in Seq(Items) /\ dpos \in Nat /\ Total(buf) \in Nat
      /\ Len(buf) \in 0 .. Len(buf)
  BY BeforeFacts DEF StackInv, StackTyping
<1>5. /\ dev' = dev \cup Leading(buf, Len(buf))
      /\ buf' \in Seq(Items) /\ Len(buf') = 0 /\ Total(buf') = 0
  BY <1>1, <1>4, FlushTakes
<1>6. StackTyping'
  <2>1. Leading(buf, Len(buf)) \in SUBSET Pieces
    BY <1>4, LeadingTypes
  <2>2. dev' \in SUBSET Pieces
    BY <1>4, <1>5, <2>1 DEF StackTyping
  <2>3. dpos' \in Nat
    BY <1>1, <1>4
  <2> QED
    BY <1>1, <1>4, <1>5, <2>2, <2>3 DEF StackTyping
<1>7. CursorAgrees'
  <2>1. ~broken => position = dpos' + 0
    BY <1>1, <1>4 DEF StackInv, CursorAgrees
  <2>2. ~broken /\ ~at_header => position = pos
    BY DEF StackInv, CursorAgrees
  <2> QED
    BY <1>1, <1>2, <1>5, <2>1, <2>2 DEF CursorAgrees
<1>8. BrokenInv' /\ ~Running'
  BY <1>2, <1>3 DEF BrokenInv, Running
<1>9. HeaderInv'
  <2>1. CASE ~at_header
    <3>1. NoFields /\ hdr = 0
      BY <2>1 DEF StackInv, HeaderInv
    <3>2. \A x \in dev' : x.item.kind # "field"
      BY <1>4, <1>5, <3>1, NoFieldsKept DEF NoFields
    <3> QED
      BY <1>1, <1>2, <1>3, <1>5, <2>1, <3>1, <3>2 DEF HeaderInv, NoFields
  <2>2. CASE at_header
    <3>1. /\ Sent' = hdr /\ FieldsOut(Sent)' /\ BodyOnDevice'
          /\ dpos' = FieldAt(hdr + 1)
      BY <1>1, <1>2, <1>3, <2>2, HeaderFlush
    <3>2. hdr \in Nat
      BY HdrTypes
    <3>3. HeaderLeaves'
      BY <1>2, <1>3, <1>5, <3>1, <3>2 DEF HeaderLeaves
    <3> QED
      BY <1>1, <1>2, <1>3, <2>2, <3>3 DEF HeaderInv
  <2> QED
    BY <2>1, <2>2
<1> QED
  BY <1>6, <1>7, <1>8, <1>9 DEF StackInv

-----------------------------------------------------------------------------
(* The actions.                                                            *)

\* The writer adds nothing to what the packer may do.
LEMMA PackerSteps ==
    ASSUME IInv, [SNext]_stackVars
    PROVE  [Next]_vars
<1>1. CASE UNCHANGED stackVars
  BY <1>1 DEF stackVars
<1>2. CASE SNew \/ SNewFails
  BY <1>2 DEF SNew, SNewFails, Next
<1>3. CASE NoWrite
  BY <1>3 DEF NoWrite, Next, CallStep
<1>4. ASSUME NEW status \in {0, 1}, NEW amount \in 0 .. MAX_CHUNK_SIZE + 1,
             CallbackRead(status, amount)
      PROVE  [Next]_vars
  <2>1. ReadFails \/ ReadEof \/ EndOfEntry \/ ReadSome(amount)
    BY <1>4 DEF CallbackRead
  <2>2. ASSUME ReadSome(amount) PROVE amount \in 1 .. MAX_CHUNK_SIZE
    <3>1. pc = "read" /\ amount \in 1 .. (options.chunk_size - Len(raw))
      BY <2>2 DEF ReadSome
    <3>2. ValidOptions(options) /\ TypeOK
      BY <3>1 DEF IInv, Typing, CallInv
    <3>3. options.chunk_size \in Nat /\ options.chunk_size <= MAX_CHUNK_SIZE /\ MAX_CHUNK_SIZE \in Nat
      <4>1. options.chunk_size \in 1 .. MAX_CHUNK_SIZE
        BY <3>2 DEF ValidOptions
      <4>2. MAX_CHUNK_SIZE \in Nat
        BY ConstantTypes
      <4> QED
        BY <4>1, <4>2
    <3>4. Len(raw) \in Nat
      BY <3>2 DEF TypeOK
    <3> QED
      BY <3>1, <3>3, <3>4
  <2> QED
    BY <2>1, <2>2 DEF Next, CallStep
<1>5. CASE SPadWrite \/ SAlignFails
  BY <1>5 DEF SPadWrite, SAlignFails, Next, CallStep
<1>6. ASSUME NEW c \in 1 .. Len(raw) + 1, SStore(c) \/ SStoreFails(c)
      PROVE  [Next]_vars
  BY <1>6 DEF SStore, SStoreFails, Next, CallStep
<1>7. ASSUME NEW toc_size \in TocSizes, SWriteToc(toc_size)
      PROVE  [Next]_vars
  BY <1>7 DEF SWriteToc, Next, CallStep
<1>8. CASE SeekStart \/ DropWriter
  BY <1>8 DEF SeekStart, DropWriter
<1>9. CASE SWriteHeaderField \/ SSeekEnd \/ SFinishFails
  BY <1>9 DEF SWriteHeaderField, SSeekEnd, SFinishFails, Next, CallStep
<1>10. CASE Terminated
  BY <1>10 DEF Next
<1> QED
  BY <1>1, <1>2, <1>3, <1>4, <1>5, <1>6, <1>7, <1>8, <1>9, <1>10 DEF SNext

\* Until Packer::new nothing is written.
AtStart == pc = "new" => pos = 0

LEMMA AtStartKept ==
    ASSUME AtStart, [Next]_vars
    PROVE  AtStart'
<1>1. pc' = "new" => pc = "new" /\ pos' = pos
  <2>1. CASE New \/ NewFails \/ Finish \/ Abandon \/ Terminated \/ UNCHANGED vars
    BY <2>1 DEF New, NewFails, Finish, Abandon, Terminated, vars, writerVars
  <2>2. ASSUME NEW p \in RawPaths, AddReader(p) \/ AddReaderRefused(p) PROVE pc' # "new"
    BY <2>2 DEF AddReader, AddReaderRefused, AddFails
  <2>3. CASE CallStep
    <3>1. ASSUME NEW n \in 1 .. MAX_CHUNK_SIZE, ReadSome(n) PROVE pc' # "new"
      BY <3>1 DEF ReadSome
    <3>2. CASE ReadEof \/ EndOfEntry \/ ReadFails \/ Align \/ PadWrite \/ AlignFails
      BY <3>2 DEF ReadEof, EndOfEntry, ReadFails, Align, PadWrite, AlignFails, AddFails,
                  AfterPad
    <3>3. ASSUME NEW c \in 1 .. (Len(raw) + 1), Store(c) \/ StoreTooLarge(c) \/ StoreFails(c)
          PROVE  pc' # "new"
      BY <3>3 DEF Store, StoreTooLarge, StoreFails, AddFails
    <3>4. ASSUME NEW t \in TocSizes, WriteToc(t) PROVE pc' # "new"
      BY <3>4 DEF WriteToc
    <3>5. CASE WriteHeaderField \/ SeekEnd \/ FinishFails
      BY <3>5 DEF WriteHeaderField, SeekEnd, FinishFails
    <3> QED
      BY <2>3, <3>1, <3>2, <3>3, <3>4, <3>5 DEF CallStep
  <2> QED
    BY <2>1, <2>2, <2>3 DEF Next
<1> QED
  BY <1>1 DEF AtStart

LEMMA ItemTypes ==
    /\ \A n \in Nat \ {0} : Zeros(n) \in Items /\ Zeros(n).kind # "field" /\ Zeros(n).len = n
    /\ \A k \in Nat, n \in Nat \ {0} :
          /\ Item("chunk", k, n) \in Items /\ Item("chunk", k, n).kind # "field"
          /\ Item("chunk", k, n).len = n
    /\ \A n \in Nat \ {0} :
          /\ Item("toc", 0, n) \in Items /\ Item("toc", 0, n).kind # "field"
          /\ Item("toc", 0, n).len = n
  BY DEF Zeros, Item, Items, Kinds

\* While the packer runs and has not gone back to the start, nothing is broken.
LEMMA BeforeHeader ==
    ASSUME StackInv, IInv, pc \notin {"idle", "header", "done", "dead"}
    PROVE  /\ ~broken /\ ~at_header /\ ~failed /\ position = pos
           /\ pc # "new" => Running
           /\ pc # "new" => BodyPlaced
  BY DEF StackInv, BrokenInv, HeaderInv, HeaderLeaves, CursorAgrees, IInv, PhaseInv, Running

\* No header field is past what CallbackWriter.position can hold.
LEMMA FieldsFit ==
    ASSUME StackInv, IInv, at_header, pc = "header", hdr < HEADER_FIELDS
    PROVE  ~PositionOverflows(Field(hdr + 1))
<1> SUFFICES ASSUME PositionOverflows(Field(hdr + 1)) PROVE FALSE
  OBVIOUS
<1>0. capacity = 0 /\ position + Field(hdr + 1).len > U64_MAX
  BY DEF PositionOverflows
<1>1. buf = << >> /\ ~broken /\ position = dpos + Total(buf) /\ Total(buf) = 0
  BY <1>0, TotalEmpty DEF StackInv, CursorAgrees, BrokenInv
<1>2. hdr \in Nat /\ hdr + 1 \in 1 .. HEADER_FIELDS
  BY HdrTypes DEF HEADER_FIELDS
<1>3. PICK m \in Nat : m = hdr - Len(buf) /\ dpos = FieldAt(m + 1)
  BY SentFacts
<1>4. dpos = FieldAt(hdr + 1) /\ dpos \in Nat
  BY <1>1, <1>2, <1>3, FieldAtStep
<1>5. position = FieldAt(hdr + 1)
  BY <1>1, <1>4
<1>6. Field(hdr + 1).len = FIELD_BYTES[hdr + 1]
  BY <1>2, FieldFacts
<1>7. FieldAt(hdr + 1) + FIELD_BYTES[hdr + 1] <= HEADER_SIZE
  BY <1>2, FieldsEnd
<1>8. FieldAt(hdr + 1) + FIELD_BYTES[hdr + 1] \in Nat /\ HEADER_SIZE \in Nat
      /\ U64_MAX \in Nat /\ HEADER_SIZE <= U64_MAX
  BY <1>2, FieldAtStep, FieldFacts, PackerAssumption DEF HEADER_SIZE
<1> QED
  BY <1>0, <1>5, <1>6, <1>7, <1>8

LEMMA NewAction ==
    ASSUME StackInv, IInv, AtStart, SNew
    PROVE  StackInv'
<1>1. /\ pc = "new" /\ pc' = "idle" /\ pos' = HEADER_SIZE /\ at_header' = at_header
      /\ Write(Zeros(HEADER_SIZE)) /\ UNCHANGED <<chunks, hdr>>
  BY DEF SNew, New
<1>2. HEADER_SIZE \in Nat \ {0}
  BY DEF HEADER_SIZE
<1>3. pos = 0 /\ chunks = << >> /\ ~broken /\ ~at_header
  BY <1>1, BeforeHeader DEF AtStart, IInv, PhaseInv
<1>4. Zeros(HEADER_SIZE) \in Items /\ Zeros(HEADER_SIZE).kind # "field" /\ Zeros(HEADER_SIZE).len = HEADER_SIZE
  BY <1>2, ItemTypes
<1>5. pos' = pos + Zeros(HEADER_SIZE).len
  BY <1>1, <1>2, <1>3, <1>4
<1>6. DOMAIN chunks' = {}
  BY <1>1, <1>3
<1> QED
  BY <1>1, <1>3, <1>4, <1>5, <1>6, AppendStep

\* A CallbackWriter whose position does not hold what the callback took fails
\* like any other: the packer stops.
LEMMA OverflowStep ==
    ASSUME StackInv, NEW item \in Items, item.kind # "field", PositionOverflows(item),
           ~at_header, UNCHANGED <<at_header, hdr>>,
           pc' = "dead" \/ (pc' = "idle" /\ failed')
    PROVE  StackInv'
<1>1. /\ StackTyping /\ CursorAgrees /\ NoFields /\ hdr = 0
      /\ dpos \in Nat /\ dev \in SUBSET Pieces
  BY DEF StackInv, StackTyping, HeaderInv
<1>2. /\ dev' = dev \cup {Piece(dpos, item, TRUE)}
      /\ dpos' = dpos + item.len
      /\ broken' = TRUE
      /\ UNCHANGED <<capacity, buf, position>>
  BY DEF PositionOverflows
<1>3. item.len \in Nat
  BY ItemFacts
<1>4. Piece(dpos, item, TRUE) \in Pieces /\ Piece(dpos, item, TRUE).item = item
  <2>1. ASSUME NEW a \in Nat, NEW x \in Items, NEW w \in BOOLEAN
        PROVE  Piece(a, x, w) \in Pieces /\ Piece(a, x, w).item = x
    BY DEF Piece, Pieces
  <2> QED
    BY <1>1, <2>1
<1>5. StackTyping'
  <2>1. dev' \in SUBSET Pieces
    BY <1>1, <1>2, <1>4
  <2>2. dpos' \in Nat
    BY <1>1, <1>2, <1>3
  <2> QED
    BY <1>1, <1>2, <2>1, <2>2 DEF StackTyping
<1>6. CursorAgrees' /\ BrokenInv' /\ ~Running'
  BY <1>1, <1>2 DEF CursorAgrees, BrokenInv, Running
<1>7. HeaderInv'
  BY <1>1, <1>2, <1>4 DEF HeaderInv, NoFields
<1> QED
  BY <1>5, <1>6, <1>7 DEF StackInv

\* A failed write of something that is not a header field stops the packer.
LEMMA FailedWrite ==
    ASSUME StackInv, IInv, NEW item \in Items, item.kind # "field", WriteFails(item),
           ~at_header, UNCHANGED <<at_header, hdr, chunks, toc_offset, options>>,
           pc' = "dead" \/ (pc' = "idle" /\ failed')
    PROVE  StackInv'
<1> DEFINE s == Append(buf, item)
<1>0. CASE PositionOverflows(item)
  BY <1>0, OverflowStep
<1> SUFFICES ASSUME ~PositionOverflows(item) PROVE StackInv'
  BY <1>0
<1>1. StackTyping /\ buf \in Seq(Items) /\ NoFields /\ Len(buf) \in Nat
  BY DEF StackInv, StackTyping, HeaderInv
<1>2. /\ s \in Seq(Items) /\ Len(s) = Len(buf) + 1
      /\ \A i \in 1 .. Len(buf) : s[i] = buf[i]
      /\ s[Len(buf) + 1] = item
  BY <1>1, AppendFacts
<1>3. PICK n \in 0 .. Len(buf) : Cut(s, n)
  BY <1>1, WriteFailsCuts
<1> HIDE DEF s
<1>4. \A i \in 1 .. Len(s) : s[i].kind # "field"
  <2> TAKE i \in 1 .. Len(s)
  <2>1. i \in 1 .. Len(buf) \/ i = Len(buf) + 1
    BY <1>1, <1>2
  <2> QED
    BY <1>1, <1>2, <2>1 DEF NoFields
<1> QED
  BY <1>2, <1>3, <1>4, CutStep, HdrTypes

LEMMA FailedSeek ==
    ASSUME StackInv, IInv, SeekFails, pc # "done",
           UNCHANGED <<at_header, hdr, chunks, toc_offset, options>>, pc' = "dead"
    PROVE  StackInv'
<1>1. StackTyping /\ buf \in Seq(Items) /\ Len(buf) \in Nat
  BY DEF StackInv, StackTyping
<1>2. PICK n \in 0 .. Len(buf) : Cut(buf, n)
  BY <1>1, SeekFailsCuts
<1>3. ~at_header => \A i \in 1 .. Len(buf) : buf[i].kind # "field"
  BY DEF StackInv, HeaderInv, NoFields
<1>4. at_header => /\ \A i \in 1 .. Len(buf) : buf[i] = Field(Sent + i)
                   /\ Sent + Len(buf) <= HEADER_FIELDS
  <2> SUFFICES ASSUME at_header PROVE /\ \A i \in 1 .. Len(buf) : buf[i] = Field(Sent + i)
                                      /\ Sent + Len(buf) <= HEADER_FIELDS
    OBVIOUS
  <2>1. (\A i \in 1 .. Len(buf) : buf[i] = Field(Sent + i)) /\ Sent = hdr - Len(buf)
    BY SentFacts DEF HeaderLeaves
  <2> QED
    BY <1>1, <2>1, HdrTypes
<1> QED
  BY <1>1, <1>2, <1>3, <1>4, CutStep, HdrTypes

LEMMA NewFailsAction ==
    ASSUME StackInv, IInv, AtStart, SNewFails
    PROVE  StackInv'
<1>1. /\ pc = "new" /\ pc' = "dead" /\ NewFails /\ at_header' = at_header
      /\ UNCHANGED <<options, chunks, failed, toc_offset, offset, hdr>>
  BY DEF SNewFails, NewFails, structVars, callVars
<1>2. ~broken /\ ~at_header /\ pos = 0
  BY <1>1, BeforeHeader DEF AtStart
<1>3. HEADER_SIZE \in Nat \ {0}
  BY DEF HEADER_SIZE
<1>4. /\ Zeros(HEADER_SIZE) \in Items /\ Zeros(HEADER_SIZE).kind # "field"
      /\ Zeros(HEADER_SIZE).len = HEADER_SIZE
  BY <1>3, ItemTypes
<1>5. ~Running'
  BY <1>1 DEF Running
<1>6. CASE ~ValidOptions(options) \/ disk # {}
  <2>1. UNCHANGED devVars
    BY <1>6 DEF SNewFails
  <2>2. pos' = pos
    BY <1>6 DEF SNewFails, NewFails
  <2> QED
    BY <1>1, <1>2, <1>5, <2>1, <2>2, QuietStep
<1>7. CASE ~(~ValidOptions(options) \/ disk # {}) /\ pos' = HEADER_SIZE
  <2>1. Write(Zeros(HEADER_SIZE))
    BY <1>7 DEF SNewFails
  <2>2. pos' = pos + Zeros(HEADER_SIZE).len
    BY <1>2, <1>3, <1>4, <1>7
  <2> QED
    BY <1>1, <1>2, <1>4, <1>5, <2>1, <2>2, AppendStep
<1>8. CASE ~(~ValidOptions(options) \/ disk # {}) /\ pos' # HEADER_SIZE
  <2>1. SeekFails \/ WriteFails(Zeros(HEADER_SIZE))
    BY <1>8 DEF SNewFails
  <2> QED
    BY <1>1, <1>2, <1>4, <2>1, FailedSeek, FailedWrite
<1> QED
  BY <1>6, <1>7, <1>8

LEMMA ReadAction ==
    ASSUME StackInv, IInv, NEW status, NEW amount, CallbackRead(status, amount)
    PROVE  StackInv'
<1>1. ReadFails \/ ReadEof \/ EndOfEntry \/ ReadSome(amount)
  BY DEF CallbackRead
<1>2. UNCHANGED <<devVars, at_header>>
  BY DEF CallbackRead
<1>3. /\ pc = "read" /\ pc' \in {"read", "align", "idle"}
      /\ UNCHANGED <<options, chunks, toc_offset, pos, hdr>>
  <2>1. CASE ReadFails
    BY <2>1 DEF ReadFails, AddFails, writerVars
  <2>2. CASE ReadEof
    BY <2>2 DEF ReadEof, structVars, callVars, writerVars
  <2>3. CASE EndOfEntry
    BY <2>3 DEF EndOfEntry, AddFails, writerVars
  <2>4. CASE ReadSome(amount)
    BY <2>4 DEF ReadSome, structVars, writerVars
  <2> QED
    BY <1>1, <2>1, <2>2, <2>3, <2>4
<1>4. ~broken /\ ~at_header /\ Running
  BY <1>3, BeforeHeader
<1> QED
  BY <1>2, <1>3, <1>4, QuietStep

LEMMA NoWriteAction ==
    ASSUME StackInv, IInv, NoWrite
    PROVE  StackInv'
<1>1. UNCHANGED <<devVars, at_header>>
  BY DEF NoWrite
<1>2. ASSUME NEW p \in RawPaths, AddReader(p) \/ AddReaderRefused(p) PROVE StackInv'
  <2>1. /\ pc = "idle" /\ ~failed /\ pc' \in {"read", "idle"}
        /\ UNCHANGED <<options, chunks, toc_offset, pos, hdr>>
    BY <1>2 DEF AddReader, AddReaderRefused, AddFails, writerVars
  <2>2. ~broken /\ ~at_header /\ Running
    BY <2>1 DEF StackInv, BrokenInv, HeaderInv, HeaderLeaves, Running
  <2> QED
    BY <1>1, <2>1, <2>2, QuietStep
<1>3. CASE Align
  <2>1. /\ pc \in {"align", "finalign"} /\ pc' \in {"store", "toc", "pad", "finpad"}
        /\ UNCHANGED <<options, chunks, toc_offset, pos, hdr, failed>>
    BY <1>3 DEF Align, AfterPad, structVars, writerVars
  <2>2. ~broken /\ ~at_header /\ Running
    BY <2>1, BeforeHeader
  <2> QED
    BY <1>1, <2>1, <2>2, QuietStep
<1>4. CASE Finish
  <2>1. /\ pc = "idle" /\ pc' = IF failed THEN "dead" ELSE "finalign"
        /\ UNCHANGED <<options, chunks, toc_offset, pos, hdr, failed>>
    BY <1>4 DEF Finish, structVars, callVars, writerVars
  <2>2. ~at_header /\ (broken => failed)
    BY <2>1 DEF StackInv, BrokenInv, HeaderInv, HeaderLeaves
  <2>3. Running' => Running
    BY <2>1 DEF Running
  <2> QED
    BY <1>1, <2>1, <2>2, <2>3, QuietStep
<1>5. CASE Abandon
  <2>1. /\ pc \notin {"new", "done", "dead"} /\ pc' = "dead"
        /\ UNCHANGED <<options, chunks, toc_offset, pos, hdr, failed>>
    BY <1>5 DEF Abandon, structVars, callVars, writerVars
  <2>2. ~Running'
    BY <2>1 DEF Running
  <2> QED
    BY <1>1, <2>1, <2>2, QuietStep
<1> QED
  BY <1>2, <1>3, <1>4, <1>5 DEF NoWrite

\* What one write_all of padding takes.
LEMMA PaddingItem ==
    ASSUME IInv, pc \in {"pad", "finpad"}
    PROVE  (IF remaining < ZEROES THEN remaining ELSE ZEROES) \in Nat \ {0}
<1>1. remaining \in Nat /\ remaining # 0 /\ ZEROES \in Nat \ {0}
  BY ConstantTypes DEF IInv, Typing, TypeOK, CallInv, Padding
<1> QED
  BY <1>1

LEMMA PadAction ==
    ASSUME StackInv, IInv, SPadWrite
    PROVE  StackInv'
<1> DEFINE amount == IF remaining < ZEROES THEN remaining ELSE ZEROES
<1>1. /\ pc \in {"pad", "finpad"} /\ pc' \in {"pad", "finpad", "store", "toc"}
      /\ pos' = pos + amount /\ at_header' = at_header /\ Write(Zeros(pos' - pos))
      /\ UNCHANGED <<options, chunks, toc_offset, hdr, failed>>
  BY DEF SPadWrite, PadWrite, AfterPad
<1>2. amount \in Nat \ {0}
  BY <1>1, PaddingItem
<1> HIDE DEF amount
<1>3. pos \in Nat /\ pos' - pos = amount
  <2>1. pos \in Nat
    BY DEF IInv, Typing, TypeOK
  <2> QED
    BY <1>1, <1>2, <2>1
<1>4. Zeros(amount) \in Items /\ Zeros(amount).kind # "field" /\ Zeros(amount).len = amount
  BY <1>2, ItemTypes
<1>5. ~broken /\ ~at_header /\ BodyPlaced
  BY <1>1, BeforeHeader
<1>6. Write(Zeros(amount))
  BY <1>1, <1>3
<1>7. \A i \in DOMAIN chunks' :
         Piece(chunks'[i].offset, Item("chunk", i, chunks'[i].stored_size), TRUE) \in Places
  BY <1>1, <1>5 DEF BodyPlaced
<1> QED
  BY <1>1, <1>4, <1>5, <1>6, <1>7, AppendStep

LEMMA AlignFailsAction ==
    ASSUME StackInv, IInv, SAlignFails
    PROVE  StackInv'
<1> DEFINE amount == IF remaining < ZEROES THEN remaining ELSE ZEROES
<1>1. /\ pc \in {"align", "pad"} /\ pc' = "idle" /\ failed' = TRUE /\ pos' = pos
      /\ at_header' = at_header
      /\ UNCHANGED <<options, chunks, toc_offset, hdr>>
      /\ pc = "pad" => WriteFails(Zeros(amount))
      /\ pc # "pad" => UNCHANGED devVars
  BY DEF SAlignFails, AlignFails, AddFails
<1>2. ~broken /\ ~at_header /\ ~Running'
  BY <1>1, BeforeHeader DEF Running
<1>3. CASE pc = "pad"
  <2>1. amount \in Nat \ {0}
    BY <1>3, PaddingItem
  <2> HIDE DEF amount
  <2>2. Zeros(amount) \in Items /\ Zeros(amount).kind # "field"
    BY <2>1, ItemTypes
  <2> QED
    BY <1>1, <1>2, <1>3, <2>2, FailedWrite
<1>4. CASE pc # "pad"
  BY <1>1, <1>2, <1>4, QuietStep
<1> QED
  BY <1>3, <1>4

LEMMA StoreAction ==
    ASSUME StackInv, IInv, NEW c \in 1 .. Len(raw) + 1, SStore(c)
    PROVE  StackInv'
<1> DEFINE n == StoredLen(PayloadLen(c))
<1>1. /\ pc = "store" /\ pc' \in {"read", "idle"} /\ pos' = pos + n /\ at_header' = at_header
      /\ UNCHANGED <<options, toc_offset, hdr>>
      /\ Write(ChunkItem(c))
  BY DEF SStore, Store, StoreTooLarge, StoreChunk, AddFails
<1>2. ~broken /\ ~at_header /\ position = pos /\ Running /\ BodyPlaced
  BY <1>1, BeforeHeader
<1>3. pos = offset
  BY <1>1, <1>2 DEF IInv, CursorInv, Padding
<1>4. n \in Nat \ {0} /\ chunks \in Seq(Chunk)
  <2>1. TypeOK /\ raw # << >>
    BY <1>1 DEF IInv, Typing, CallInv
  <2> QED
    BY <2>1, StoredFacts DEF TypeOK
<1>5. Len(chunks) \in Nat /\ DOMAIN chunks = 1 .. Len(chunks)
  BY <1>4
<1>6. Running' => chunks' = Append(chunks, ChunkRecord(c))
  BY DEF SStore, Store, StoreTooLarge, AddFails, Running
<1>7. ChunkItem(c) = Item("chunk", Len(chunks) + 1, n)
  BY DEF ChunkItem
<1>8. ChunkRecord(c).offset = offset /\ ChunkRecord(c).stored_size = n
  BY DEF ChunkRecord
<1> HIDE DEF n
<1>9. ChunkItem(c) \in Items /\ ChunkItem(c).kind # "field" /\ ChunkItem(c).len = n
  BY <1>4, <1>5, <1>7, ItemTypes
<1>10. ASSUME Running', NEW i \in DOMAIN chunks'
       PROVE  Piece(chunks'[i].offset, Item("chunk", i, chunks'[i].stored_size), TRUE)
                 \in Places \cup {Piece(position, ChunkItem(c), TRUE)}
  <2>1. chunks' = Append(chunks, ChunkRecord(c))
    BY <1>6, <1>10
  <2>2. i \in 1 .. Len(chunks) + 1
    BY <1>4, <1>10, <2>1
  <2>3. CASE i = Len(chunks) + 1
    <3>1. chunks'[i] = ChunkRecord(c)
      BY <1>4, <2>1, <2>3
    <3> QED
      BY <1>2, <1>3, <1>7, <1>8, <2>3, <3>1
  <2>4. CASE i # Len(chunks) + 1
    <3>1. i \in DOMAIN chunks /\ chunks'[i] = chunks[i]
      BY <1>4, <1>5, <2>1, <2>2, <2>4
    <3> QED
      BY <1>2, <3>1 DEF BodyPlaced
  <2> QED
    BY <2>3, <2>4
<1>11. pos' = pos + ChunkItem(c).len
  BY <1>1, <1>9
<1> QED
  BY <1>1, <1>2, <1>9, <1>10, <1>11, AppendStep

LEMMA StoreFailsAction ==
    ASSUME StackInv, IInv, NEW c \in 1 .. Len(raw) + 1, SStoreFails(c)
    PROVE  StackInv'
<1>1. /\ pc = "store" /\ pc' = "idle" /\ failed' = TRUE /\ WriteFails(ChunkItem(c))
      /\ UNCHANGED <<at_header, hdr, chunks, toc_offset, options>>
  BY DEF SStoreFails, StoreFails, AddFails
<1>2. ~at_header
  BY <1>1, BeforeHeader
<1>3. StoredLen(PayloadLen(c)) \in Nat \ {0} /\ Len(chunks) + 1 \in Nat
  <2>1. TypeOK /\ raw # << >>
    BY <1>1 DEF IInv, Typing, CallInv
  <2>2. Len(chunks) + 1 \in Nat
    BY <2>1 DEF TypeOK
  <2> QED
    BY <2>1, <2>2, StoredFacts
<1>4. ChunkItem(c) \in Items /\ ChunkItem(c).kind # "field"
  BY <1>3, ItemTypes DEF ChunkItem
<1> QED
  BY <1>1, <1>2, <1>4, FailedWrite

LEMMA TocSizeTypes == \A t \in TocSizes : t \in Nat \ {0}
<1>1. ASSUME NEW k \in TocLens PROVE StoredLen(k) \in Nat \ {0}
  <2>1. k \in Nat \ {0}
    BY ConstantTypes
  <2> QED
    BY <2>1 DEF StoredLen, AEAD_OVERHEAD
<1> QED
  BY <1>1 DEF TocSizes

LEMMA TocAction ==
    ASSUME StackInv, IInv, NEW t \in TocSizes, SWriteToc(t)
    PROVE  StackInv'
<1>1. /\ pc = "toc" /\ pc' \in {"header", "dead"} /\ pos' = pos + t /\ toc_offset' = offset
      /\ UNCHANGED <<at_header, options, chunks, hdr, failed>>
      /\ Write(Item("toc", 0, t))
  BY DEF SWriteToc, WriteToc
<1>2. ~broken /\ ~at_header /\ position = pos /\ Running /\ BodyPlaced
  BY <1>1, BeforeHeader
<1>3. pos = offset
  BY <1>1, <1>2 DEF IInv, CursorInv, Padding
<1>4. t \in Nat \ {0}
  BY TocSizeTypes
<1>5. /\ Item("toc", 0, t) \in Items /\ Item("toc", 0, t).kind # "field"
      /\ Item("toc", 0, t).len = t
  BY <1>4, ItemTypes
<1>6. TocSizes' = TocSizes
  BY <1>1 DEF TocSizes, StoredLen, aead
<1>7. \E k \in TocSizes' : Piece(toc_offset', Item("toc", 0, k), TRUE)
                              \in Places \cup {Piece(position, Item("toc", 0, t), TRUE)}
  BY <1>1, <1>2, <1>3, <1>6
<1>8. \A i \in DOMAIN chunks' :
         Piece(chunks'[i].offset, Item("chunk", i, chunks'[i].stored_size), TRUE) \in Places
  BY <1>1, <1>2 DEF BodyPlaced
<1>9. pos' = pos + Item("toc", 0, t).len /\ pc' # "done"
  BY <1>1, <1>5
<1> QED
  BY <1>1, <1>2, <1>5, <1>7, <1>8, <1>9, AppendStep

LEMMA FinishFailsAction ==
    ASSUME StackInv, IInv, SFinishFails
    PROVE  StackInv'
<1> DEFINE amount == IF remaining < ZEROES THEN remaining ELSE ZEROES
<1>1. /\ pc \in {"finalign", "finpad", "toc", "header"} /\ pc' = "dead" /\ pos' = pos
      /\ UNCHANGED <<at_header, hdr, chunks, toc_offset, options, failed>>
  BY DEF SFinishFails, FinishFails, structVars, callVars
<1>2. ~Running'
  BY <1>1 DEF Running
<1>3. CASE pc \in {"finalign", "toc"} /\ UNCHANGED devVars
  BY <1>1, <1>2, <1>3, QuietStep
<1>4. CASE pc = "finpad" /\ WriteFails(Zeros(amount))
  <2>1. amount \in Nat \ {0}
    BY <1>4, PaddingItem
  <2> HIDE DEF amount
  <2>2. Zeros(amount) \in Items /\ Zeros(amount).kind # "field"
    BY <2>1, ItemTypes
  <2>3. ~at_header
    BY <1>4, BeforeHeader
  <2> QED
    BY <1>1, <1>4, <2>2, <2>3, FailedWrite
<1>5. ASSUME pc = "toc", NEW t \in TocSizes, WriteFails(Item("toc", 0, t)) PROVE StackInv'
  <2>1. Item("toc", 0, t) \in Items /\ Item("toc", 0, t).kind # "field"
    BY TocSizeTypes, ItemTypes
  <2>2. ~at_header
    BY <1>5, BeforeHeader
  <2> QED
    BY <1>1, <1>5, <2>1, <2>2, FailedWrite
<1>6. CASE pc = "header" /\ at_header /\ hdr < HEADER_FIELDS /\ WriteFails(Field(hdr + 1))
  <2> DEFINE s == Append(buf, Field(hdr + 1))
  <2>1. /\ Field(hdr + 1) \in Items /\ s \in Seq(Items) /\ Len(s) = Len(buf) + 1
        /\ \A i \in 1 .. Len(buf) + 1 : s[i] = Field(Sent + i)
        /\ Sent + (Len(buf) + 1) = hdr + 1
    BY <1>6, FieldJoins
  <2>2. StackTyping /\ ~PositionOverflows(Field(hdr + 1))
    BY <1>6, FieldsFit DEF StackInv
  <2>3. PICK n \in 0 .. Len(buf) : Cut(s, n)
    BY <1>6, <2>1, <2>2, WriteFailsCuts
  <2> HIDE DEF s
  <2>4. Sent + Len(s) <= HEADER_FIELDS /\ hdr \in Nat
    BY <1>6, <2>1, HdrTypes
  <2>5. \A i \in 1 .. Len(s) : s[i] = Field(Sent + i)
    BY <2>1
  <2> QED
    BY <1>1, <1>6, <2>1, <2>3, <2>4, <2>5, CutStep
<1>7. CASE pc = "header" /\ SeekFails
  BY <1>1, <1>7, FailedSeek
<1> QED
  BY <1>3, <1>4, <1>5, <1>6, <1>7 DEF SFinishFails

-----------------------------------------------------------------------------
(* The invariant of the stack.                                             *)

LEMMA InitStackInv == SInit => IInv /\ AtStart /\ StackInv
<1> SUFFICES ASSUME SInit PROVE IInv /\ AtStart /\ StackInv
  OBVIOUS
<1>1. Init /\ IInv
  BY InitIInv DEF SInit
<1>2. /\ pc = "new" /\ pos = 0 /\ hdr = 0
      /\ buf = << >> /\ dev = {} /\ dpos = 0 /\ position = 0
      /\ at_header = FALSE /\ broken = FALSE
  BY <1>1 DEF SInit, Init
<1>3. capacity \in Nat
  BY WriterStackAssumption DEF SInit
<1>4. buf \in Seq(Items) /\ Len(buf) = 0
  BY <1>2
<1>5. StackTyping
  BY <1>2, <1>3, <1>4 DEF StackTyping
<1>6. CursorAgrees
  BY <1>2, TotalEmpty DEF CursorAgrees
<1>7. BrokenInv /\ ~Running /\ AtStart
  BY <1>2 DEF BrokenInv, Running, AtStart
<1>8. HeaderInv
  BY <1>2, <1>4 DEF HeaderInv, NoFields
<1> QED
  BY <1>1, <1>5, <1>6, <1>7, <1>8 DEF StackInv

LEMMA NextStackInv ==
    ASSUME IInv, AtStart, StackInv, [SNext]_stackVars
    PROVE  IInv' /\ AtStart' /\ StackInv'
<1>1. [Next]_vars
  BY PackerSteps
<1>2. IInv' /\ AtStart'
  BY <1>1, NextIInv, AtStartKept
<1>3. CASE UNCHANGED stackVars \/ (Terminated /\ UNCHANGED <<devVars, at_header>>)
  <2>1. UNCHANGED <<vars, devVars, at_header>>
    BY <1>3 DEF stackVars, Terminated
  <2>2. UNCHANGED <<pc, options, chunks, failed, toc_offset, offset, pos, hdr>>
    BY <2>1 DEF vars, structVars, callVars, writerVars
  <2>3. Running' => Running
    BY <2>2 DEF Running
  <2>4. /\ broken => pc = "dead" \/ (pc = "idle" /\ failed)
        /\ at_header => pc \in {"header", "done", "dead"}
    BY DEF StackInv, BrokenInv, HeaderInv, HeaderLeaves
  <2> QED
    BY <1>2, <2>1, <2>2, <2>3, <2>4, QuietStep
<1>4. CASE SNew \/ SNewFails
  BY <1>2, <1>4, NewAction, NewFailsAction
<1>5. CASE NoWrite
  BY <1>2, <1>5, NoWriteAction
<1>6. ASSUME NEW status \in {0, 1}, NEW amount \in 0 .. MAX_CHUNK_SIZE + 1,
             CallbackRead(status, amount)
      PROVE  StackInv'
  BY <1>6, ReadAction
<1>7. CASE SPadWrite \/ SAlignFails
  BY <1>2, <1>7, PadAction, AlignFailsAction
<1>8. ASSUME NEW c \in 1 .. Len(raw) + 1, SStore(c) \/ SStoreFails(c)
      PROVE  StackInv'
  BY <1>8, StoreAction, StoreFailsAction
<1>9. ASSUME NEW t \in TocSizes, SWriteToc(t)
      PROVE  StackInv'
  BY <1>9, TocAction
<1>10. CASE SeekStart \/ SWriteHeaderField \/ SSeekEnd
  BY <1>2, <1>10, SeekStartStep, WriteFieldStep, SeekEndStep
<1>11. CASE SFinishFails \/ DropWriter
  BY <1>2, <1>11, FinishFailsAction, DropStep
<1> QED
  BY <1>2, <1>3, <1>4, <1>5, <1>6, <1>7, <1>8, <1>9, <1>10, <1>11 DEF SNext

LEMMA StackAlways == SSpec => [](IInv /\ AtStart /\ StackInv)
<1>1. SInit => IInv /\ AtStart /\ StackInv
  BY InitStackInv
<1>2. IInv /\ AtStart /\ StackInv /\ [SNext]_stackVars => (IInv /\ AtStart /\ StackInv)'
  BY NextStackInv
<1> QED
  BY <1>1, <1>2, PTL DEF SSpec

\* The packer runs on its writer as it does alone: whatever is proved of
\* Packer holds of SSpec too.
THEOREM WriterRefinesPacker == SSpec => Spec
<1>1. SInit => Init
  BY DEF SInit
<1>2. IInv /\ [SNext]_stackVars => [Next]_vars
  BY PackerSteps
<1>3. SSpec => []IInv
  BY StackAlways, PTL
<1> QED
  BY <1>1, <1>2, <1>3, PTL DEF SSpec, Spec

-----------------------------------------------------------------------------
(* What the device holds.                                                  *)

\* No byte of a header reaches the device before every chunk and the table of
\* contents have: the seek to the start flushes, and only then is a field
\* written.
THEOREM HeaderReachesDeviceLast == SSpec => []DeviceCommits
<1>1. StackInv => DeviceCommits
  BY DEF StackInv, HeaderInv, NoFields, HeaderLeaves, DeviceCommits
<1> QED
  BY <1>1, StackAlways, PTL

\* When finish returns Ok nothing waits in a buffer: the seek to the end of
\* the archive has pushed the header out, all twelve fields in their places.
THEOREM FinishedArchivesAreOnDevice == SSpec => []FinishedOnDevice
<1>1. ASSUME StackInv PROVE FinishedOnDevice
  <2> SUFFICES ASSUME pc = "done"
               PROVE  /\ buf = << >> /\ BodyOnDevice
                      /\ \A k \in 1 .. HEADER_FIELDS : Whole(FieldAt(k), Field(k))
                      /\ dpos = offset
    BY DEF FinishedOnDevice
  <2>1. /\ at_header /\ HeaderLeaves
        /\ hdr = HEADER_FIELDS /\ buf = << >> /\ dpos = offset
    BY <1>1 DEF StackInv, HeaderInv
  <2>2. Sent = HEADER_FIELDS
    BY <2>1 DEF Sent, HEADER_FIELDS
  <2>3. BodyOnDevice /\ FieldsOut(HEADER_FIELDS)
    BY <2>1, <2>2 DEF HeaderLeaves
  <2> QED
    BY <2>1, <2>3 DEF FieldsOut
<1> QED
  BY <1>1, StackAlways, PTL

\* Whichever of the header's twelve writes gets through last, a reader opens
\* the file only if all of them did: the hash it compares is the last field,
\* and the fields leave the buffer in their order.
THEOREM TornHeadersAreRefused == SSpec => []TornHeaderRefused
<1>1. ASSUME IInv, StackInv PROVE TornHeaderRefused
  <2> SUFFICES ASSUME DeviceOpens
               PROVE  (\A k \in 1 .. HEADER_FIELDS : HasField(k)) /\ BodyOnDevice
    BY DEF TornHeaderRefused
  <2> DEFINE last == Piece(FieldAt(12), Field(12), TRUE)
  <2>1. last \in dev
    BY DEF DeviceOpens, TocHashMatches, Whole
  <2>2. last.item.kind = "field" /\ last.item.n = 12 /\ last.whole = TRUE
    <3>1. last.item = Field(12) /\ last.whole = TRUE
      BY DEF Piece
    <3>2. 12 \in 1 .. HEADER_FIELDS
      BY DEF HEADER_FIELDS
    <3> QED
      BY <3>1, <3>2, FieldFacts
  <2> HIDE DEF last
  <2>3. at_header
    BY <1>1, <2>1, <2>2 DEF StackInv, HeaderInv, NoFields
  <2>4. PICK m \in Nat : m = Sent /\ m = hdr - Len(buf) /\ FieldsOut(m)
    BY <1>1, <2>3, SentFacts
  <2>5. 12 <= m
    BY <2>1, <2>2, <2>4 DEF FieldsOut
  <2>6. ASSUME NEW k \in 1 .. HEADER_FIELDS PROVE HasField(k)
    <3>1. k \in 1 .. m
      BY <2>5 DEF HEADER_FIELDS
    <3>2. Piece(FieldAt(k), Field(k), TRUE) \in dev
      BY <2>4, <3>1 DEF FieldsOut, Whole
    <3>3. /\ Piece(FieldAt(k), Field(k), TRUE).at = FieldAt(k)
          /\ Piece(FieldAt(k), Field(k), TRUE).item = Field(k)
      BY DEF Piece
    <3> QED
      BY <3>2, <3>3 DEF HasField
  <2>7. BodyOnDevice
    BY <1>1, <2>3, SentFacts DEF HeaderLeaves
  <2> QED
    BY <2>6, <2>7
<1> QED
  BY <1>1, StackAlways, PTL

\* A caller whose write or seek callback has failed is not called again: the
\* packer is failed or gone, and without a buffer nothing is left to write.
THEOREM NoCallbackAfterFailure == SSpec => NothingAfterCallbackFailure
<1>1. ASSUME StackInv, [SNext]_stackVars, broken, capacity = 0
      PROVE  UNCHANGED <<dev, dpos, position>>
  <2>1. pc = "dead" \/ (pc = "idle" /\ failed)
    BY <1>1 DEF StackInv, BrokenInv
  <2>2. buf = << >>
    BY <1>1 DEF StackInv, CursorAgrees
  <2>3. CASE UNCHANGED stackVars \/ NoWrite \/ UNCHANGED <<devVars, at_header>>
    BY <2>3 DEF stackVars, devVars, NoWrite
  <2>4. ~SNew /\ ~SNewFails /\ ~SPadWrite /\ ~SAlignFails /\ ~SeekStart
    BY <2>1 DEF SNew, New, SNewFails, NewFails, SPadWrite, PadWrite, SAlignFails, AlignFails,
                SeekStart
  <2>5. ~SWriteHeaderField /\ ~SSeekEnd /\ ~SFinishFails /\ ~DropWriter
    BY <2>1, <2>2 DEF SWriteHeaderField, WriteHeaderField, SSeekEnd, SeekEnd, SFinishFails,
                      FinishFails, DropWriter
  <2>6. ASSUME NEW status \in {0, 1}, NEW amount \in 0 .. MAX_CHUNK_SIZE + 1,
               CallbackRead(status, amount)
        PROVE  UNCHANGED <<dev, dpos, position>>
    BY <2>6 DEF CallbackRead, devVars
  <2>7. ASSUME NEW c \in 1 .. Len(raw) + 1 PROVE ~SStore(c) /\ ~SStoreFails(c)
    BY <2>1 DEF SStore, Store, StoreTooLarge, SStoreFails, StoreFails
  <2>8. ASSUME NEW t \in TocSizes PROVE ~SWriteToc(t)
    BY <2>1 DEF SWriteToc, WriteToc
  <2> QED
    BY <1>1, <2>3, <2>4, <2>5, <2>6, <2>7, <2>8 DEF SNext
<1>2. StackInv /\ [SNext]_stackVars =>
         [broken /\ capacity = 0 => UNCHANGED <<dev, dpos, position>>]_stackVars
  BY <1>1
<1> QED
  BY <1>2, StackAlways, PTL DEF SSpec, NothingAfterCallbackFailure

=============================================================================
