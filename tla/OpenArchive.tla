----------------------------- MODULE OpenArchive ----------------------------
(***************************************************************************)
(* Archive::open_with_limits, crates/rasen-archive/src/archive/reader.rs:  *)
(* from the sixty bytes of the header to an index that answers lookups.    *)
(* The bytes are whatever is in the file: the header is any record, each   *)
(* entry and chunk record is any record of the right size.  What matters   *)
(* is what open lets through, and what a lookup then finds.                *)
(*                                                                         *)
(* The position of the decoder, and how many bytes a path takes, are kept; *)
(* the other bytes are records.  validate_layout is module ValidateLayout: *)
(* here it may refuse the tables or not.                                   *)
(***************************************************************************)
EXTENDS NormalizePath, Integers

CONSTANTS
    Headers,      \* the headers a file may begin with
    CallerLimits, \* the ArchiveLimits a caller may pass
    HARD,         \* the hard maximum of each limit
    HARD_MAX_IDENTIFIER_BUCKET_ENTRIES,
    MAX_CHUNK_SIZE, MAX_ALIGNMENT, MAX_TOC_STORED_SIZE, MAX_TOC_RAW_SIZE,
    FileLen,      \* source.len()
    RawPaths,     \* the byte strings a client may look up
    StoredPaths,  \* the byte strings a record may hold as its path
    PathHash,     \* XXH3-64 of a normalized path
    Hashes,       \* the ids a record may hold
    Sizes         \* the original sizes a record may hold

Empty == <<"">>

\* normalize_path of each path; a record's bytes that are not UTF-8 are refused
\* like a path that is.
Normalized == [p \in RawPaths |-> normalize_path(p)]
RawLen == [p \in RawPaths |-> ByteLen(p)]
Paths == {Normalized[p] : p \in RawPaths} \ {Rejected}

\* The memory of a TocEntry, an Entry and an index slot, and of a Chunk with
\* its flag in used_chunks.
ENTRY_BYTES == 56 + 56 + 16
CHUNK_BYTES == 40 + 1

\* What the bytes of a header decode to, and struct ArchiveLimits.
DecodedHeader ==
    [magic : BOOLEAN, version : Nat, flags : SUBSET STRING, header_size : Nat,
     alignment : Nat, chunk_size : Nat, entry_count : Nat, chunk_count : Nat,
     toc_offset : Nat, toc_size : Nat, toc_raw_size : Nat]

ArchiveLimits ==
    [max_toc_stored_bytes : Nat, max_toc_raw_bytes : Nat, max_entries : Nat,
     max_chunks : Nat, max_path_bytes : Nat, max_total_path_bytes : Nat,
     max_single_asset_bytes : Nat, max_metadata_bytes : Nat]

ASSUME OpenAssumption ==
    /\ Headers \subseteq DecodedHeader
    /\ CallerLimits \cup {HARD} \subseteq ArchiveLimits
    /\ RawPaths \subseteq Seq(Parts)
    /\ StoredPaths \cup Paths \cup {Empty} \subseteq RawPaths
    /\ PathHash \in [Paths -> Hashes]
    /\ Hashes \subseteq Nat
    /\ HARD_MAX_IDENTIFIER_BUCKET_ENTRIES \in Nat \ {0}

VARIABLES
    pc, header, limits,
    cursor,             \* decode_toc's position in the table of contents
    total_path_bytes,
    entries,            \* decoded entries: path and id
    chunk_count,        \* decoded chunks
    index,              \* <<id, entry>> pairs, sorted by id
    start,              \* validate_index's position
    err

decodeVars == <<cursor, total_path_bytes, entries, chunk_count>>
indexVars == <<index, start>>
vars == <<pc, header, limits, decodeVars, indexVars, err>>

MinOf(x, y) == IF x < y THEN x ELSE y

Clamped(l) == [f \in DOMAIN l |-> MinOf(l[f], HARD[f])]

paths_stripped == "stripped" \in header.flags

Init ==
    /\ pc = "header"
    /\ header \in Headers
    /\ \E l \in CallerLimits : limits = Clamped(l)
    /\ cursor = 0
    /\ total_path_bytes = 0
    /\ entries = << >>
    /\ chunk_count = 0
    /\ index = << >>
    /\ start = 1
    /\ err = "none"

Reject(what) == pc' = "rejected" /\ err' = what

-----------------------------------------------------------------------------
(* read_header, validate_header, validate_limits, the TOC's place *)

Required == {"lz4", "chunked", "xxh3"}
Known == Required \cup {"xor", "aead", "stripped"}

HeaderValid(h) ==
    /\ h.magic
    /\ h.version = 1
    /\ h.header_size = 60
    /\ Required \subseteq h.flags
    /\ h.flags \subseteq Known
    /\ Cardinality(h.flags \cap {"xor", "aead"}) = 1
    /\ h.chunk_size \in 1 .. MAX_CHUNK_SIZE
    /\ h.alignment \in {2^k : k \in 0 .. 20}
    /\ h.alignment <= MAX_ALIGNMENT
    /\ h.toc_size <= MAX_TOC_STORED_SIZE
    /\ h.toc_raw_size <= MAX_TOC_RAW_SIZE

\* The fewest bytes the declared records can take: a debug entry has a path.
MinimumRaw(h) ==
    4 + 36 * h.entry_count + 36 * h.chunk_count
      + IF "stripped" \in h.flags THEN 0 ELSE h.entry_count

\* Both encodings of the table, paths as long as all of it, and the records.
EstimatedMetadata(h) ==
    h.toc_size + h.toc_raw_size + h.toc_raw_size
      + h.entry_count * ENTRY_BYTES + h.chunk_count * CHUNK_BYTES

\* Mutant: the memory is not estimated.
WithinLimits_NoEstimate(h) ==
    /\ h.toc_size <= limits.max_toc_stored_bytes
    /\ h.toc_raw_size <= limits.max_toc_raw_bytes
    /\ h.entry_count <= limits.max_entries
    /\ h.chunk_count <= limits.max_chunks
    /\ "stripped" \in h.flags \/ h.entry_count <= limits.max_total_path_bytes
    /\ MinimumRaw(h) <= h.toc_raw_size

WithinLimits(h) ==
    /\ h.toc_size <= limits.max_toc_stored_bytes
    /\ h.toc_raw_size <= limits.max_toc_raw_bytes
    /\ h.entry_count <= limits.max_entries
    /\ h.chunk_count <= limits.max_chunks
    /\ "stripped" \in h.flags \/ h.entry_count <= limits.max_total_path_bytes
    /\ MinimumRaw(h) <= h.toc_raw_size
    /\ EstimatedMetadata(h) <= limits.max_metadata_bytes

TocPlaced(h) ==
    /\ h.toc_offset >= 60
    /\ h.toc_offset + h.toc_size <= FileLen
    /\ h.toc_offset % h.alignment = 0

\* The key may be empty, the file too short, its length unknown.
CheckHeader ==
    /\ pc = "header"
    /\ \/ /\ HeaderValid(header) /\ WithinLimits(header) /\ TocPlaced(header)
          /\ pc' = "toc" /\ UNCHANGED err
       \/ /\ ~(HeaderValid(header) /\ WithinLimits(header) /\ TocPlaced(header))
          /\ Reject("header")
       \/ Reject("source")
    /\ UNCHANGED <<header, limits, decodeVars, indexVars>>

\* The stored table is read, decrypted, decompressed to toc_raw_size bytes and
\* compared with toc_hash; any of it may fail.  decode_toc takes its magic and
\* compares the counts with its length, as validate_limits did.
ReadToc ==
    /\ pc = "toc"
    /\ \/ pc' = "entries" /\ cursor' = 4 /\ UNCHANGED err
       \/ Reject("toc") /\ UNCHANGED cursor
    /\ UNCHANGED <<header, limits, total_path_bytes, entries, chunk_count, indexVars>>

-----------------------------------------------------------------------------
(* decode_toc *)

\* Mutant: the path is taken without asking whether the table holds it.
EntryDecodes_PathUnbounded(r) ==
    /\ cursor + 36 <= header.toc_raw_size
    /\ r.original_size <= limits.max_single_asset_bytes
    /\ r.reserved = 0
    /\ RawLen[r.path] <= limits.max_path_bytes
    /\ total_path_bytes + RawLen[r.path] <= limits.max_total_path_bytes
    /\ IF paths_stripped THEN r.path = Empty
       ELSE /\ r.path # Empty
            /\ Normalized[r.path] # Rejected
            /\ PathHash[Normalized[r.path]] = r.path_hash

\* The checks on one entry record r whose bytes begin at the cursor.
EntryDecodes(r) ==
    /\ cursor + 36 <= header.toc_raw_size
    /\ r.original_size <= limits.max_single_asset_bytes
    /\ r.reserved = 0
    /\ RawLen[r.path] <= limits.max_path_bytes
    /\ total_path_bytes + RawLen[r.path] <= limits.max_total_path_bytes
    /\ cursor + 36 + RawLen[r.path] <= header.toc_raw_size
    /\ IF paths_stripped THEN r.path = Empty
       ELSE /\ r.path # Empty
            /\ Normalized[r.path] # Rejected
            /\ PathHash[Normalized[r.path]] = r.path_hash

DecodeEntry(r) ==
    /\ pc = "entries"
    /\ Len(entries) < header.entry_count
    /\ IF EntryDecodes(r)
       THEN /\ cursor' = cursor + 36 + RawLen[r.path]
            /\ total_path_bytes' = total_path_bytes + RawLen[r.path]
            /\ entries' = Append(entries,
                  [path |-> IF paths_stripped THEN Empty ELSE Normalized[r.path],
                   path_hash |-> r.path_hash])
            /\ UNCHANGED <<pc, err>>
       ELSE Reject("entry") /\ UNCHANGED <<cursor, total_path_bytes, entries>>
    /\ UNCHANGED <<header, limits, chunk_count, indexVars>>

\* The chunk table is allocated.
EndOfEntries ==
    /\ pc = "entries"
    /\ Len(entries) = header.entry_count
    /\ \/ pc' = "chunks" /\ UNCHANGED err
       \/ Reject("memory")
    /\ UNCHANGED <<header, limits, decodeVars, indexVars>>

\* A chunk record with flags and a reserved field that are known or not.
DecodeChunk(known) ==
    /\ pc = "chunks"
    /\ chunk_count < header.chunk_count
    /\ IF known /\ cursor + 36 <= header.toc_raw_size
       THEN /\ cursor' = cursor + 36
            /\ chunk_count' = chunk_count + 1
            /\ UNCHANGED <<pc, err>>
       ELSE Reject("chunk") /\ UNCHANGED <<cursor, chunk_count>>
    /\ UNCHANGED <<header, limits, total_path_bytes, entries, indexVars>>

\* No byte is left over; then validate_layout has its say, and the entries and
\* the index are allocated.
EndOfToc ==
    /\ pc = "chunks"
    /\ chunk_count = header.chunk_count
    /\ \/ cursor = header.toc_raw_size /\ pc' = "index" /\ UNCHANGED err
       \/ Reject("toc")
    /\ UNCHANGED <<header, limits, decodeVars, indexVars>>

-----------------------------------------------------------------------------
(* The index *)

Id(k) == index[k][1]
EntryOf(k) == index[k][2]

\* sort_unstable_by_key: ids in order, entries with the same id in any.
SortedIndexes ==
    {[k \in DOMAIN entries |-> <<entries[order[k]].path_hash, order[k]>>] :
        order \in {o \in Bijection(DOMAIN entries, DOMAIN entries) :
            \A j, k \in DOMAIN entries :
                j < k => entries[o[j]].path_hash <= entries[o[k]].path_hash}}

SortIndex ==
    /\ pc = "index"
    /\ index' \in SortedIndexes
    /\ start' = 1
    /\ pc' = "buckets"
    /\ UNCHANGED <<header, limits, decodeVars, err>>

\* The first position past the entries that share the id at start.
BucketEnd == start + Cardinality({k \in start .. Len(index) :
                \A j \in start .. k : Id(j) = Id(start)})

Bucket == start .. (BucketEnd - 1)

\* Mutants: only neighbours are compared; a full bucket is refused.
BucketValid_Neighbours ==
    /\ Cardinality(Bucket) <= HARD_MAX_IDENTIFIER_BUCKET_ENTRIES
    /\ paths_stripped => Cardinality(Bucket) = 1
    /\ \A k \in Bucket : k + 1 \in Bucket =>
          entries[EntryOf(k)].path # entries[EntryOf(k + 1)].path

BucketValid_FullRefused ==
    /\ Cardinality(Bucket) < HARD_MAX_IDENTIFIER_BUCKET_ENTRIES
    /\ paths_stripped => Cardinality(Bucket) = 1
    /\ \A j, k \in Bucket : j # k => entries[EntryOf(j)].path # entries[EntryOf(k)].path

\* Within a bucket the paths go through a HashSet.
BucketValid ==
    /\ Cardinality(Bucket) <= HARD_MAX_IDENTIFIER_BUCKET_ENTRIES
    /\ paths_stripped => Cardinality(Bucket) = 1
    /\ \A j, k \in Bucket : j # k => entries[EntryOf(j)].path # entries[EntryOf(k)].path

CheckBucket ==
    /\ pc = "buckets"
    /\ start <= Len(index)
    /\ \/ BucketValid /\ start' = BucketEnd /\ UNCHANGED <<pc, err>>
       \/ ~BucketValid /\ Reject("index") /\ UNCHANGED start
       \/ Reject("memory") /\ UNCHANGED start
    /\ UNCHANGED <<header, limits, decodeVars, index>>

Opened ==
    /\ pc = "buckets"
    /\ start > Len(index)
    /\ pc' = "open"
    /\ UNCHANGED <<header, limits, decodeVars, indexVars, err>>

Terminated == pc \in {"open", "rejected"} /\ UNCHANGED vars

Next ==
    \/ CheckHeader
    \/ ReadToc
    \/ \E r \in [path : StoredPaths \cup {Empty}, path_hash : Hashes,
                 original_size : Sizes, reserved : {0, 1}] : DecodeEntry(r)
    \/ EndOfEntries
    \/ \E known \in BOOLEAN : DecodeChunk(known)
    \/ EndOfToc
    \/ SortIndex
    \/ CheckBucket
    \/ Opened
    \/ Terminated

Spec == Init /\ [][Next]_vars

-----------------------------------------------------------------------------
(* Lookups in the open archive *)

NotFound == 0
Collision == -1
InvalidPath == -2

\* hash_range: two partition points of the sorted index.
HashRange(id) ==
    (Cardinality({k \in DOMAIN index : Id(k) < id}) + 1)
        .. Cardinality({k \in DOMAIN index : Id(k) <= id})

FirstOf(S) == CHOOSE k \in S : \A j \in S : k <= j

\* find_entry_index_normalized
FindPath(p) ==
    LET range == HashRange(PathHash[p])
        matching == {k \in range : entries[EntryOf(k)].path = p} IN
    IF range = {} THEN NotFound
    ELSE IF paths_stripped THEN EntryOf(FirstOf(range))
    ELSE IF matching = {} THEN NotFound
    ELSE EntryOf(FirstOf(matching))

\* entry, contains, read: a lookup with the path as the client spells it.
Find(q) == IF Normalized[q] = Rejected THEN InvalidPath ELSE FindPath(Normalized[q])

\* find_entry_index_by_id
FindId(id) ==
    LET range == HashRange(id) IN
    IF range = {} THEN NotFound
    ELSE IF Cardinality(range) # 1 THEN Collision
    ELSE EntryOf(FirstOf(range))

-----------------------------------------------------------------------------
(* Properties *)

\* The decoder and the index keep their shape; the decoder never stands past
\* the end of the table.
TypeOK ==
    /\ pc \in {"header", "toc", "entries", "chunks", "index", "buckets",
               "open", "rejected"}
    /\ header \in Headers
    /\ cursor \in 0 .. header.toc_raw_size
    /\ total_path_bytes \in 0 .. cursor
    /\ entries \in Seq([path : Paths \cup {Empty}, path_hash : Hashes])
    /\ chunk_count \in 0 .. header.chunk_count
    /\ index \in Seq(Hashes \X (1 .. Len(entries)))
    /\ start \in 1 .. (Len(index) + 1)

\* The names a path goes through, for each path that may be looked up.
Meaning == [q \in {x \in RawPaths : Accepted(x)} |-> Reference(q)]

\* In an open archive lookups are exact.  By path: however it is spelled in
\* the record and by the client, an entry is found under the names it goes
\* through and no others, colliding hashes or not; without paths, under their
\* hash; and a path that leaves its root or names nothing is refused.  By id:
\* the one entry that has it, or a collision when several do.
LookupsExact ==
    pc = "open" =>
        /\ \A q \in RawPaths :
              LET found == Find(q) IN
              IF q \notin DOMAIN Meaning THEN found = InvalidPath
              ELSE \A i \in DOMAIN entries :
                     found = i <=>
                        IF paths_stripped THEN entries[i].path_hash = PathHash[Meaning[q]]
                        ELSE entries[i].path = Meaning[q]
        /\ \A id \in Hashes :
              LET having == {i \in DOMAIN entries : entries[i].path_hash = id} IN
              /\ having = {} <=> FindId(id) = NotFound
              /\ FindId(id) = Collision <=> Cardinality(having) > 1
              /\ FindId(id) > 0 => having = {FindId(id)}

\* The index is only refused when two entries would answer to one lookup, or
\* too many share an id.
RefusedIndexIsAmbiguous ==
    err = "index" =>
        \E i \in DOMAIN entries :
            LET same == {j \in DOMAIN entries : entries[j].path_hash = entries[i].path_hash} IN
            \/ Cardinality(same) > HARD_MAX_IDENTIFIER_BUCKET_ENTRIES
            \/ paths_stripped /\ Cardinality(same) > 1
            \/ \E j \in same : j # i /\ entries[j].path = entries[i].path

\* What an open archive keeps in memory is within the caller's limit, though
\* the limit was only compared with an estimate made from the header.
RetainedWithinLimit ==
    pc = "open" =>
        /\ Len(entries) * ENTRY_BYTES + chunk_count * CHUNK_BYTES
             + SumFunction([i \in DOMAIN entries |-> RawLen[entries[i].path]])
             <= limits.max_metadata_bytes
        /\ Len(entries) <= HARD.max_entries
        /\ SumFunction([i \in DOMAIN entries |-> RawLen[entries[i].path]])
             <= limits.max_total_path_bytes
=============================================================================
