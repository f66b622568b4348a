---------------------------- MODULE MCOpenArchive ---------------------------
(* Small files for TLC: the real record sizes, a few headers, and paths    *)
(* three of which share a hash; four entries overfill their bucket.       *)
EXTENDS OpenArchive, TLC

\* Every path of up to three of these parts may be looked up, and a few others;
\* a record holds one of a few.
SpellingParts == {"", ".", "..", "a"}
MCParts == SpellingParts \cup {"b", "c", "d", "NUL"}
MCPartLen == [p \in MCParts |-> CASE p = "" -> 0 [] p = ".." -> 2 [] OTHER -> 1]
MCStoredPaths == {<<"a">>, <<"b">>, <<"c">>, <<"d">>, <<"a", "">>, <<"..">>}
MCRawPaths == MCStoredPaths \cup {<<"b", ".">>, <<"a", "b">>, <<"a", "NUL">>}
                \cup UNION {[1 .. n -> SpellingParts] : n \in 1 .. 3}
MCPathHash == [p \in Paths |-> IF p = <<"d">> THEN 2 ELSE 1]

\* A sound header for these counts, with room for some bytes of paths.
Header(stripped, n, m, room) ==
    [magic |-> TRUE, version |-> 1, header_size |-> 60,
     flags |-> Required \cup {"aead"} \cup IF stripped THEN {"stripped"} ELSE {},
     alignment |-> 4, chunk_size |-> 2,
     entry_count |-> n, chunk_count |-> m,
     toc_offset |-> 64, toc_size |-> 30,
     toc_raw_size |-> 4 + 36 * (n + m) + room]

Sound == {Header(FALSE, n, m, room) : n \in 0 .. 3, m \in 0 .. 1, room \in 0 .. 4}
            \cup {Header(TRUE, n, m, room) : n \in 0 .. 3, m \in 0 .. 1, room \in {0, 1}}
            \cup {Header(FALSE, 4, 0, 4)}

\* One field of a sound header at fault.
Faulty ==
    LET h == Header(FALSE, 1, 1, 1) IN
    {[h EXCEPT !.magic = FALSE], [h EXCEPT !.version = 2], [h EXCEPT !.header_size = 64],
     [h EXCEPT !.flags = @ \cup {"xor"}], [h EXCEPT !.flags = @ \cup {"new"}],
     [h EXCEPT !.flags = @ \ {"lz4"}], [h EXCEPT !.chunk_size = 0],
     [h EXCEPT !.chunk_size = MAX_CHUNK_SIZE + 1], [h EXCEPT !.alignment = 0],
     [h EXCEPT !.alignment = 3], [h EXCEPT !.alignment = 2 * MAX_ALIGNMENT],
     [h EXCEPT !.toc_size = MAX_TOC_STORED_SIZE + 1],
     [h EXCEPT !.toc_raw_size = MAX_TOC_RAW_SIZE + 1],
     [h EXCEPT !.toc_offset = 56], [h EXCEPT !.toc_offset = 66],
     [h EXCEPT !.toc_offset = FileLen]}

MCHeaders == Sound \cup Faulty

\* The hard maxima, and a caller who asks for more in one field or for just
\* too little in one.
MCHard == [max_toc_stored_bytes |-> 60, max_toc_raw_bytes |-> 200, max_entries |-> 4,
           max_chunks |-> 1, max_path_bytes |-> 2, max_total_path_bytes |-> 4,
           max_single_asset_bytes |-> 5, max_metadata_bytes |-> 1000]

MCCallerLimits ==
    {[MCHard EXCEPT !.max_entries = 9], [MCHard EXCEPT !.max_toc_stored_bytes = 29],
     [MCHard EXCEPT !.max_toc_raw_bytes = 100], [MCHard EXCEPT !.max_entries = 2],
     [MCHard EXCEPT !.max_chunks = 0], [MCHard EXCEPT !.max_path_bytes = 1],
     [MCHard EXCEPT !.max_total_path_bytes = 2], [MCHard EXCEPT !.max_single_asset_bytes = 4],
     [MCHard EXCEPT !.max_metadata_bytes = 350]}
=============================================================================
