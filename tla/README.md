# RPAK archives: a TLA+ development

This directory holds TLA+ modules for `rasen-archive` (the RPAK v1 library),
`rasen-archive-ffi` (its C interface) and `rasen-pack` (its command line tool):
models checked with TLC on small instances, and theorems checked with TLAPS for
every instance. Paths below are relative to `src/crates/`.

## The system

An RPAK archive is a 60-byte header, aligned chunks of stored bytes, and a
table of contents (TOC) of entry and chunk records. Assets are cut into chunks
of a fixed size, each kept compressed (LZ4) when that makes it smaller, and
optionally encrypted (XChaCha20-Poly1305, bound to the chunk's index).

| Part | State | Operations | Talks to | What makes it correct |
|---|---|---|---|---|
| Streaming packer, `rasen-archive/src/pack/writer.rs` | entries, chunks, seen hashes, offset, failed | `new`, `add_reader`, `finish` | a `Read` per file, one `Write + Seek` | a reported success is an archive the reader opens and in which every byte is found; a failure never leaves something that looks like an archive |
| TOC encoding and decoding, `format/toc.rs`, `format/header.rs`, `format/io.rs` | a cursor | `encode_toc`, `decode_toc`, `read_header`, `validate_header` | packer, reader | no read past the table, no record left over |
| Layout validation, `format/toc.rs` | running totals, chunk ownership | `validate_layout` | called by open | accepts exactly the layouts of the format |
| Path normalization, `path.rs` | none | `normalize_path` | packer, open, lookups | every spelling of a path leads to one entry |
| Opening, `archive/reader.rs` | entries, chunks, index | `open_with_limits`, `validate_limits`, `validate_index`, lookups | a `RandomAccessRead` | limits hold, lookups are exact |
| Reading, `archive/reader.rs` | none that is shared; a scratch per call | `read`, `read_into`, `read_chunk(_into)`, `read_range(_exact, _into, _with_scratch)`, `verify` | the source | an answer is the asset's own bytes, damage is reported where it matters |
| Sources, `archive/source.rs`, `rasen-archive-ffi/src/io.rs` | a file shared by threads | `read_exact_at` | file system, memory, C callbacks | a read made of pieces is one read of its own range |
| Writers, `BufWriter<File>` and `CallbackWriter` | a buffer, a recorded position | `write`, `seek`, drop | file system, C callbacks | the header never overtakes the body; nothing is written after a failure |
| CLI pack, `rasen-packer/src/commands.rs` | a temporary file, a list of files | `pack_dir`, `collect_files`, `create_temp` | file system, packer, other invocations | the output is replaced atomically; archives hold the right files |
| CLI list, info, verify, extract, `commands.rs`, `main.rs` | an open file | open, read, write the asset | reader, file system | what is extracted is one archive's asset |
| C interface, `rasen-archive-ffi` | handles, buffers, callback sources, a thread-local error | open, free, reads, pack, `rasen_pack_file`, `rasen_pack_streams` | C callers on several threads, and their callbacks | one owner for everything on every path; the right error |

Hard to test, and what the properties are for: short reads and failing writes
in any order; an interruption between any two writes; sums and indices at the
ends of their integers; tables that are not what the packer writes; colliding
hashes; stored bytes that change under an open archive; a scratch reused
between calls; a buffer that holds back the end of the body while the header is
written; threads that share a file; callbacks that call the library again;
several `rasen-pack` processes and C callers, editors, kills and power failures
in one directory. `PROJECT.json` lists each of them at its line.

An `Archive` is immutable after `open` and every call has its own buffers or
the caller's, so threads that read the same archive share nothing but the
source. `Reader` therefore has one caller and a source that changes under it,
and `PositionedReads` has the threads and the source.

## Modules

`Layout` defines, without reference to any algorithm, what a well-formed layout
is (`WellFormed`): every chunk inside the payload, aligned, in order and of
plausible sizes; each chunk owned by exactly one entry; only the last chunk of
an entry short; sizes that add up. Both the packer and the validator are
measured against it.

`ValidateLayout` is `validate_layout`, one step per chunk and per owned chunk.
The records are chosen as the loops reach them, so a behaviour explores every
table that shares a prefix at once. State: the tables so far, `previous_end`,
`total_decompressed`, the chunks `used`, the entry and position being checked.
Between the two loops the allocation of `used_chunks` may fail.

`Packer` is `Packer::new`, `add_reader` and `finish`. A step is the code between
two calls into the environment: `ReadSome`, `ReadEof` are one `reader.read`;
`PadWrite`, `Store`, `WriteToc`, `WriteHeaderField` one `write_all`. Each write
has its failing counterpart, which leaves none or all but one of its bytes.
`Abandon` is a client that drops the packer or a process that ends. Bytes are
positions in their reader's stream, so a chunk knows what it holds; LZ4 is the
size it returns (any size up to one more than the input); encryption is the
bytes it adds and the index it binds. `disk` is the set of extents written.

`WriterStack` extends `Packer` with what is under its `Write + Seek`: a
`BufWriter` of some capacity (0 is none) over a `File` or over the C callbacks.
Each step of the packer that writes or seeks is taken together with what
reaches the device; a failure may leave any prefix of what was on its way there
and any part of the last piece. `CallbackRead` is `CallbackReader::read` with
its status and count. A `CallbackWriter` fails a write whose bytes have all gone
out when the sum of its recorded position overflows (`PositionOverflows`).
`DropWriter` is the flush that `BufWriter` attempts when
it is dropped. `BufWriter` is a library, modelled from its documented
behaviour: it flushes before a write that does not fit and before a seek,
passes large writes through, and keeps what it could not write. The module
also instantiates `OpenArchive` to ask whether what the device holds at this
moment would open (`DeviceOpens`).

`NormalizePath` has `normalize_path` as operators on the sequence of parts of a
path, with the loop as a recursive function, and a definition of what it should
be, from the names among the parts and without the loop (`Accepted`,
`Reference`). `OpenArchive` uses it for the paths of records and of lookups.
`Packer` takes the normal form of a path as a constant function.

`OpenArchive` is `open_with_limits`: header, limits, the decoder with its
cursor, the index sorted by an unstable sort, `validate_index` bucket by bucket,
and the lookups by path and id as operators on the open state. `validate_layout`
is a choice here, since `ValidateLayout` has it in full. Allocation failures are
alternatives where the code has them.

`Reader` is every read method and `verify` on an open archive whose table is
well-formed. A step is one chunk. The stored bytes of a chunk may be damaged at
any time (`Damage`), every read of the source may fail, and a read that fails
may have filled half of its buffer. The output of `read`, `read_chunk` and
`read_range` and the two buffers of a scratch are allocated where the code does,
and each of these allocations may fail. Checksum collisions are left out.

`RandomAccess` is what the trait `RandomAccessRead` promises: a read ends, in
one step, with its range as the file then was, or with an error.
`PositionedReads` is how it is kept: the loop around positioned reads of a
file, which may be short or interrupted and, on Windows, move the cursor the
threads share; `read_slice_exact` on memory; the callback of the C interface.
The file may be truncated or extended between two pieces. `ReadsAreAtomic` says
that `PositionedReads` implements `RandomAccess`; the mapping leaves out pieces,
cursor and signals. A byte is its position in the file, which is why a file
whose length changes can be read in pieces and a file whose bytes change
cannot; `Reader` has the checksums for that. For the same reason a file that is
truncated and extended again has its old bytes in `PResize`, where the system
would give zeroes: what is shown about a file of changing length is where reads
end and that they take their bytes from the right places, not that those bytes
were there all the time. A read of no bytes beyond the end
succeeds on a file and fails on memory, as in the code.

`Ffi` is the C interface as a machine: each thread has a stack of calls, a call
goes through the steps of its function in the order in which Rust evaluates
them (checks, library call, allocation, assignment of the output), and a
callback may make calls of its own. Functions are records, so the twenty of them
share the actions. The caller keeps the header's contract: it frees a handle
once, not while a call uses it, and gives output variables that own nothing.
`rasen_scratch_new(NULL)` makes its box before it looks at the pointer, and the
box is then nobody's. The history variable `lost` gathers the boxes left by
failed calls of this one function, and `OwnedOnce` excepts these and no others.
A failing call first drops what it holds, which may run the caller's `destroy`
and calls inside it, then sets the thread's message (`SetLastError`) and then
returns (`ReturnError`). `latest`, which a return sets, is thus written at another
moment than `last_error`, and with calls in between on the same thread; that they
agree whenever the caller's code runs is `ErrorIsLatest`.

`PackDir` is `pack_dir`: processes that resolve the output, list one directory
per step, create a temporary file, open each file and read it into the packer in
two steps (`OpenFile`, `AddFile`), flush, sync, rename and clean up. `source` is
what an open file has held since it was opened: a user who writes to it between
the two steps adds to it, and the entry may hold any part of it. A file that is
replaced or deleted after its open is still read as it was. The environment edits inputs, kills processes, writes directory
changes back to disk and loses power. There may be temporary files of
invocations killed earlier (`Leftover`), under names that processes with reused
ids try. A directory listing is one step (the system call sequence is finer).
The time stamp in temporary names is taken to stand still, the worst case for
name clashes. Two files whose names normalize to one virtual path have equal
`Rank`. Not finishing durably is allowed: the directory is not synced after the
rename, so an output may go back to an earlier file when power is lost, which
the code nowhere excludes.

`AtomicOutput` is the promise behind "failure-safe same-directory temporary
output replacement" (the repository's README): the output is always what was
there before or the published archive of some invocation, and changes in one
step. `PackDir!ReplacesAtomically` says that `PackDir` implements it; the
mapping sends what the output path names to `out`, what it names on disk to
`durable`, and each invocation's program counter to its `status`.

`ArchiveFiles` is one archive path and those who use it: `rasen_pack_file`
calls, which create the file exclusively and remove it by path when they fail;
`pack_dir`, reduced to its rename; the CLI's list, info, verify and extract,
which hold the file open; a user who removes the file and a program that writes
into it. A file is as many stages of being written as `STAGES` says, and opens
in the last one, which is what `Packer!HeaderCommitsBody` allows. The user may
remove the file at any time, that of a call at work on it too; `displaced` are the
calls whose file somebody took off the path while they were at work.

`MC*` modules give constants for TLC. `*Proofs` modules hold theorems.
Operators named `X_Something` before an action `X` are faulty variants of it;
no specification uses them. They show that a property notices the fault.
Each module states its type invariant; those of `ValidateLayout`, `Packer` and
`OpenArchive` are part of a run, because an offset, total or cursor that leaves
its range would show there first. The others hold on the instances below too.

## Runs

| Run | Instance | Distinct states | What it shows |
|---|---|---|---|
| `validate_layout` | up to 2 chunks and 2 entries, three headers, `U64_MAX` = 200 | 249,180 | exactly the well-formed tables are accepted, and entry totals cannot overflow |
| `packer` | three files of up to 4 bytes, chunk sizes 2 and 3, alignments 1, 4, 8, both modes and protections; `U32_MAX` = 3, `U64_MAX` = 190 and TOC limits that tables reach | 188,606 | finished archives are well-formed, every byte is found, the header commits the body, also at the ends of the integers; calls return |
| `writer_stack` | two files of up to 3 bytes; buffers of 0, 8, 64, 120 and 400 bytes | 74,015 | the header reaches the device after the body; when `finish` returns all of the archive is there, without a flush; what a failure leaves opens only if it is complete; nothing is written after a failed callback |
| `open_archive` | up to 4 entries, 6 stored spellings of paths three of which share a hash, lookups by every path of up to three parts, bucket limit 3, 16 faulty headers, 9 limits | 74,143 | a lookup by any spelling is exact, no index refused without cause, memory within the limit |
| `reader` | three archives, encrypted or not, two calls, one damaged chunk, budget of 2 chunks | 82,059 | reads return the asset, damage is local, no loop blames a sound table |
| `positioned_reads` | 2 threads, a source of up to 3 bytes, ranges that end at, before and after its end, one signal | 140,766 | reads are atomic, and return |
| `ffi` | 2 threads of 2 calls, the second possibly inside a callback of the first, 4 boxes, one callback source | 930,379 | every box has one owner, a source is destroyed once and not read after, the caller's code always finds the thread's latest error |
| `pack_dir` | 2 concurrent invocations, two temporary names with leftovers, one edit, one power failure, an output that is absent, a file or a link into the tree | 622,590 | atomic replacement, self-exclusion, completeness, one order of entries for the same files; no file of another invocation is touched; each invocation ends |
| `archive_files` | 2 `rasen_pack_file` calls, one `pack_dir`, one reader, one spoiled file | 2,065,194 | what is extracted is one archive's asset; a failing read keeps the old output; a call takes a file that is not its own off the path only if its own was taken off before |

The bounds are chosen so that each interesting case occurs: a chunk that is
full, short, compressed and not; an entry with none, one and several chunks;
padding of none, one and several writes; a buffer that is absent, smaller than
a header field, smaller and larger than the header, and larger than the
archive; a bucket that is full and one that overflows; ranges that begin and
end at, before and after chunk boundaries; a temporary name that is free, taken
once, and taken every time; a call inside the callback of a call. Two entries
are enough for every pairwise property of entries; three chunks in an entry
give a first, a middle and a last one; two threads or processes are enough for
every property of a pair of them.

Three runs are expected to find a violation; each states a sentence of the
repository's documentation that the code does not keep:

* `packer_eof`: with a reader that delivers bytes after returning `Ok(0)`,
  `finish` succeeds for an archive whose middle chunk is short, and which the
  reader refuses. With a reader whose end is final (the constant `EofIsFinal`)
  the property holds, and is proved.
* `pack_dir_stale`: temporary files of killed or concurrent invocations are
  packed when the output is inside the input tree.
* `reader_outputs`: a caller's buffer is written to before a chunk's checksum
  has been compared, contrary to the C header's "Functions leave outputs
  unchanged on error". Range reads are better: they go through the scratch, and
  `RangeWritesVerified` shows that what they have written was checked.

Three smaller differences between text and code are in the models and have no
run of their own. `read_range` refuses, instead of clipping, a range whose end
is beyond the largest 64-bit integer (`reader.rs:652`; the repository's README,
lines 123-124, says ranges are clipped). `rasen_archive_read_range_into` and
`_with_scratch` notice a NULL `out_read` only after they have filled `dst`
(`archive.rs:383`). And a `rasen_pack_file` that fails removes its output by
path (`pack.rs:94`): if a user has removed its unfinished file and another call
has created one there in the meantime, or `rasen-pack` has renamed an archive
there, it is that file that goes. The header (`rasen_archive.h:250`) says only that
the function "refuses to replace an existing path", which it does; so
`NeverReplaces` excepts the removal by a call that is `displaced`, and nothing
else.

Fairness. `CallReturns` assumes that a running call takes steps (weak fairness
of `CallStep`): the code is sequential and waits for nothing but its reader and
writer, which return. The stream is bounded by `MaxStreamBytes`; a reader that
never ends is a call that never returns. `PackEnds` assumes only that some
invocation goes on as long as one can (weak fairness of all processes together);
since none makes endlessly many steps and none waits for another, all end.
`ReadsReturn` assumes that each thread in a read is scheduled, and that signals end (`MaxSignals`): the loop repeats an interrupted
read for ever. None assumes that a system call succeeds.

## Theorems

For every value of the constants that satisfies the named assumptions, and so
for any number of files, chunks, entries, calls, threads and processes:

`ValidateLayoutProofs`
* `TypeCorrect`: the running sums stay within 64 bits, the decompressed total
  within the caller's limit, indices and ownership marks in the table.
* `VerdictIsExact`: what is accepted is `WellFormed`, sums included, and what is
  refused has a fault in the part the error names, is beyond the limit, or found
  no memory for `used_chunks`. The invariant says that the chunks checked so far
  are sound and disjoint, that the entries checked so far own disjoint ranges,
  that `used` is exactly what they and the current prefix own, and that the
  running totals are the sums over the chunks seen (`SumInv`, `EntrySumInv`), so
  that comparing a total compares the sum. Orphans are excluded at the end by
  counting nothing, only from `used` being everything.
* `EntryAdditionsNeverOverflow`: the checked additions of the entry loop cannot
  fail, because the chunk loop has bounded what distinct chunks contribute.

`PackerProofs`
* `TypeCorrect`: includes that `offset` never exceeds `U64_MAX` and that a chunk
  never exceeds `chunk_size`, which needs what the phase of a call says of its
  buffer.
* `HeaderWrittenLast`: at every moment, a destination whose header has begun to
  be written holds the table and every chunk it names.
* `FinishedTablesAreSound`: with readers of any kind, also those of `packer_eof`,
  all of `WellFormed` but the sizes of chunks inside an entry. The invariant
  `IInv` combines: where the writer stands relative to `offset`, also in the
  middle of padding; chunks
  sound, aligned, disjoint and below the payload's end; entries' ranges in order
  and covering all chunks but those of the current call; all chunks of the
  current call full until the stream has ended; and each record's extent on
  disk. None of these is inductive without the others: a chunk is disjoint from
  the earlier ones only because `offset` is past them, and lies where its record
  says only because the writer stands at `offset`.
* `FinishedLookupsAreUnique`, `FinishedArchivesAreWellFormed` and
  `FinishedBytesAreFound`, from `ContentInv`: the totals of an entry are the sums
  over its chunks, also in the middle of a call; recorded paths (and hashes,
  where only these are kept) are distinct; each chunk holds the next bytes of its
  stream. The last two have the hypothesis `EofIsFinal`, a reader that serves
  nothing after `Ok(0)`. `std::io::Read` permits other readers, and `packer_eof`
  shows that the statement is false with them.

`PackerProofs`, on `WriterStack`
* `WriterRefinesPacker`: every step with a real writer is a step of `Packer` or
  none, so that what is proved of `Packer` holds with any buffer and any failure.
* `HeaderReachesDeviceLast`, `FinishedArchivesAreOnDevice`,
  `TornHeadersAreRefused` and the action property `NoCallbackAfterFailure`, for buffers of any size. The invariant `StackInv`
  says: what is on the device together with what is buffered, placed from the
  device's cursor on, has every chunk and the table where the packer's records
  have them, as long as nothing failed (`BodyPlaced`); the position is the cursor
  plus what is buffered, and the packer's own until it goes back to the start
  (`CursorAgrees`); before that seek there is no header field anywhere
  (`NoFields`), after it the body is on the device, the first `Sent` fields are in
  their places with at most a part of the next one, and the buffer holds the
  fields that follow, in their order (`HeaderLeaves`); after a failure the packer
  is failed or gone (`BrokenInv`). That the packer appends where its records say
  is `IInv`'s, so `StackInv` is inductive only together with it. A write that
  flushes, one that bypasses the buffer, one that fits, a flush and a failure all
  become the same step: the device takes the first n of the writes in their order,
  and the buffer keeps the rest (`Taken`, `Cut`).

`OpenArchiveProofs`
* `NormalizationIsExact`: for paths of any length the loop of `normalize_path`
  returns `Reference`, is never longer than the path, and refuses exactly what
  `Accepted` excludes. After i turns the loop holds the names among the first i
  parts (`Kept`), or has met a reason to refuse the path (`NoWay`).
* `TypeCorrect`, `RefusalsHaveAReason`, `MemoryStaysWithinLimits` and
  `LookupsAreExact`, for headers, tables and limits of any kind and hashes that
  collide as they like. The invariant: once the header is checked its numbers are
  within the limits, and no more records and no more bytes of paths are kept than
  were declared and counted (`DecodeInv`), which turns the header's promises into
  bounds of what is kept;
  an entry's path is normalized and has its hash, or is stripped (`EntriesInv`);
  the index is a sorted arrangement of the entries, the buckets checked so far
  are apart from the rest and have no two entries that answer to one lookup
  (`IndexInv`). An unstable sort is any sorted arrangement. From the invariant
  follows that the range a lookup searches holds every entry with the hash, and
  at most one that answers. Assumed are the types of a decoded header and of
  `ArchiveLimits`, that the paths in question are sequences of parts, and that the
  stored and normalized paths are among those that may be looked up.

`ReaderProofs`
* `ReadsAreTheAsset`, `RangeOutputIsVerified`, `DamageIsReportedWhereItIs`,
  `AcceptedTablesAreNeverBlamed`, `CallsKeepTheirBudget`, `ReaderTypes`. The
  invariant, `Progress`, says of a running read that it has still to read chunks
  m to z-1 of its entry, that each of them overlaps the bytes asked for, and that
  what it has filled ends where chunk m begins, by the closed form that chunk l
  begins at l * `chunk_size`. That form is itself proved from the sums of
  `WellFormed` (`Starts`, `Ends`): only there is it used that no chunk but the
  last is short. For `verify` it says that every chunk damaged at the start is
  still to be read; that the walk over the entries meets every chunk, and no
  more than the table has, comes from orphans and shared chunks being excluded.
  Assumed of the tables is what `open` guarantees: decoded (`DecodedTable`: their
  types, and a `chunk_size` that is not 0) and `WellFormed`.

`SharedFileProofs`
* `PiecesMakeAtomicReads`: `PositionedReads` implements `RandomAccess`, from an
  invariant that what a read holds is a prefix of its range and its offset the
  length of it on. `OkFillsTheBuffer` states the consequence for a caller.
* `ExtractedIsOneArchive`, `FailedReadsKeepOutput`, `PackFileNeverReplaces`.
  The invariant: what a reader has collected are the first chunks of the file
  it holds, whatever the path names by now; nothing is written before everything
  is read; and a call at work on the file it created has it at the path, unless
  it is `displaced` (`CreatorHasPath`). Assumed is that readers are neither packers nor
  publishers.

`PackDirProofs`
* `OutputAlwaysWhole`, `OutputReplacedAtomically` (the implementation of
  `AtomicOutput`), `OthersUntouched`, `ArchiveNeverInItself`, `NothingIsMissed`,
  `SameFilesArePackedInOneOrder` (of the entries; the bytes of archives of the same
  files differ under AEAD protection, whose nonces are random). `PlaceInv`: from its creation to its rename an
  invocation's file is at its own temporary name and nowhere else, and only what
  was synced, hence whole, is ever at the output, in memory or on disk. `ListInv`:
  live processes have distinct ids, so a name that `create_temp` finds free was
  not among the files listed before. `FoundInv`: a file nobody touches has been
  collected, or is below a directory still to be listed. `SortedInv`: what is
  packed comes, by virtual path, before all that is still to be packed. Trees of
  any shape are covered; assumed is that every directory is below the root.
`FfiProofs`
* `TypeCorrect`, `BoxesOwnedOnce`, `SourcesDestroyedOnce`,
  `ErrorsStayWithTheirThread`, for any number of threads and any depth of
  callbacks. The invariant says of each call what it may hold at its step
  (`FrameOk`: for instance, once a result is allocated only its assignment
  follows), that no two calls share a result, an output or a source (`Apart`),
  that no box is at once a caller's and a call's (`SlotInv`), and that a source is
  the library's exactly while one archive or one call has it (`SourceInv`).
  `ErrInv`: every call below the top of a stack is in a callback, a call that has
  set the message left it its own, and on a thread whose top call is not about to
  return an error, message and latest error agree.

Sums of sizes and the concatenation of verify's lists are folds over data. They
are proved without an induction principle: if a fact about finite sets or
numbers failed, there would be a smallest set or number for which it fails
(`SmallestSet` and `SmallestNat` in `SumTheorems`), and that leads to a
contradiction.

Every invariant and every action property that a passing run checks is stated by
a theorem (two of them under `EofIsFinal`, which the run has too). Only
model-checked is liveness (`CallReturns`, `PackEnds`, `ReadsReturn`), which needs
fairness and `ENABLED`. The properties of the three
runs that are expected to fail are false, and stay with TLC.

## Not modelled

Argument parsing (clap attributes; `chunk_kib * 1024` is checked, and the result
validated with the other options) and what the commands print; the conversion
of plain C structures to Rust ones and back; the ciphers, hashes and LZ4
themselves; the little-endian fields of the records; benches and fuzz targets.
A C caller that breaks the header's contract (frees twice, or frees what another
thread is using) is outside any promise of the code and of `Ffi`. A panic in the
library is a failing call: `ffi_call` catches it; a panic in a C callback is not
modelled, since unwinding out of it is undefined.
