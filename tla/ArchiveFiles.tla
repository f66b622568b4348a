---------------------------- MODULE ArchiveFiles ----------------------------
(***************************************************************************)
(* One archive path and the programs that use it: rasen_pack_file calls,   *)
(* which create it and remove it again when they fail; pack_dir            *)
(* invocations, of which only the final rename is seen here; and the CLI's *)
(* list, info, verify and extract, which open it once and keep the handle. *)
(*                                                                         *)
(* A file is named by who made it.  Packer.tla and WriterStack.tla show    *)
(* that a file can be opened only when its header is complete, and that    *)
(* its body is then complete too: stage counts the writes up to that.      *)
(***************************************************************************)
EXTENDS Naturals, Sequences, FiniteSets

CONSTANTS
    Packers,      \* calls of rasen_pack_file
    Publishers,   \* invocations of pack_dir
    Readers,      \* invocations of list, info, verify and extract
    Absent, Old,  \* no file; an archive that was there before
    CHUNKS,       \* the chunks of an archive: one entry, in the CLI's order
    STAGES,       \* the writes that make an archive, the header's last one last
    MaxSpoils     \* bound: files somebody writes into

ASSUME ArchiveFilesAssumption ==
    /\ Absent \notin Packers \cup Publishers \cup {Old}
    /\ Old \notin Packers \cup Publishers
    /\ Packers \cap Publishers = {}
    /\ Readers \cap (Packers \cup Publishers) = {}
    /\ {CHUNKS, STAGES} \subseteq Nat \ {0}
    /\ MaxSpoils \in Nat

Files == Packers \cup Publishers \cup {Old}
Commands == {"list", "info", "verify", "extract"}

VARIABLES
    at,        \* what the archive path names
    stage,     \* per file: how much of it is written
    spoiled,   \* files somebody has truncated or written into
    displaced, \* calls whose file another took off the path (history)
    pc,        \* per program
    command,   \* per reader
    handle,    \* per reader: the file it has open
    got,       \* per reader: the chunks it has read
    output     \* per reader: what extract's output file holds

fileVars == <<at, stage, spoiled, displaced>>
readerVars == <<command, handle, got, output>>
vars == <<fileVars, pc, readerVars>>

\* extract's output before it runs: some other file.
Before == <<"before">>

Init ==
    /\ at \in {Absent, Old}
    /\ stage = [f \in Files |-> IF f = Old THEN STAGES ELSE 0]
    /\ spoiled = {}
    /\ displaced = {}
    /\ pc = [p \in Packers \cup Publishers \cup Readers |-> "start"]
    /\ command \in [Readers -> Commands]
    /\ handle = [r \in Readers |-> Absent]
    /\ got = [r \in Readers |-> << >>]
    /\ output = [r \in Readers |-> Before]

Goto(p, l) == pc' = [pc EXCEPT ![p] = l]

\* The path's name for a file goes away, which the call still at work on the
\* file does not notice.
Displace(who) ==
    displaced' = displaced \cup
        {p \in Packers : p = at /\ p # who /\ pc[p] \in {"pack", "remove"}}

-----------------------------------------------------------------------------
(* rasen_pack_file *)

\* Faulty: File::create.
CreateNew_Truncates(p) ==
    /\ pc[p] = "start"
    /\ at' = p
    /\ Goto(p, "pack")
    /\ UNCHANGED <<stage, spoiled, displaced, readerVars>>

\* The arguments are refused, or create_new finds a file there; or it does not.
CreateNew(p) ==
    /\ pc[p] = "start"
    /\ \/ Goto(p, "err") /\ UNCHANGED at
       \/ at = Absent /\ at' = p /\ Goto(p, "pack")
    /\ UNCHANGED <<stage, spoiled, displaced, readerVars>>

\* pack_buffered, one write after another.
PackBuffered(p) ==
    /\ pc[p] = "pack"
    /\ stage[p] < STAGES
    /\ stage' = [stage EXCEPT ![p] = @ + 1]
    /\ UNCHANGED <<at, spoiled, displaced, pc, readerVars>>

PackReturnsOk(p) ==
    /\ pc[p] = "pack"
    /\ stage[p] = STAGES
    /\ Goto(p, "ok")
    /\ UNCHANGED <<fileVars, readerVars>>

\* An input or a write fails, the last seek included.
PackReturnsErr(p) ==
    /\ pc[p] = "pack"
    /\ Goto(p, "remove")
    /\ UNCHANGED <<fileVars, readerVars>>

\* remove_file, by path: it takes what the path names now.  Whether it worked
\* is not looked at.
RemoveFile(p) ==
    /\ pc[p] = "remove"
    /\ \/ at' = Absent /\ Displace(p) /\ Goto(p, "err")
       \/ UNCHANGED <<at, displaced>> /\ Goto(p, "leaked")
    /\ UNCHANGED <<stage, spoiled, readerVars>>

Crash(p) ==
    /\ pc[p] \in {"pack", "remove"}
    /\ Goto(p, "dead")
    /\ UNCHANGED <<fileVars, readerVars>>

-----------------------------------------------------------------------------
(* The others who change what the path names *)

\* pack_dir's rename of a file that is complete.
Rename(q) ==
    /\ pc[q] = "start"
    /\ at' = q
    /\ Displace(q)
    /\ stage' = [stage EXCEPT ![q] = STAGES]
    /\ Goto(q, "ok")
    /\ UNCHANGED <<spoiled, readerVars>>

\* A user removes the file, whether or not a call is still writing it.
Tidy ==
    /\ at # Absent
    /\ at' = Absent
    /\ Displace(Absent)
    /\ UNCHANGED <<stage, spoiled, pc, readerVars>>

\* Somebody truncates the file or writes into it: an extract into it, say.
Spoil ==
    /\ at # Absent
    /\ at \notin spoiled
    /\ Cardinality(spoiled) < MaxSpoils
    /\ spoiled' = spoiled \cup {at}
    /\ UNCHANGED <<at, stage, displaced, pc, readerVars>>

-----------------------------------------------------------------------------
(* list_archive, info_archive, verify_archive, extract_one *)

\* Command::{List, Info, Verify, Extract}: File::open.
FileOpen(r) ==
    /\ pc[r] = "start"
    /\ IF at = Absent
       THEN Goto(r, "err") /\ UNCHANGED handle
       ELSE Goto(r, "open") /\ handle' = [handle EXCEPT ![r] = at]
    /\ UNCHANGED <<fileVars, command, got, output>>

\* Faulty: the archive is looked up again for each read.
Source_Reopened(r) == IF at = Absent THEN handle[r] ELSE at

\* What a read goes to: the file that was opened.
Source(r) == handle[r]

\* Archive::open_with_limits, with its reads of the header and of the table;
\* then what list and info print is known.
OpenArchive(r) ==
    /\ pc[r] = "open"
    /\ \/ /\ stage[Source(r)] = STAGES /\ Source(r) \notin spoiled
          /\ Goto(r, IF command[r] \in {"list", "info"} THEN "ok" ELSE "read")
       \/ Goto(r, "err")
    /\ UNCHANGED <<fileVars, readerVars>>

ChecksumOk(r) == Source(r) \notin spoiled

\* verify and read, chunk by chunk.
ReadChunk(r) ==
    /\ pc[r] = "read"
    /\ Len(got[r]) < CHUNKS
    /\ IF ChecksumOk(r)
       THEN /\ got' = [got EXCEPT ![r] = Append(@,
                         <<Source(r), Len(@) + 1, Source(r) \in spoiled>>)]
            /\ UNCHANGED pc
       ELSE Goto(r, "err") /\ UNCHANGED got
    /\ UNCHANGED <<fileVars, command, handle, output>>

\* An I/O error, or a virtual path that is not in the archive.
ReadFails(r) ==
    /\ pc[r] = "read"
    /\ Goto(r, "err")
    /\ UNCHANGED <<fileVars, readerVars>>

\* Faulty: extract creates its output before it has read.
ReadDone_CreatesFirst(r) ==
    /\ pc[r] = "read"
    /\ Len(got[r]) < CHUNKS
    /\ command[r] = "extract"
    /\ output' = [output EXCEPT ![r] = << >>]
    /\ UNCHANGED <<fileVars, pc, command, handle, got>>

\* verify returns; extract goes on to fs::write, which truncates.
ReadDone(r) ==
    /\ pc[r] = "read"
    /\ Len(got[r]) = CHUNKS
    /\ IF command[r] = "verify" THEN Goto(r, "ok") /\ UNCHANGED output
       ELSE /\ Goto(r, "write")
            /\ output' = [output EXCEPT ![r] = << >>]
    /\ UNCHANGED <<fileVars, command, handle, got>>

\* fs::write puts all of it, or fails having put some.
FsWrite(r) ==
    /\ pc[r] = "write"
    /\ \/ output' = [output EXCEPT ![r] = got[r]] /\ Goto(r, "ok")
       \/ /\ \E n \in 0 .. Len(got[r]) - 1 :
                output' = [output EXCEPT ![r] = SubSeq(got[r], 1, n)]
          /\ Goto(r, "write_err")
    /\ UNCHANGED <<fileVars, command, handle, got>>

-----------------------------------------------------------------------------
Terminated ==
    /\ \A p \in DOMAIN pc : pc[p] \notin {"start", "pack", "remove", "open", "read", "write"}
    /\ UNCHANGED vars

Next ==
    \/ \E p \in Packers :
          \/ CreateNew(p) \/ PackBuffered(p) \/ PackReturnsOk(p)
          \/ PackReturnsErr(p) \/ RemoveFile(p) \/ Crash(p)
    \/ \E q \in Publishers : Rename(q)
    \/ \E r \in Readers :
          \/ FileOpen(r) \/ OpenArchive(r) \/ ReadChunk(r) \/ ReadFails(r)
          \/ ReadDone(r) \/ FsWrite(r)
    \/ Tidy \/ Spoil
    \/ Terminated

Spec == Init /\ [][Next]_vars

-----------------------------------------------------------------------------
(* Properties *)

PCs == {"start", "pack", "remove", "open", "read", "write",
        "ok", "err", "leaked", "dead", "write_err"}

\* Programs, files and handles have the shape the code gives them, and no
\* reader collects more than the archive has.
TypeOK ==
    /\ at \in Files \cup {Absent}
    /\ stage \in [Files -> 0 .. STAGES]
    /\ spoiled \subseteq Files
    /\ displaced \subseteq Packers
    /\ pc \in [Packers \cup Publishers \cup Readers -> PCs]
    /\ command \in [Readers -> Commands]
    /\ handle \in [Readers -> Files \cup {Absent}]
    /\ \A r \in Readers : Len(got[r]) <= CHUNKS

\* Chunk i of the file f as it was packed.
Asset(f) == [i \in 1 .. CHUNKS |-> <<f, i, FALSE>>]

\* What extract reports as extracted is the asset of one archive, as it was
\* packed: the one the path named when it was opened, whatever is renamed over
\* it, removed or written into meanwhile.
ExtractsOneArchive ==
    \A r \in Readers :
        pc[r] = "ok" /\ command[r] = "extract" => output[r] = Asset(handle[r])

\* When the archive cannot be opened, or the asset not read, extract leaves
\* its output file alone.
FailedReadKeepsOutput ==
    \A r \in Readers : pc[r] = "err" => output[r] = Before

\* rasen_pack_file, in the header's words, "Creates a new file and refuses to
\* replace an existing path."  No step of a call takes a file off the path that
\* the call did not put there, the removal after a failure included, which
\* goes by path: unless a user, a rename or another such removal has taken the
\* call's own file off the path while it was at work.  Then what it removes is
\* whatever is there by then, another call's new file too.
NeverReplaces ==
    [][\A p \in Packers :
          pc[p] \in {"start", "remove"} /\ pc'[p] # pc[p] /\ at' # at =>
              \/ at \in {Absent, p}
              \/ pc[p] = "remove" /\ p \in displaced]_vars
=============================================================================
