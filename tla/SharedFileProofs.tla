--------------------------- MODULE SharedFileProofs ---------------------------
(***************************************************************************)
(* What is proved of files that several parties use at once.               *)
(*                                                                         *)
(* One archive path (ArchiveFiles), for any number of rasen_pack_file      *)
(* calls, pack_dir invocations and CLI readers, and for archives of any    *)
(* size: what extract reports is one archive's asset, a failed read leaves *)
(* the output file alone, and rasen_pack_file takes no file away but its   *)
(* own unless its own was taken away first.                                *)
(*                                                                         *)
(* One open source (PositionedReads), for any number of threads and any    *)
(* length: it implements RandomAccess, reads made of pieces are atomic.    *)
(***************************************************************************)
EXTENDS ArchiveFiles, PositionedReads, SequenceTheorems, TLAPS

-----------------------------------------------------------------------------
(* One archive path: ArchiveFiles                                          *)

Pieces == (Files \cup {Absent}) \X Nat \X BOOLEAN

Typing ==
    /\ TypeOK
    /\ got \in [Readers -> Seq(Pieces)]
    /\ output \in [Readers -> Seq(Pieces) \cup {Before}]

\* What a reader has collected are the first chunks of the file it opened.
GotOneArchive ==
    \A r \in Readers : \A i \in 1 .. Len(got[r]) : got[r][i] = <<handle[r], i, FALSE>>

\* Where a reader stands says what its output holds: nothing is written before
\* everything is read.
OutputInv ==
    \A r \in Readers :
        /\ pc[r] \in {"start", "open", "read", "err"} => output[r] = Before
        /\ pc[r] \in {"start", "open"} => got[r] = << >>
        /\ pc[r] = "write" => Len(got[r]) = CHUNKS
        /\ pc[r] = "ok" /\ command[r] = "extract" =>
              output[r] = got[r] /\ Len(got[r]) = CHUNKS

\* A call that has created its file and not given it up has it on the path,
\* where create_new finds it, unless another took it off.
CreatorHasPath ==
    \A p \in Packers : pc[p] \in {"pack", "remove"} /\ p \notin displaced => at = p

IInv == Typing /\ GotOneArchive /\ OutputInv /\ CreatorHasPath

-----------------------------------------------------------------------------
LEMMA InitIInv == Init => IInv
<1> SUFFICES ASSUME Init PROVE IInv
  OBVIOUS
<1> USE ArchiveFilesAssumption DEF Init
<1>1. Typing
  <2>1. TypeOK
    BY DEF TypeOK, Files, PCs
  <2> QED
    BY <2>1 DEF Typing, Before
<1>2. GotOneArchive
  BY DEF GotOneArchive
<1>3. OutputInv
  BY DEF OutputInv
<1>4. CreatorHasPath
  BY DEF CreatorHasPath
<1> QED
  BY <1>1, <1>2, <1>3, <1>4 DEF IInv

\* The steps of rasen_pack_file leave the readers alone.
LEMMA PackerStep ==
    ASSUME IInv, NEW p \in Packers,
           \/ CreateNew(p) \/ PackBuffered(p) \/ PackReturnsOk(p)
           \/ PackReturnsErr(p) \/ RemoveFile(p) \/ Crash(p)
    PROVE  IInv'
<1> USE ArchiveFilesAssumption
<1>1. /\ \A q \in (Packers \cup Publishers \cup Readers) \ {p} : pc'[q] = pc[q]
      /\ UNCHANGED <<spoiled, readerVars>>
  BY DEF IInv, Typing, TypeOK, Goto, CreateNew, PackBuffered, PackReturnsOk,
         PackReturnsErr, RemoveFile, Crash, fileVars, readerVars
<1>2. p \notin Readers /\ p \notin Publishers
  OBVIOUS
<1>3. TypeOK'
  <2>1. /\ pc' \in [Packers \cup Publishers \cup Readers -> PCs]
        /\ at' \in Files \cup {Absent}
    BY DEF IInv, Typing, TypeOK, Goto, CreateNew, PackBuffered, PackReturnsOk,
           PackReturnsErr, RemoveFile, Crash, PCs, Files, fileVars
  <2>3. displaced' \subseteq Packers
    BY DEF IInv, Typing, TypeOK, CreateNew, PackBuffered, PackReturnsOk,
           PackReturnsErr, RemoveFile, Crash, Displace, fileVars
  <2>2. stage' \in [Files -> 0 .. STAGES]
    <3>1. CASE PackBuffered(p)
      <4>1. stage[p] \in 0 .. STAGES /\ stage[p] < STAGES /\ p \in Files
        BY <3>1 DEF PackBuffered, IInv, Typing, TypeOK, Files
      <4>2. stage[p] + 1 \in 0 .. STAGES
        BY <4>1
      <4> QED
        BY <3>1, <4>1, <4>2 DEF PackBuffered, IInv, Typing, TypeOK
    <3>2. CASE ~PackBuffered(p)
      BY <3>2 DEF IInv, Typing, TypeOK, CreateNew, PackReturnsOk, PackReturnsErr,
                  RemoveFile, Crash, fileVars
    <3> QED
      BY <3>1, <3>2
  <2> QED
    BY <1>1, <2>1, <2>2, <2>3 DEF IInv, Typing, TypeOK, readerVars
<1>4. Typing'
  BY <1>1, <1>3 DEF IInv, Typing, readerVars
<1>5. GotOneArchive'
  BY <1>1 DEF IInv, GotOneArchive, readerVars
<1>6. OutputInv'
  <2>1. \A r \in Readers : pc'[r] = pc[r]
    BY <1>1, <1>2
  <2> QED
    BY <1>1, <2>1 DEF IInv, OutputInv, readerVars
<1>7. CreatorHasPath'
  <2> SUFFICES ASSUME NEW o \in Packers, pc'[o] \in {"pack", "remove"},
                      o \notin displaced'
               PROVE  at' = o
    BY DEF CreatorHasPath
  <2>1. displaced \subseteq displaced'
    BY DEF CreateNew, PackBuffered, PackReturnsOk, PackReturnsErr, RemoveFile, Crash,
           Displace, fileVars
  <2>2. \A o2 \in Packers : pc[o2] \in {"pack", "remove"} /\ o2 \notin displaced => at = o2
    BY DEF IInv, CreatorHasPath
  <2>3. p \in DOMAIN pc /\ o \in DOMAIN pc /\ o \notin displaced
    BY <2>1 DEF IInv, Typing, TypeOK
  <2>4. CASE CreateNew(p)
    BY <1>1, <2>2, <2>3, <2>4 DEF CreateNew, Goto
  <2>5. CASE RemoveFile(p)
    <3>1. o # p /\ pc[o] \in {"pack", "remove"} /\ at = o
      BY <1>1, <2>2, <2>3, <2>5 DEF RemoveFile, Goto
    <3> QED
      BY <2>5, <3>1 DEF RemoveFile, Displace
  <2>6. CASE PackBuffered(p) \/ PackReturnsOk(p) \/ PackReturnsErr(p) \/ Crash(p)
    BY <1>1, <2>2, <2>3, <2>6
       DEF PackBuffered, PackReturnsOk, PackReturnsErr, Crash, Goto, fileVars
  <2> QED
    BY <2>4, <2>5, <2>6
<1> QED
  BY <1>4, <1>5, <1>6, <1>7 DEF IInv

\* Those who rename over the path, remove the file or write into it.
LEMMA OtherStep ==
    ASSUME IInv, (\E q \in Publishers : Rename(q)) \/ Tidy \/ Spoil
    PROVE  IInv'
<1> USE ArchiveFilesAssumption
<1>1. /\ \A r \in Packers \cup Readers : pc'[r] = pc[r]
      /\ UNCHANGED readerVars
  BY DEF IInv, Typing, TypeOK, Goto, Rename, Tidy, Spoil, readerVars
<1>2. TypeOK'
  <2>1. /\ at' \in Files \cup {Absent} /\ spoiled' \subseteq Files
        /\ pc' \in [Packers \cup Publishers \cup Readers -> PCs]
    BY DEF IInv, Typing, TypeOK, Goto, Rename, Tidy, Spoil, PCs, Files
  <2>2. stage' \in [Files -> 0 .. STAGES]
    BY DEF IInv, Typing, TypeOK, Rename, Tidy, Spoil
  <2>3. displaced' \subseteq Packers
    BY DEF IInv, Typing, TypeOK, Rename, Tidy, Spoil, Displace
  <2> QED
    BY <1>1, <2>1, <2>2, <2>3 DEF IInv, Typing, TypeOK, readerVars
<1>3. Typing'
  BY <1>1, <1>2 DEF IInv, Typing, readerVars
<1>4. GotOneArchive' /\ OutputInv'
  BY <1>1 DEF IInv, GotOneArchive, OutputInv, readerVars
<1>5. CreatorHasPath'
  <2> SUFFICES ASSUME NEW o \in Packers, pc'[o] \in {"pack", "remove"},
                      o \notin displaced'
               PROVE  at' = o
    BY DEF CreatorHasPath
  <2>1. displaced \subseteq displaced' /\ pc'[o] = pc[o]
    BY <1>1 DEF Rename, Tidy, Spoil, Displace
  <2>2. at = o
    BY <2>1 DEF IInv, CreatorHasPath
  <2>3. CASE \E q \in Publishers : Rename(q)
    <3>1. PICK q \in Publishers : Rename(q)
      BY <2>3
    <3>2. o \in displaced'
      BY <2>1, <2>2, <3>1 DEF Rename, Displace
    <3> QED
      BY <3>2
  <2>4. CASE Tidy
    BY <2>1, <2>2, <2>4 DEF Tidy, Displace, Files
  <2>5. CASE Spoil
    BY <2>2, <2>5 DEF Spoil
  <2> QED
    BY <2>3, <2>4, <2>5
<1> QED
  BY <1>3, <1>4, <1>5 DEF IInv

\* The steps of list, info, verify and extract change no file but extract's
\* output, and nothing of another reader's.
LEMMA ReaderStep ==
    ASSUME IInv, NEW r \in Readers,
           \/ FileOpen(r) \/ OpenArchive(r) \/ ReadChunk(r) \/ ReadFails(r)
           \/ ReadDone(r) \/ FsWrite(r)
    PROVE  IInv'
<1> USE ArchiveFilesAssumption
<1> USE DEF fileVars, readerVars, Source, ChecksumOk
<1>0. /\ pc \in [Packers \cup Publishers \cup Readers -> PCs]
      /\ command \in [Readers -> Commands]
      /\ handle \in [Readers -> Files \cup {Absent}]
      /\ got \in [Readers -> Seq(Pieces)]
      /\ output \in [Readers -> Seq(Pieces) \cup {Before}]
      /\ at \in Files \cup {Absent}
      /\ CHUNKS \in Nat /\ Len(got[r]) \in Nat /\ Len(got[r]) <= CHUNKS
  BY DEF IInv, Typing, TypeOK
<1>1. /\ UNCHANGED <<at, stage, spoiled, displaced, command>>
      /\ \A q \in (Packers \cup Publishers \cup Readers) \ {r} : pc'[q] = pc[q]
      /\ \A q \in Readers \ {r} :
            handle'[q] = handle[q] /\ got'[q] = got[q] /\ output'[q] = output[q]
  BY <1>0 DEF Goto, FileOpen, OpenArchive, ReadChunk, ReadFails, ReadDone, FsWrite
<1>2. CASE FileOpen(r)
  <2>1. /\ handle' \in [Readers -> Files \cup {Absent}]
        /\ pc' \in [Packers \cup Publishers \cup Readers -> PCs]
        /\ got' = got /\ output' = output /\ got[r] = << >> /\ output[r] = Before
        /\ pc'[r] \in {"open", "err"}
    <3>1. got[r] = << >> /\ output[r] = Before
      BY <1>2 DEF FileOpen, IInv, OutputInv
    <3>2. CASE at = Absent
      BY <1>0, <1>2, <3>1, <3>2 DEF FileOpen, Goto, PCs
    <3>3. CASE at # Absent
      <4>1. handle' = [handle EXCEPT ![r] = at] /\ pc' = [pc EXCEPT ![r] = "open"]
        BY <1>2, <3>3 DEF FileOpen, Goto
      <4>2. handle' \in [Readers -> Files \cup {Absent}]
        BY <1>0, <4>1
      <4>3. pc' \in [Packers \cup Publishers \cup Readers -> PCs] /\ pc'[r] = "open"
        BY <1>0, <4>1 DEF PCs
      <4> QED
        BY <1>2, <3>1, <4>2, <4>3 DEF FileOpen
    <3> QED
      BY <3>2, <3>3
  <2>2. Typing'
    BY <1>1, <2>1 DEF IInv, Typing, TypeOK
  <2>3. GotOneArchive'
    <3>1. Len(got'[r]) = 0
      BY <2>1
    <3>2. ASSUME NEW q \in Readers, NEW i \in 1 .. Len(got'[q])
          PROVE  got'[q][i] = <<handle'[q], i, FALSE>>
      <4>1. q # r
        BY <3>1
      <4> QED
        BY <1>1, <4>1 DEF IInv, GotOneArchive
    <3> QED
      BY <3>2 DEF GotOneArchive
  <2>4. OutputInv'
    BY <1>1, <2>1 DEF IInv, OutputInv
  <2>5. CreatorHasPath'
    BY <1>1 DEF IInv, CreatorHasPath
  <2> QED
    BY <2>2, <2>3, <2>4, <2>5 DEF IInv
<1>3. CASE OpenArchive(r) \/ ReadFails(r)
  <2>1. /\ pc' \in [Packers \cup Publishers \cup Readers -> PCs]
        /\ got' = got /\ output' = output /\ handle' = handle
        /\ output[r] = Before
        /\ \/ pc'[r] = "err"
           \/ pc'[r] = "read"
           \/ pc'[r] = "ok" /\ command[r] # "extract"
    BY <1>0, <1>3 DEF OpenArchive, ReadFails, Goto, PCs, IInv, OutputInv
  <2>2. Typing'
    BY <1>1, <2>1 DEF IInv, Typing, TypeOK
  <2>3. GotOneArchive'
    BY <1>1, <2>1 DEF IInv, GotOneArchive
  <2>4. OutputInv'
    BY <1>1, <2>1 DEF IInv, OutputInv
  <2>5. CreatorHasPath'
    BY <1>1 DEF IInv, CreatorHasPath
  <2> QED
    BY <2>2, <2>3, <2>4, <2>5 DEF IInv
<1>4. CASE ReadChunk(r)
  <2>1. /\ pc' \in [Packers \cup Publishers \cup Readers -> PCs]
        /\ output' = output /\ handle' = handle /\ output[r] = Before
        /\ pc'[r] \in {"read", "err"}
    BY <1>0, <1>4 DEF ReadChunk, Goto, PCs, IInv, OutputInv
  <2>2. \/ got' = got
        \/ /\ got' = [got EXCEPT ![r] = Append(@, <<handle[r], Len(@) + 1, FALSE>>)]
           /\ Len(got[r]) < CHUNKS
    <3>1. CASE handle[r] \in spoiled
      BY <1>4, <3>1 DEF ReadChunk
    <3>2. CASE handle[r] \notin spoiled
      <4>1. (handle[r] \in spoiled) = FALSE
        BY <3>2
      <4> QED
        BY <1>4, <3>2, <4>1 DEF ReadChunk
    <3> QED
      BY <3>1, <3>2
  <2>3. <<handle[r], Len(got[r]) + 1, FALSE>> \in Pieces
    <3>1. Len(got[r]) + 1 \in Nat /\ handle[r] \in Files \cup {Absent}
      BY <1>0
    <3> QED
      BY <3>1 DEF Pieces
  <2>4. /\ got' \in [Readers -> Seq(Pieces)]
        /\ Len(got'[r]) <= CHUNKS
        /\ \A i \in 1 .. Len(got'[r]) : got'[r][i] = <<handle[r], i, FALSE>>
    <3>1. CASE got' = got
      BY <1>0, <3>1 DEF IInv, GotOneArchive
    <3>2. CASE /\ got' = [got EXCEPT ![r] = Append(@, <<handle[r], Len(@) + 1, FALSE>>)]
               /\ Len(got[r]) < CHUNKS
      <4> DEFINE b == <<handle[r], Len(got[r]) + 1, FALSE>>
      <4>1. got[r] \in Seq(Pieces) /\ b \in Pieces
        BY <1>0, <2>3
      <4> HIDE DEF b
      <4>2. /\ Append(got[r], b) \in Seq(Pieces)
            /\ Len(Append(got[r], b)) = Len(got[r]) + 1
            /\ \A i \in 1 .. Len(got[r]) : Append(got[r], b)[i] = got[r][i]
            /\ Append(got[r], b)[Len(got[r]) + 1] = b
        BY <4>1
      <4>3. got'[r] = Append(got[r], b) /\ got' \in [Readers -> Seq(Pieces)]
        BY <1>0, <3>2, <4>2 DEF b
      <4>4. ASSUME NEW i \in 1 .. Len(got'[r]) PROVE got'[r][i] = <<handle[r], i, FALSE>>
        <5>1. CASE i \in 1 .. Len(got[r])
          BY <4>2, <4>3, <5>1 DEF IInv, GotOneArchive
        <5>2. CASE i = Len(got[r]) + 1
          BY <4>2, <4>3, <5>2 DEF b
        <5>3. i \in 1 .. (Len(got[r]) + 1)
          BY <4>2, <4>3
        <5>4. i \in 1 .. Len(got[r]) \/ i = Len(got[r]) + 1
          BY <1>0, <5>3
        <5> QED
          BY <5>1, <5>2, <5>4
      <4>5. Len(got'[r]) <= CHUNKS
        <5>1. Len(got'[r]) = Len(got[r]) + 1
          BY <4>2, <4>3
        <5> QED
          BY <1>0, <3>2, <5>1
      <4> QED
        BY <4>3, <4>4, <4>5
    <3> QED
      BY <2>2, <3>1, <3>2
  <2>5. Typing'
    BY <1>1, <2>1, <2>4 DEF IInv, Typing, TypeOK
  <2>6. GotOneArchive'
    BY <1>1, <2>1, <2>4 DEF IInv, GotOneArchive
  <2>7. OutputInv'
    BY <1>1, <2>1 DEF IInv, OutputInv
  <2>8. CreatorHasPath'
    BY <1>1 DEF IInv, CreatorHasPath
  <2> QED
    BY <2>5, <2>6, <2>7, <2>8 DEF IInv
<1>5. CASE ReadDone(r)
  <2>1. /\ pc' \in [Packers \cup Publishers \cup Readers -> PCs]
        /\ output' \in [Readers -> Seq(Pieces) \cup {Before}]
        /\ got' = got /\ handle' = handle
        /\ \/ pc'[r] = "ok" /\ command[r] # "extract"
           \/ pc'[r] = "write" /\ Len(got[r]) = CHUNKS
    <3>1. << >> \in Seq(Pieces)
      OBVIOUS
    <3>2. output' \in [Readers -> Seq(Pieces) \cup {Before}]
      BY <1>0, <1>5, <3>1 DEF ReadDone
    <3> QED
      BY <1>0, <1>5, <3>2 DEF ReadDone, Goto, PCs
  <2>2. Typing'
    BY <1>1, <2>1 DEF IInv, Typing, TypeOK
  <2>3. GotOneArchive'
    BY <1>1, <2>1 DEF IInv, GotOneArchive
  <2>4. OutputInv'
    BY <1>1, <2>1 DEF IInv, OutputInv
  <2>5. CreatorHasPath'
    BY <1>1 DEF IInv, CreatorHasPath
  <2> QED
    BY <2>2, <2>3, <2>4, <2>5 DEF IInv
<1>6. CASE FsWrite(r)
  <2>1. /\ pc' \in [Packers \cup Publishers \cup Readers -> PCs]
        /\ got' = got /\ handle' = handle /\ Len(got[r]) = CHUNKS
        /\ \/ pc'[r] = "ok" /\ output'[r] = got[r]
           \/ pc'[r] = "write_err"
    BY <1>0, <1>6 DEF FsWrite, Goto, PCs, IInv, OutputInv
  <2>2. output' \in [Readers -> Seq(Pieces) \cup {Before}]
    <3>1. \A n \in 0 .. Len(got[r]) - 1 : SubSeq(got[r], 1, n) \in Seq(Pieces)
      BY <1>0
    <3>2. \E o \in Seq(Pieces) \cup {Before} : output' = [output EXCEPT ![r] = o]
      BY <1>0, <1>6, <3>1 DEF FsWrite
    <3> QED
      BY <1>0, <3>2
  <2>3. Typing'
    BY <1>1, <2>1, <2>2 DEF IInv, Typing, TypeOK
  <2>4. GotOneArchive'
    BY <1>1, <2>1 DEF IInv, GotOneArchive
  <2>5. OutputInv'
    BY <1>1, <2>1 DEF IInv, OutputInv
  <2>6. CreatorHasPath'
    BY <1>1 DEF IInv, CreatorHasPath
  <2> QED
    BY <2>3, <2>4, <2>5, <2>6 DEF IInv
<1> QED
  BY <1>2, <1>3, <1>4, <1>5, <1>6

LEMMA StutterStep ==
    ASSUME IInv, UNCHANGED vars
    PROVE  IInv'
  BY DEF IInv, Typing, TypeOK, GotOneArchive, OutputInv, CreatorHasPath,
         vars, fileVars, readerVars

LEMMA NextIInv == IInv /\ [Next]_vars => IInv'
<1> SUFFICES ASSUME IInv, [Next]_vars PROVE IInv'
  OBVIOUS
<1>1. CASE \E p \in Packers :
              \/ CreateNew(p) \/ PackBuffered(p) \/ PackReturnsOk(p)
              \/ PackReturnsErr(p) \/ RemoveFile(p) \/ Crash(p)
  BY <1>1, PackerStep
<1>2. CASE (\E q \in Publishers : Rename(q)) \/ Tidy \/ Spoil
  BY <1>2, OtherStep
<1>3. CASE \E r \in Readers :
              \/ FileOpen(r) \/ OpenArchive(r) \/ ReadChunk(r) \/ ReadFails(r)
              \/ ReadDone(r) \/ FsWrite(r)
  BY <1>3, ReaderStep
<1>4. CASE Terminated \/ UNCHANGED vars
  BY <1>4, StutterStep DEF Terminated
<1> QED
  BY <1>1, <1>2, <1>3, <1>4 DEF Next

-----------------------------------------------------------------------------
\* The shape of the state, for any number of programs.
THEOREM TypeCorrect == Spec => []TypeOK
  BY InitIInv, NextIInv, PTL DEF Spec, IInv, Typing

\* extract_one: what it reports as extracted is the asset of the archive its
\* path named when it was opened, whatever happens to the path afterwards.
THEOREM ExtractedIsOneArchive == Spec => []ExtractsOneArchive
<1>1. IInv => ExtractsOneArchive
  <2> SUFFICES ASSUME IInv, NEW r \in Readers, pc[r] = "ok", command[r] = "extract"
               PROVE  output[r] = Asset(handle[r])
    BY DEF ExtractsOneArchive
  <2>1. /\ output[r] = got[r] /\ Len(got[r]) = CHUNKS
        /\ got[r] \in Seq(Pieces)
        /\ \A i \in 1 .. Len(got[r]) : got[r][i] = <<handle[r], i, FALSE>>
    BY DEF IInv, OutputInv, GotOneArchive, Typing
  <2>2. got[r] = [i \in 1 .. CHUNKS |-> got[r][i]]
    BY <2>1
  <2>3. [i \in 1 .. CHUNKS |-> got[r][i]] = [i \in 1 .. CHUNKS |-> <<handle[r], i, FALSE>>]
    BY <2>1
  <2> QED
    BY <2>1, <2>2, <2>3 DEF Asset
<1> QED
  BY <1>1, InitIInv, NextIInv, PTL DEF Spec

\* extract_one reads everything before fs::write touches its output.
THEOREM FailedReadsKeepOutput == Spec => []FailedReadKeepsOutput
<1>1. IInv => FailedReadKeepsOutput
  BY DEF IInv, OutputInv, FailedReadKeepsOutput
<1> QED
  BY <1>1, InitIInv, NextIInv, PTL DEF Spec

\* rasen_pack_file: create_new refuses a path that is taken, and the removal
\* after a failure takes the call's own file, unless that was taken off the
\* path before, by a user, a rename or another call's removal.
THEOREM PackFileNeverReplaces == Spec => NeverReplaces
<1> DEFINE Kept == \A p \in Packers :
                      pc[p] \in {"start", "remove"} /\ pc'[p] # pc[p] /\ at' # at =>
                          \/ at \in {Absent, p}
                          \/ pc[p] = "remove" /\ p \in displaced
<1>1. IInv /\ [Next]_vars => [Kept]_vars
  <2> SUFFICES ASSUME IInv, Next, NEW p \in Packers, pc[p] \in {"start", "remove"},
                      pc'[p] # pc[p], at' # at
               PROVE  at \in {Absent, p} \/ (pc[p] = "remove" /\ p \in displaced)
    OBVIOUS
  <2> USE ArchiveFilesAssumption
  <2>1. pc \in [Packers \cup Publishers \cup Readers -> PCs]
    BY DEF IInv, Typing, TypeOK
  <2>2. CASE pc[p] = "remove"
    BY <2>2 DEF IInv, CreatorHasPath
  <2>3. CASE pc[p] = "start"
    <3>1. \A l : \A o \in Packers \cup Publishers \cup Readers : Goto(o, l) => o = p
      BY <2>1 DEF Goto
    <3>2. CreateNew(p)
      BY <2>3, <3>1 DEF Next, CreateNew, PackBuffered, PackReturnsOk, PackReturnsErr,
         RemoveFile, Crash, Rename, FileOpen, OpenArchive, ReadChunk, ReadFails,
         ReadDone, FsWrite, Tidy, Spoil, Terminated, vars, fileVars
    <3> QED
      BY <3>2 DEF CreateNew
  <2> QED
    BY <2>2, <2>3
<1> QED
  BY <1>1, InitIInv, NextIInv, PTL DEF Spec, NeverReplaces

-----------------------------------------------------------------------------
(* One source shared by threads: PositionedReads                           *)

PTyping ==
    /\ len \in Nat
    /\ req \in [Threads -> Requests]
    /\ result \in [Threads -> Results]
    /\ dst \in [Threads -> Seq(Nat)]

\* What a buffer holds is the beginning of what was asked for, and the loop is
\* left as soon as that is all of it.
PrefixInv ==
    \A t \in Threads :
        /\ Len(dst[t]) <= req[t].size
        /\ dst[t] = Asked(req[t], Len(dst[t]))
        /\ result[t] = "none" => dst[t] = << >>
        /\ result[t] = "pending" => Len(dst[t]) = 0 \/ Len(dst[t]) < req[t].size
        /\ result[t] = "ok" => Len(dst[t]) = req[t].size

PIInv == PTyping /\ PrefixInv

-----------------------------------------------------------------------------
(* The bytes of a request *)

LEMMA RequestFacts ==
    ASSUME NEW r \in Requests
    PROVE  r.offset \in Nat /\ r.size \in Nat
  BY RandomAccessAssumption DEF Requests

LEMMA AskedFacts ==
    ASSUME NEW r \in Requests, NEW n \in Nat
    PROVE  /\ Asked(r, n) \in Seq(Nat)
           /\ Len(Asked(r, n)) = n
           /\ \A i \in 1 .. n : Asked(r, n)[i] = r.offset + i - 1
<1>1. \A i \in 1 .. n : r.offset + i - 1 \in Nat
  BY RequestFacts
<1>2. Asked(r, n) \in [1 .. n -> Nat]
  BY <1>1 DEF Asked
<1>3. Asked(r, n) \in Seq(Nat)
  BY <1>2, SeqDef
<1>4. Len(Asked(r, n)) = n
  BY <1>2, <1>3, LenProperties
<1> QED
  BY <1>3, <1>4 DEF Asked

\* A piece put after what was read so far makes a longer beginning.
LEMMA PieceFits ==
    ASSUME NEW r \in Requests, NEW k \in Nat, NEW n \in Nat
    PROVE  Asked(r, k) \o [i \in 1 .. n |-> (r.offset + k) + i - 1] = Asked(r, k + n)
<1> DEFINE p == [i \in 1 .. n |-> (r.offset + k) + i - 1]
           c == Asked(r, k) \o p
<1>1. r.offset \in Nat
  BY RequestFacts
<1>2. \A i \in 1 .. n : (r.offset + k) + i - 1 \in Nat
  BY <1>1
<1>3. p \in [1 .. n -> Nat]
  BY <1>2
<1>4. p \in Seq(Nat) /\ Len(p) = n
  BY <1>3, SeqDef, LenProperties
<1>5. Asked(r, k) \in Seq(Nat) /\ Len(Asked(r, k)) = k
  BY AskedFacts
<1>6. /\ c \in Seq(Nat) /\ Len(c) = k + n
      /\ \A i \in 1 .. (k + n) : c[i] = IF i <= k THEN Asked(r, k)[i] ELSE p[i - k]
  <2> DEFINE a == Asked(r, k)
  <2>1. a \in Seq(Nat) /\ p \in Seq(Nat) /\ Len(a) = k /\ Len(p) = n
    BY <1>4, <1>5
  <2> HIDE DEF p, a
  <2>2. /\ a \o p \in Seq(Nat) /\ Len(a \o p) = Len(a) + Len(p)
        /\ \A i \in 1 .. Len(a) + Len(p) :
              (a \o p)[i] = IF i <= Len(a) THEN a[i] ELSE p[i - Len(a)]
    BY <2>1, ConcatProperties
  <2>3. /\ a \o p \in Seq(Nat) /\ Len(a \o p) = k + n
        /\ \A i \in 1 .. (k + n) : (a \o p)[i] = IF i <= k THEN a[i] ELSE p[i - k]
    BY <2>1, <2>2
  <2> QED
    BY <2>3 DEF a
<1>7. ASSUME NEW i \in 1 .. (k + n) PROVE c[i] = r.offset + i - 1
  <2>1. CASE i <= k
    <3>1. i \in 1 .. k
      BY <2>1
    <3> HIDE DEF c
    <3> QED
      BY <1>6, <2>1, <3>1, AskedFacts
  <2>2. CASE ~(i <= k)
    <3>1. i - k \in 1 .. n
      BY <2>2
    <3>2. p[i - k] = (r.offset + k) + (i - k) - 1
      BY <3>1
    <3>3. c[i] = p[i - k]
      <4> HIDE DEF c, p
      <4> QED
        BY <1>6, <2>2
    <3> HIDE DEF c, p
    <3> QED
      BY <1>1, <3>2, <3>3
  <2> QED
    BY <2>1, <2>2
<1>8. c = [i \in 1 .. (k + n) |-> c[i]]
  <2> HIDE DEF c
  <2> QED
    BY <1>6
<1> HIDE DEF c
<1>9. c = [i \in 1 .. (k + n) |-> r.offset + i - 1]
  BY <1>7, <1>8
<1> QED
  BY <1>9 DEF Asked, c

-----------------------------------------------------------------------------
(* The invariant *)

LEMMA PInitIInv == PInit => PIInv
<1> SUFFICES ASSUME PInit PROVE PIInv
  OBVIOUS
<1>1. [offset |-> 0, size |-> 0] \in Requests
  BY RandomAccessAssumption DEF Requests
<1>2. PTyping
  BY <1>1, RandomAccessAssumption DEF PInit, AtomicInit, PTyping, Results
<1>3. PrefixInv
  <2>1. Asked([offset |-> 0, size |-> 0], 0) = << >>
    BY <1>1, AskedFacts
  <2>2. ASSUME NEW t \in Threads
        PROVE  /\ dst[t] = << >> /\ result[t] = "none"
               /\ req[t] = [offset |-> 0, size |-> 0]
    BY DEF PInit, AtomicInit
  <2>3. Len(<< >>) = 0
    OBVIOUS
  <2>4. ASSUME NEW t \in Threads
        PROVE  /\ Len(dst[t]) = 0 /\ req[t].size = 0 /\ Len(dst[t]) <= req[t].size
               /\ dst[t] = Asked(req[t], Len(dst[t]))
    <3>1. Len(dst[t]) = 0 /\ req[t].size = 0
      BY <2>2, <2>3
    <3>2. Asked(req[t], Len(dst[t])) = Asked([offset |-> 0, size |-> 0], 0)
      BY <2>2, <3>1
    <3> QED
      BY <2>1, <2>2, <3>1, <3>2
  <2> QED
    BY <2>2, <2>4 DEF PrefixInv
<1> QED
  BY <1>2, <1>3 DEF PIInv

\* A read that ends with the first n bytes in its buffer.
LEMMA EndsKeeps ==
    ASSUME PIInv, NEW t \in Threads, NEW n \in 0 .. req[t].size,
           NEW outcome \in {"ok", "eof", "error"}, Ends(t, outcome, n),
           outcome = "ok" => n = req[t].size
    PROVE  PIInv'
<1>1. /\ req \in [Threads -> Requests] /\ result \in [Threads -> Results]
      /\ dst \in [Threads -> Seq(Nat)] /\ len \in Nat
  BY DEF PIInv, PTyping
<1>2. req[t] \in Requests /\ req[t].size \in Nat /\ n \in Nat /\ n <= req[t].size
  BY <1>1, RequestFacts
<1>3. Asked(req[t], n) \in Seq(Nat) /\ Len(Asked(req[t], n)) = n
  BY <1>2, AskedFacts
<1>4. /\ len' = len /\ req' = req
      /\ result' = [result EXCEPT ![t] = outcome]
      /\ dst' = [dst EXCEPT ![t] = Asked(req[t], n)]
  BY DEF Ends
<1>5. PTyping'
  BY <1>1, <1>3, <1>4 DEF PTyping, Results
<1>6. PrefixInv'
  <2>1. /\ dst'[t] = Asked(req[t], n) /\ result'[t] = outcome
        /\ \A u \in Threads \ {t} : dst'[u] = dst[u] /\ result'[u] = result[u]
    BY <1>1, <1>4
  <2>2. \A u \in Threads \ {t} :
           /\ Len(dst'[u]) <= req'[u].size
           /\ dst'[u] = Asked(req'[u], Len(dst'[u]))
           /\ result'[u] = "none" => dst'[u] = << >>
           /\ result'[u] = "pending" => Len(dst'[u]) = 0 \/ Len(dst'[u]) < req'[u].size
           /\ result'[u] = "ok" => Len(dst'[u]) = req'[u].size
    BY <1>4, <2>1 DEF PIInv, PrefixInv
  <2> QED
    BY <1>2, <1>3, <1>4, <2>1, <2>2 DEF PrefixInv
<1> QED
  BY <1>5, <1>6 DEF PIInv

\* What one positioned read adds, and where it leaves the loop.
LEMMA ReadAtFacts ==
    ASSUME PIInv, NEW t \in Threads, NEW n, ReadAt(t, n)
    PROVE  /\ n \in Nat \ {0}
           /\ Len(dst[t]) \in Nat
           /\ Len(dst[t]) + n <= req[t].size
           /\ req[t].offset + (Len(dst[t]) + n) <= len
           /\ dst' = [dst EXCEPT ![t] = Asked(req[t], Len(dst[t]) + n)]
           /\ n = Left(t) <=> Len(dst[t]) + n = req[t].size
<1>1. /\ req[t] \in Requests /\ dst[t] \in Seq(Nat) /\ len \in Nat
      /\ dst[t] = Asked(req[t], Len(dst[t]))
  BY DEF PIInv, PTyping, PrefixInv
<1>2. req[t].offset \in Nat /\ req[t].size \in Nat /\ Len(dst[t]) \in Nat
  BY <1>1, RequestFacts
<1> DEFINE k == Len(dst[t])
           a == req[t].size - k
           b == len - (req[t].offset + k)
<1>3. a \in Int /\ b \in Int
  BY <1>1, <1>2
<1>4. Min({a, b}) \in {a, b} /\ Min({a, b}) <= a /\ Min({a, b}) <= b
  <2>1. \E x \in {a, b} : \A y \in {a, b} : x <= y
    BY <1>3
  <2> HIDE DEF a, b
  <2> QED
    BY <2>1 DEF Min
<1>5. n \in Deliverable(t) /\ n # 0 /\ Left(t) > 0
  BY DEF ReadAt
<1>6. n \in 1 .. Min({a, b})
  BY <1>5 DEF Deliverable, Place, Left
<1>7. n \in Nat \ {0} /\ n <= a /\ n <= b
  <2> HIDE DEF a, b
  <2> QED
    BY <1>3, <1>4, <1>6
<1>8. k + n <= req[t].size /\ req[t].offset + (k + n) <= len
  BY <1>1, <1>2, <1>7
<1>9. dst[t] \o [i \in 1 .. n |-> Place(t) + i - 1] = Asked(req[t], k + n)
  <2>1. Asked(req[t], k) \o [i \in 1 .. n |-> (req[t].offset + k) + i - 1]
            = Asked(req[t], k + n)
    BY <1>1, <1>2, <1>7, PieceFits
  <2> QED
    BY <1>1, <2>1 DEF Place
<1>10. dst' = [dst EXCEPT ![t] = Asked(req[t], k + n)]
  BY <1>9 DEF ReadAt
<1>11. n = Left(t) <=> k + n = req[t].size
  BY <1>2, <1>7 DEF Left
<1> QED
  BY <1>2, <1>7, <1>8, <1>10, <1>11

LEMMA ReadAtKeeps ==
    ASSUME PIInv, NEW t \in Threads, NEW n, ReadAt(t, n)
    PROVE  PIInv'
<1> DEFINE m == Len(dst[t]) + n
<1>1. /\ req \in [Threads -> Requests] /\ result \in [Threads -> Results]
      /\ dst \in [Threads -> Seq(Nat)] /\ len \in Nat
  BY DEF PIInv, PTyping
<1>2. req[t] \in Requests /\ req[t].size \in Nat
  BY <1>1, RequestFacts
<1>3. /\ m \in Nat /\ m <= req[t].size /\ m # 0
      /\ dst' = [dst EXCEPT ![t] = Asked(req[t], m)]
      /\ n = Left(t) <=> m = req[t].size
  BY ReadAtFacts
<1> HIDE DEF m
<1>4. /\ len' = len /\ req' = req
      /\ result' = [result EXCEPT ![t] = IF n = Left(t) THEN "ok" ELSE "pending"]
  BY DEF ReadAt
<1>5. Asked(req[t], m) \in Seq(Nat) /\ Len(Asked(req[t], m)) = m
  BY <1>2, <1>3, AskedFacts
<1>6. PTyping'
  BY <1>1, <1>3, <1>4, <1>5 DEF PTyping, Results
<1>7. PrefixInv'
  <2>1. /\ dst'[t] = Asked(req[t], m)
        /\ result'[t] = IF m = req[t].size THEN "ok" ELSE "pending"
        /\ \A u \in Threads \ {t} : dst'[u] = dst[u] /\ result'[u] = result[u]
    BY <1>1, <1>3, <1>4
  <2>2. \A u \in Threads \ {t} :
           /\ Len(dst'[u]) <= req'[u].size
           /\ dst'[u] = Asked(req'[u], Len(dst'[u]))
           /\ result'[u] = "none" => dst'[u] = << >>
           /\ result'[u] = "pending" => Len(dst'[u]) = 0 \/ Len(dst'[u]) < req'[u].size
           /\ result'[u] = "ok" => Len(dst'[u]) = req'[u].size
    BY <1>4, <2>1 DEF PIInv, PrefixInv
  <2>3. /\ Len(dst'[t]) <= req'[t].size
        /\ dst'[t] = Asked(req'[t], Len(dst'[t]))
        /\ result'[t] # "none"
        /\ result'[t] = "pending" => Len(dst'[t]) < req'[t].size
        /\ result'[t] = "ok" => Len(dst'[t]) = req'[t].size
    BY <1>2, <1>3, <1>4, <1>5, <2>1
  <2> QED
    BY <2>2, <2>3 DEF PrefixInv
<1> QED
  BY <1>6, <1>7 DEF PIInv

LEMMA InvokeKeeps ==
    ASSUME PIInv, NEW t \in Threads, NEW r \in Requests, Invoke(t, r)
    PROVE  PIInv'
<1>1. /\ req \in [Threads -> Requests] /\ result \in [Threads -> Results]
      /\ dst \in [Threads -> Seq(Nat)] /\ len \in Nat
  BY DEF PIInv, PTyping
<1>2. << >> \in Seq(Nat) /\ Len(<< >>) = 0 /\ Asked(r, 0) = << >> /\ r.size \in Nat
  BY AskedFacts, RequestFacts
<1>3. PTyping'
  BY <1>1, <1>2 DEF Invoke, PTyping, Results
<1>4. /\ dst'[t] = << >> /\ result'[t] = "pending" /\ req'[t] = r
      /\ \A u \in Threads \ {t} :
            dst'[u] = dst[u] /\ result'[u] = result[u] /\ req'[u] = req[u]
  BY <1>1 DEF Invoke
<1>5. PrefixInv'
  BY <1>2, <1>4 DEF PIInv, PrefixInv
<1> QED
  BY <1>3, <1>5 DEF PIInv

\* Steps that only change a result to an error, or nothing of a read.
LEMMA OtherKeeps ==
    ASSUME PIInv,
           \/ \E t \in Threads : ReadAtEnd(t) \/ ReadAtFails(t) \/ Interrupted(t)
           \/ \E n \in 0 .. MaxLen : PResize(n)
           \/ UNCHANGED allVars
    PROVE  PIInv'
<1>1. /\ req \in [Threads -> Requests] /\ result \in [Threads -> Results]
      /\ dst \in [Threads -> Seq(Nat)] /\ len \in Nat
  BY DEF PIInv, PTyping
<1>2. /\ dst' = dst /\ req' = req /\ len' \in Nat
      /\ \/ result' = result
         \/ \E t \in Threads, e \in {"eof", "error"} : result' = [result EXCEPT ![t] = e]
  BY <1>1, RandomAccessAssumption
     DEF ReadAtEnd, ReadAtFails, Interrupted, PResize, Resize, allVars, atomicVars
<1>3. /\ result' \in [Threads -> Results]
      /\ \A u \in Threads : result'[u] = result[u] \/ result'[u] \in {"eof", "error"}
  BY <1>1, <1>2 DEF Results
<1>4. PTyping'
  BY <1>1, <1>2, <1>3 DEF PTyping
<1>5. PrefixInv'
  BY <1>2, <1>3 DEF PIInv, PrefixInv
<1> QED
  BY <1>4, <1>5 DEF PIInv

LEMMA PNextIInv == PIInv /\ [PNext]_allVars => PIInv'
<1> SUFFICES ASSUME PIInv, [PNext]_allVars PROVE PIInv'
  OBVIOUS
<1>0. \A t \in Threads : req[t].size \in Nat /\ req[t].offset \in Nat
  BY RequestFacts DEF PIInv, PTyping
<1>1. ASSUME NEW t \in Threads, NEW n \in 1 .. MaxLen, ReadAt(t, n) PROVE PIInv'
  BY <1>1, ReadAtKeeps
<1>2. ASSUME NEW t \in Threads, ReadNothing(t) PROVE PIInv'
  <2>1. Ends(t, "ok", 0) /\ req[t].size = 0 /\ 0 \in 0 .. req[t].size
    BY <1>2 DEF ReadNothing
  <2> QED
    BY <2>1, EndsKeeps
<1>3. ASSUME NEW t \in Threads, ReadSliceExact(t) PROVE PIInv'
  <2>1. /\ Ends(t, "ok", req[t].size) \/ Ends(t, "eof", 0)
        /\ req[t].size \in 0 .. req[t].size /\ 0 \in 0 .. req[t].size
    BY <1>0, <1>3 DEF ReadSliceExact
  <2> QED
    BY <2>1, EndsKeeps
<1>4. ASSUME NEW t \in Threads, CallbackReadAt(t) PROVE PIInv'
  <2>1. CASE Succeeds(t)
    <3>1. Ends(t, "ok", req[t].size) /\ req[t].size \in 0 .. req[t].size
      BY <1>0, <2>1 DEF Succeeds
    <3> QED
      BY <3>1, EndsKeeps
  <2>2. CASE Fails(t)
    <3>1. PICK n \in 0 .. req[t].size : Ends(t, "error", n)
      BY <2>2 DEF Fails
    <3> QED
      BY <3>1, EndsKeeps
  <2> QED
    BY <1>4, <2>1, <2>2 DEF CallbackReadAt
<1>5. ASSUME NEW t \in Threads, NEW r \in Requests, PInvoke(t, r) PROVE PIInv'
  BY <1>5, InvokeKeeps DEF PInvoke
<1> QED
  BY <1>1, <1>2, <1>3, <1>4, <1>5, OtherKeeps DEF PNext, Step, Quiet

-----------------------------------------------------------------------------
(* The refinement *)

Shown == [t \in Threads |-> IF result[t] = "pending" THEN << >> ELSE dst[t]]

LEMMA InitRefines == PInit => Atomic!AtomicInit
<1> SUFFICES ASSUME PInit PROVE Atomic!AtomicInit
  OBVIOUS
<1>1. \A t \in Threads : (IF result[t] = "pending" THEN << >> ELSE dst[t]) = << >>
  BY DEF PInit, AtomicInit
<1> QED
  BY <1>1 DEF PInit, AtomicInit, Atomic!AtomicInit

\* A step in which a read ends, as RandomAccess sees it.
ShownEnds(t, outcome, n) ==
    /\ result[t] = "pending"
    /\ result' = [result EXCEPT ![t] = outcome]
    /\ Shown' = [Shown EXCEPT ![t] = Asked(req[t], n)]
    /\ UNCHANGED <<len, req>>

\* A read that ends, ends atomically with what is in its buffer.
LEMMA EndsRefines ==
    ASSUME PIInv, NEW t \in Threads, NEW n \in Nat, NEW outcome \in {"ok", "eof", "error"},
           result[t] = "pending",
           result' = [result EXCEPT ![t] = outcome],
           dst' = [dst EXCEPT ![t] = Asked(req[t], n)],
           len' = len, req' = req
    PROVE  ShownEnds(t, outcome, n)
<1>1. result \in [Threads -> Results] /\ dst \in [Threads -> Seq(Nat)]
  BY DEF PIInv, PTyping
<1>2. Shown' = [Shown EXCEPT ![t] = Asked(req[t], n)]
  <2>1. ASSUME NEW u \in Threads
        PROVE  Shown'[u] = IF u = t THEN Asked(req[t], n) ELSE Shown[u]
    BY <1>1 DEF Shown
  <2> QED
    BY <2>1 DEF Shown
<1> QED
  BY <1>2 DEF ShownEnds

LEMMA SucceedsRefines ==
    ASSUME NEW t \in Threads, ShownEnds(t, "ok", req[t].size),
           req[t].offset + req[t].size <= len \/ req[t].size = 0
    PROVE  Atomic!AtomicNext
  BY DEF ShownEnds, Shown, Asked, Atomic!AtomicNext, Atomic!Succeeds, Atomic!Ends, Atomic!Asked

LEMMA RunsOutRefines ==
    ASSUME NEW t \in Threads, NEW n \in 0 .. req[t].size, ShownEnds(t, "eof", n),
           req[t].offset + req[t].size > len
    PROVE  Atomic!AtomicNext
  BY DEF ShownEnds, Shown, Asked, Atomic!AtomicNext, Atomic!RunsOut, Atomic!Ends, Atomic!Asked

LEMMA FailsRefines ==
    ASSUME NEW t \in Threads, NEW n \in 0 .. req[t].size, ShownEnds(t, "error", n)
    PROVE  Atomic!AtomicNext
  BY DEF ShownEnds, Shown, Asked, Atomic!AtomicNext, Atomic!Fails, Atomic!Ends, Atomic!Asked

LEMMA NextRefines == PIInv /\ [PNext]_allVars => [Atomic!AtomicNext]_(Atomic!atomicVars)
<1> SUFFICES ASSUME PIInv, [PNext]_allVars PROVE [Atomic!AtomicNext]_(Atomic!atomicVars)
  OBVIOUS
<1>0. /\ result \in [Threads -> Results] /\ dst \in [Threads -> Seq(Nat)]
      /\ len \in Nat
      /\ \A t \in Threads : req[t].size \in Nat /\ req[t].offset \in Nat
  BY RequestFacts DEF PIInv, PTyping
<1>s. ASSUME UNCHANGED <<len, req, result>>, Shown' = Shown
      PROVE  [Atomic!AtomicNext]_(Atomic!atomicVars)
  BY <1>s DEF Atomic!atomicVars, Shown
<1>1. ASSUME NEW t \in Threads, NEW n \in 1 .. MaxLen, ReadAt(t, n)
      PROVE  [Atomic!AtomicNext]_(Atomic!atomicVars)
  <2>1. PICK m \in Nat :
           /\ req[t].offset + m <= len
           /\ dst' = [dst EXCEPT ![t] = Asked(req[t], m)]
           /\ n = Left(t) <=> m = req[t].size
    <3>1. Len(dst[t]) + n \in Nat
      BY <1>1, ReadAtFacts
    <3> QED
      BY <1>1, <3>1, ReadAtFacts
  <2>2. /\ result[t] = "pending" /\ len' = len /\ req' = req
        /\ result' = [result EXCEPT ![t] = IF n = Left(t) THEN "ok" ELSE "pending"]
    BY <1>1 DEF ReadAt
  <2>3. CASE m = req[t].size
    <3>1. result' = [result EXCEPT ![t] = "ok"]
      BY <2>1, <2>2, <2>3
    <3>2. ShownEnds(t, "ok", m)
      BY <2>1, <2>2, <3>1, EndsRefines
    <3>3. ShownEnds(t, "ok", req[t].size)
      BY <2>3, <3>2
    <3> QED
      BY <2>1, <2>3, <3>3, SucceedsRefines
  <2>4. CASE m # req[t].size
    <3>1. result' = result
      BY <1>0, <2>1, <2>2, <2>4
    <3>2. \A u \in Threads : Shown'[u] = Shown[u]
      BY <1>0, <2>1, <2>2, <3>1 DEF Shown
    <3>3. Shown' = Shown
      BY <3>2 DEF Shown
    <3> QED
      BY <1>s, <2>2, <3>1, <3>3
  <2> QED
    BY <2>3, <2>4
<1>2. ASSUME NEW t \in Threads, ReadAtEnd(t) PROVE [Atomic!AtomicNext]_(Atomic!atomicVars)
  <2>1. PICK n \in 0 .. req[t].size :
           /\ n = Len(dst[t]) /\ n \in Nat
           /\ dst[t] = Asked(req[t], n) /\ dst' = dst
    BY <1>0, <1>2 DEF PIInv, PrefixInv, ReadAtEnd
  <2>2. req[t].offset + n >= len /\ n < req[t].size
    <3>1. 0 \in Deliverable(t) /\ req[t].size - n > 0
      BY <1>2, <2>1 DEF ReadAtEnd, Left
    <3>2. ~(req[t].offset + n >= len) => 0 \in 1 .. Min({Left(t), len - Place(t)})
      BY <2>1, <3>1 DEF Deliverable, Place
    <3>3. 0 \notin 1 .. Min({Left(t), len - Place(t)})
      OBVIOUS
    <3> QED
      BY <1>0, <2>1, <3>1, <3>2, <3>3
  <2>3. /\ result[t] = "pending" /\ len' = len /\ req' = req
        /\ result' = [result EXCEPT ![t] = "eof"]
    BY <1>2 DEF ReadAtEnd
  <2>4. dst' = [dst EXCEPT ![t] = Asked(req[t], n)]
    BY <1>0, <2>1
  <2>5. ShownEnds(t, "eof", n)
    BY <2>1, <2>3, <2>4, EndsRefines
  <2>6. req[t].offset + req[t].size > len
    BY <1>0, <2>1, <2>2
  <2> QED
    BY <2>5, <2>6, RunsOutRefines
<1>3. ASSUME NEW t \in Threads, ReadAtFails(t) PROVE [Atomic!AtomicNext]_(Atomic!atomicVars)
  <2>1. PICK n \in 0 .. req[t].size :
           n \in Nat /\ dst[t] = Asked(req[t], n) /\ dst' = dst
    BY <1>0, <1>3 DEF PIInv, PrefixInv, ReadAtFails
  <2>2. /\ result[t] = "pending" /\ len' = len /\ req' = req
        /\ result' = [result EXCEPT ![t] = "error"]
    BY <1>3 DEF ReadAtFails
  <2>3. dst' = [dst EXCEPT ![t] = Asked(req[t], n)]
    BY <1>0, <2>1
  <2>4. ShownEnds(t, "error", n)
    BY <2>1, <2>2, <2>3, EndsRefines
  <2> QED
    BY <2>4, FailsRefines
<1>e. ASSUME NEW t \in Threads, NEW n \in Nat, NEW o \in {"ok", "eof", "error"},
             Ends(t, o, n)
      PROVE  ShownEnds(t, o, n)
  BY <1>e, EndsRefines DEF Ends
<1>4. ASSUME NEW t \in Threads, ReadNothing(t) PROVE [Atomic!AtomicNext]_(Atomic!atomicVars)
  <2>1. req[t].size = 0 /\ Ends(t, "ok", 0)
    BY <1>4 DEF ReadNothing
  <2>2. ShownEnds(t, "ok", 0)
    BY <1>e, <2>1
  <2>3. ShownEnds(t, "ok", req[t].size)
    BY <2>1, <2>2
  <2> QED
    BY <2>1, <2>3, SucceedsRefines
<1>5. ASSUME NEW t \in Threads, ReadSliceExact(t) PROVE [Atomic!AtomicNext]_(Atomic!atomicVars)
  <2>1. CASE req[t].offset + req[t].size <= len
    <3>1. Ends(t, "ok", req[t].size)
      BY <1>5, <2>1 DEF ReadSliceExact
    <3>2. ShownEnds(t, "ok", req[t].size)
      BY <1>0, <1>e, <3>1
    <3> QED
      BY <2>1, <3>2, SucceedsRefines
  <2>2. CASE ~(req[t].offset + req[t].size <= len)
    <3>1. Ends(t, "eof", 0) /\ 0 \in 0 .. req[t].size
      BY <1>0, <1>5, <2>2 DEF ReadSliceExact
    <3>2. ShownEnds(t, "eof", 0)
      BY <1>e, <3>1
    <3>3. req[t].offset + req[t].size > len
      BY <1>0, <2>2
    <3> QED
      BY <3>1, <3>2, <3>3, RunsOutRefines
  <2> QED
    BY <2>1, <2>2
<1>6. ASSUME NEW t \in Threads, CallbackReadAt(t) PROVE [Atomic!AtomicNext]_(Atomic!atomicVars)
  <2>1. CASE Succeeds(t)
    <3>1. /\ Ends(t, "ok", req[t].size)
          /\ req[t].offset + req[t].size <= len \/ req[t].size = 0
      BY <2>1 DEF Succeeds
    <3>2. ShownEnds(t, "ok", req[t].size)
      BY <1>0, <1>e, <3>1
    <3> QED
      BY <3>1, <3>2, SucceedsRefines
  <2>2. CASE Fails(t)
    <3>1. PICK n \in 0 .. req[t].size : Ends(t, "error", n)
      BY <2>2 DEF Fails
    <3>2. n \in Nat
      BY <1>0
    <3>3. ShownEnds(t, "error", n)
      BY <1>e, <3>1, <3>2
    <3> QED
      BY <3>3, FailsRefines
  <2> QED
    BY <1>6, <2>1, <2>2 DEF CallbackReadAt
<1>7. ASSUME NEW t \in Threads, NEW r \in Requests, PInvoke(t, r)
      PROVE  [Atomic!AtomicNext]_(Atomic!atomicVars)
  <2>1. /\ result[t] # "pending" /\ len' = len
        /\ req' = [req EXCEPT ![t] = r]
        /\ dst' = [dst EXCEPT ![t] = << >>]
        /\ result' = [result EXCEPT ![t] = "pending"]
    BY <1>7 DEF PInvoke, Invoke
  <2>2. ASSUME NEW u \in Threads
        PROVE  Shown'[u] = IF u = t THEN << >> ELSE Shown[u]
    BY <1>0, <2>1 DEF Shown
  <2>3. Shown' = [Shown EXCEPT ![t] = << >>]
    BY <2>2 DEF Shown
  <2>4. Atomic!Invoke(t, r)
    BY <2>1, <2>3 DEF Atomic!Invoke, Shown
  <2>5. r \in Atomic!Requests
    BY DEF Requests, Atomic!Requests
  <2> QED
    BY <2>4, <2>5 DEF Atomic!AtomicNext
<1>8. ASSUME NEW n \in 0 .. MaxLen, PResize(n) PROVE [Atomic!AtomicNext]_(Atomic!atomicVars)
  <2>1. UNCHANGED <<req, dst, result>> /\ len' = n
    BY <1>8 DEF PResize, Resize
  <2>2. Atomic!Resize(n)
    BY <2>1 DEF Atomic!Resize
  <2> QED
    BY <2>2 DEF Atomic!AtomicNext
<1>9. ASSUME UNCHANGED atomicVars PROVE [Atomic!AtomicNext]_(Atomic!atomicVars)
  BY <1>9, <1>s DEF atomicVars, Shown
<1>10. ASSUME NEW t \in Threads, Interrupted(t) PROVE [Atomic!AtomicNext]_(Atomic!atomicVars)
  BY <1>9, <1>10 DEF Interrupted
<1> QED
  BY <1>1, <1>2, <1>3, <1>4, <1>5, <1>6, <1>7, <1>8, <1>9, <1>10
     DEF PNext, Step, Quiet, allVars

\* RandomAccessRead::read_exact_at: however short, interrupted and interleaved
\* the positioned reads of several threads are, each call is one read of its
\* own range at one moment.
THEOREM PiecesMakeAtomicReads == PSpec => ReadsAreAtomic
<1>1. PInit => Atomic!AtomicInit
  BY InitRefines
<1>2. PIInv /\ [PNext]_allVars => [Atomic!AtomicNext]_(Atomic!atomicVars)
  BY NextRefines
<1>3. PSpec => []PIInv
  BY PInitIInv, PNextIInv, PTL DEF PSpec
<1> QED
  BY <1>1, <1>2, <1>3, PTL DEF PSpec, ReadsAreAtomic, Atomic!AtomicSpec

\* A read_exact_at that returns Ok has filled its buffer with its own range.
THEOREM OkFillsTheBuffer ==
    PSpec => [](\A t \in Threads : result[t] = "ok" => dst[t] = Asked(req[t], req[t].size))
<1>1. PIInv => \A t \in Threads : result[t] = "ok" => dst[t] = Asked(req[t], req[t].size)
  BY DEF PIInv, PrefixInv
<1> QED
  BY <1>1, PInitIInv, PNextIInv, PTL DEF PSpec
=============================================================================
