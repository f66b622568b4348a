------------------------------- MODULE PackDir ------------------------------
(***************************************************************************)
(* The CLI's pack_dir, crates/rasen-packer/src/commands.rs: invocations of *)
(* rasen-pack that share a directory tree with each other and with a user  *)
(* who edits it.  A step is one system call, or one directory listing.     *)
(*                                                                         *)
(* A file is named by what it is: the version of an input, the archive a   *)
(* given invocation writes, or the file found at the output to begin with. *)
(* The packer that writes the archive is module Packer; here an invocation *)
(* opens and reads one collected file after the other, and may fail at any *)
(* of them.  A file that is written while it is open may be read in part   *)
(* before and in part after: an entry has a set of files for its bytes.    *)
(***************************************************************************)
EXTENDS Naturals, Sequences, FiniteSets

CONSTANTS
    Procs,        \* invocations of pack_dir
    Pid,          \* their process ids; reused once a process is gone
    Output,       \* the output path, normalized
    Inputs,       \* the other paths of the tree
    Versions,     \* the contents a user may give an input
    Target,       \* an input the output may be a symbolic link to
    Root, SubDirs, Home,   \* the tree: its root, subdirectories, a path's directory
    Rank,         \* the byte order of the paths' virtual paths
    Absent, Link, Found, \* no file; a link to Target; what was at the output
    ATTEMPTS,     \* the names create_temp tries
    Leftover,     \* temporary files that killed processes with these ids left
    MaxEdits,     \* bound: changes a user makes to the inputs
    MaxPowerLoss  \* bound: power failures

\* Temporary names carry the output's name, the process id and the attempt;
\* the time stamp in them is taken to stand still, its worst case.
Temp(p, attempt) == <<Output, Pid[p], attempt>>
Temps == {Temp(p, attempt) : p \in Procs, attempt \in 0 .. ATTEMPTS - 1}

Names == Inputs \cup {Output} \cup Temps
Files == Procs \cup Versions \cup {Absent, Link, Found}
HomeOf(n) == IF n \in Temps THEN Home[Output] ELSE Home[n]

ASSUME PackDirAssumption ==
    /\ Output \notin Inputs \cup Temps /\ Target \in Inputs
    /\ Inputs \cap Temps = {}
    /\ Absent \notin Procs \cup Versions \cup {Link, Found}
    /\ Link \notin Procs \cup Versions \cup {Found}
    /\ Found \notin Procs \cup Versions
    /\ Procs \cap Versions = {}
    /\ Procs \subseteq DOMAIN Pid
    /\ Leftover \subseteq Temps
    /\ ATTEMPTS \in Nat \ {0}
    /\ Absent \notin Names /\ Versions # {}
    /\ Home \in [Inputs \cup {Output} -> DOMAIN SubDirs]
    /\ SubDirs \in [DOMAIN SubDirs -> SUBSET DOMAIN SubDirs]
    /\ Root \in DOMAIN SubDirs
    /\ \A D \in SUBSET DOMAIN SubDirs :      \* all of the tree is below its root
          Root \in D /\ (\A d \in D : SubDirs[d] \subseteq D) => D = DOMAIN SubDirs
    /\ Rank \in [Names -> Nat]
    /\ {MaxEdits, MaxPowerLoss} \subseteq Nat

VARIABLES
    dir,          \* the directory tree: what each path names
    disk,         \* the part of it that a power failure leaves
    whole,        \* invocations whose temporary file has all its bytes
    synced,       \* invocations whose bytes are on disk
    pc, existing_output, pending, files, attempt,   \* locals of pack_dir
    source,       \* what the open input has held since it was opened
    contents,     \* what an invocation has packed, in order
    steady,       \* inputs nobody touched since it started (history)
    edits, losses

fsVars == <<dir, disk, whole, synced>>
localVars == <<existing_output, pending, files, attempt, source, contents>>
boundVars == <<edits, losses>>
vars == <<fsVars, pc, localVars, steady, boundVars>>

Ended == {"ok", "err", "leaked", "dead"}
Holding == {"pack", "read", "flush", "sync", "rename", "cleanup"}
Live(p) == pc[p] \notin Ended \cup {"start"}

TempPath(p) == Temp(p, attempt[p])

\* The path a name leads to once symbolic links are followed.
Resolve(n) == IF dir[n] = Link THEN Target ELSE n

IsFile(n) == dir[n] \notin {Absent, Link}

-----------------------------------------------------------------------------
Init ==
    /\ \E f \in {Absent, Link, Found}, left \in {{}, Leftover} :
          dir = [n \in Names |-> IF n = Output THEN f
                                 ELSE IF n = Target /\ f = Link THEN Found
                                 ELSE IF n \in Inputs THEN CHOOSE v \in Versions : TRUE
                                 ELSE IF n \in left THEN Found
                                 ELSE Absent]
    /\ disk = dir
    /\ whole = {}
    /\ synced = {}
    /\ pc = [p \in Procs |-> "start"]
    /\ existing_output = [p \in Procs |-> Absent]
    /\ pending = [p \in Procs |-> {}]
    /\ files = [p \in Procs |-> {}]
    /\ attempt = [p \in Procs |-> 0]
    /\ source = [p \in Procs |-> {}]
    /\ contents = [p \in Procs |-> << >>]
    /\ steady = [p \in Procs |-> {}]
    /\ edits = 0
    /\ losses = 0

Goto(p, l) == pc' = [pc EXCEPT ![p] = l]

\* The locals of invocations that end go with them.
Forget(S) ==
    /\ existing_output' = [p \in Procs |-> IF p \in S THEN Absent ELSE existing_output[p]]
    /\ pending' = [p \in Procs |-> IF p \in S THEN {} ELSE pending[p]]
    /\ files' = [p \in Procs |-> IF p \in S THEN {} ELSE files[p]]
    /\ attempt' = [p \in Procs |-> IF p \in S THEN 0 ELSE attempt[p]]
    /\ source' = [p \in Procs |-> IF p \in S THEN {} ELSE source[p]]
    /\ steady' = [p \in Procs |-> IF p \in S THEN {} ELSE steady[p]]

\* They leave no archive.
Discard(S) == contents' = [p \in Procs |-> IF p \in S THEN << >> ELSE contents[p]]

\* canonicalize(root), normalized_output_path, canonicalize(output): an output
\* that is a link leads to the file it links to.
Start(p) ==
    /\ pc[p] = "start"
    /\ \A q \in Procs : Live(q) => Pid[q] # Pid[p]
    /\ existing_output' = [existing_output EXCEPT ![p] =
                              IF dir[Resolve(Output)] = Absent THEN Absent
                              ELSE Resolve(Output)]
    /\ pending' = [pending EXCEPT ![p] = {Root}]
    /\ steady' = [steady EXCEPT ![p] = {n \in Inputs : IsFile(n)}]
    /\ Goto(p, "collect")
    /\ UNCHANGED <<fsVars, files, attempt, source, contents, boundVars>>

\* Faulty: forgets that the output may be a link into the tree.
Excluded_OutputOnly(p) == {Output}

Excluded(p) == {Output, existing_output[p]}

Collected(p, d) == {n \in Names \ Excluded(p) : HomeOf(n) = d /\ IsFile(n)}

\* Faulty: does not descend into subdirectories.
CollectDir_TopOnly(p, d) ==
    /\ pc[p] = "collect"
    /\ d \in pending[p]
    /\ files' = [files EXCEPT ![p] = @ \cup Collected(p, d)]
    /\ pending' = [pending EXCEPT ![p] = {}]
    /\ Goto(p, "temp")
    /\ UNCHANGED <<fsVars, existing_output, attempt, source, contents, steady, boundVars>>

\* One directory of collect_files: regular files that are not the output.
CollectDir(p, d) ==
    /\ pc[p] = "collect"
    /\ d \in pending[p]
    /\ files' = [files EXCEPT ![p] = @ \cup Collected(p, d)]
    /\ pending' = [pending EXCEPT ![p] = (@ \ {d}) \cup SubDirs[d]]
    /\ IF pending'[p] = {} THEN Goto(p, "temp") ELSE UNCHANGED pc
    /\ UNCHANGED <<fsVars, existing_output, attempt, source, contents, steady, boundVars>>

\* Faulty: File::create, which truncates a file that exists.
CreateTemp_Truncates(p) ==
    /\ pc[p] = "temp"
    /\ dir' = [dir EXCEPT ![TempPath(p)] = p]
    /\ Goto(p, "pack")
    /\ UNCHANGED <<disk, whole, synced, localVars, steady, boundVars>>

\* Faulty: starts over after the last name.
CreateTemp_StartsOver(p) ==
    /\ pc[p] = "temp"
    /\ IF dir[TempPath(p)] = Absent
       THEN /\ dir' = [dir EXCEPT ![TempPath(p)] = p]
            /\ Goto(p, "pack")
            /\ UNCHANGED attempt
       ELSE /\ attempt' = [attempt EXCEPT ![p] = (@ + 1) % ATTEMPTS]
            /\ UNCHANGED <<dir, pc>>
    /\ UNCHANGED <<disk, whole, synced, existing_output, pending, files, source,
                   contents, steady, boundVars>>

\* One File::create_new of create_temp.
CreateTemp(p) ==
    /\ pc[p] = "temp"
    /\ IF dir[TempPath(p)] = Absent
       THEN /\ dir' = [dir EXCEPT ![TempPath(p)] = p]
            /\ Goto(p, "pack")
            /\ UNCHANGED attempt
       ELSE /\ UNCHANGED dir
            /\ IF attempt[p] + 1 < ATTEMPTS
               THEN attempt' = [attempt EXCEPT ![p] = @ + 1] /\ UNCHANGED pc
               ELSE Goto(p, "err") /\ UNCHANGED attempt
    /\ UNCHANGED <<disk, whole, synced, existing_output, pending, files, source,
                   contents, steady, boundVars>>

\* An error before the temporary file exists: nothing to clean up.
FailsEarly(p) ==
    /\ pc[p] \in {"start", "collect", "temp"}
    /\ Goto(p, "err")
    /\ Forget({p}) /\ Discard({p})
    /\ UNCHANGED <<fsVars, boundVars>>

\* The next file in the order of the sorted list.
NextFile(p) == CHOOSE n \in files[p] : \A m \in files[p] : Rank[n] <= Rank[m]

\* add_reader refuses a virtual path it has already.
Duplicate(p, n) == \E i \in DOMAIN contents[p] : Rank[contents[p][i].name] = Rank[n]

Close(p) == source' = [source EXCEPT ![p] = {}]

\* File::open of the next collected file.
OpenFile(p) ==
    /\ pc[p] = "pack"
    /\ files[p] # {}
    /\ LET n == Resolve(NextFile(p)) IN
       IF dir[n] # Absent
       THEN source' = [source EXCEPT ![p] = {dir[n]}] /\ Goto(p, "read")
       ELSE UNCHANGED source /\ Goto(p, "cleanup")
    /\ UNCHANGED <<fsVars, existing_output, pending, files, attempt, contents, steady,
                   boundVars>>

\* Faulty: packs in the order the directories were listed.
AddFile_Unsorted(p) ==
    /\ pc[p] = "read"
    /\ \E n \in files[p] :
          /\ contents' = [contents EXCEPT ![p] = Append(@, [name |-> n, bytes |-> source[p]])]
          /\ files' = [files EXCEPT ![p] = @ \ {n}]
    /\ Goto(p, "pack")
    /\ Close(p)
    /\ UNCHANGED <<fsVars, existing_output, pending, attempt, steady, boundVars>>

\* add_reader of the open file, of which it may find some bytes as they were
\* and some as they have been written since.
AddFile(p) ==
    /\ pc[p] = "read"
    /\ files[p] # {}
    /\ LET n == NextFile(p) IN
       IF Duplicate(p, n) THEN UNCHANGED <<contents, files>> /\ Goto(p, "cleanup")
       ELSE /\ \E bytes \in (SUBSET source[p]) \ {{}} :
                  contents' = [contents EXCEPT ![p] =
                                  Append(@, [name |-> n, bytes |-> bytes])]
            /\ files' = [files EXCEPT ![p] = @ \ {n}]
            /\ Goto(p, "pack")
    /\ Close(p)
    /\ UNCHANGED <<fsVars, existing_output, pending, attempt, steady, boundVars>>

\* packer.finish: the archive is complete, but for what BufWriter still holds.
Finish(p) ==
    /\ pc[p] = "pack"
    /\ files[p] = {}
    /\ Goto(p, "flush")
    /\ UNCHANGED <<fsVars, localVars, steady, boundVars>>

Flush(p) ==
    /\ pc[p] = "flush"
    /\ whole' = whole \cup {p}
    /\ Goto(p, "sync")
    /\ UNCHANGED <<dir, disk, synced, localVars, steady, boundVars>>

\* Faulty: renames without sync_all.
SyncAll_Skipped(p) ==
    /\ pc[p] = "sync"
    /\ Goto(p, "rename")
    /\ UNCHANGED <<fsVars, localVars, steady, boundVars>>

SyncAll(p) ==
    /\ pc[p] = "sync"
    /\ synced' = synced \cup {p}
    /\ Goto(p, "rename")
    /\ UNCHANGED <<dir, disk, whole, localVars, steady, boundVars>>

\* The rename replaces what the output names, a link included; pack_dir
\* prints its summary and returns Ok.
Rename(p) ==
    /\ pc[p] = "rename"
    /\ dir' = [dir EXCEPT ![Output] = dir[TempPath(p)], ![TempPath(p)] = Absent]
    /\ Goto(p, "ok")
    /\ Forget({p})
    /\ UNCHANGED <<disk, whole, synced, contents, boundVars>>

\* Any of the above fails once the temporary file exists.
Fails(p) ==
    /\ pc[p] \in Holding \ {"cleanup"}
    /\ Goto(p, "cleanup")
    /\ Close(p)
    /\ UNCHANGED <<fsVars, existing_output, pending, files, attempt, contents, steady,
                   boundVars>>

\* Faulty: removes the output.
CleanUp_RemovesOutput(p) ==
    /\ pc[p] = "cleanup"
    /\ dir' = [dir EXCEPT ![Output] = Absent]
    /\ Goto(p, "err")
    /\ UNCHANGED <<disk, whole, synced, localVars, steady, boundVars>>

\* fs::remove_file of the temporary file, whose failure is a warning; then
\* pack_dir returns the error.
CleanUp(p) ==
    /\ pc[p] = "cleanup"
    /\ \/ dir' = [dir EXCEPT ![TempPath(p)] = Absent] /\ Goto(p, "err")
       \/ UNCHANGED dir /\ Goto(p, "leaked")
    /\ Forget({p}) /\ Discard({p})
    /\ UNCHANGED <<disk, whole, synced, boundVars>>

-----------------------------------------------------------------------------
(* The environment *)

\* The process is killed.
Crash(p) ==
    /\ Live(p)
    /\ Goto(p, "dead")
    /\ Forget({p}) /\ Discard({p})
    /\ UNCHANGED <<fsVars, boundVars>>

\* The file system commits its metadata, in the order of the calls; the bytes
\* of a file are only sure to follow when the file is synced.
WriteBack ==
    /\ disk # dir
    /\ losses < MaxPowerLoss
    /\ disk' = dir
    /\ UNCHANGED <<dir, whole, synced, pc, localVars, steady, boundVars>>

PowerLoss ==
    /\ losses < MaxPowerLoss
    /\ losses' = losses + 1
    /\ dir' = disk
    /\ \E kept \in SUBSET (whole \ synced) : whole' = synced \cup kept
    /\ pc' = [p \in Procs |-> IF Live(p) THEN "dead" ELSE pc[p]]
    /\ Forget({p \in Procs : Live(p)}) /\ Discard({p \in Procs : Live(p)})
    /\ UNCHANGED <<disk, synced, edits>>

\* A user writes or deletes an input.  An invocation that has it open goes on
\* with the file it opened, and finds in it what is written to it.
Edit(n, f) ==
    /\ edits < MaxEdits
    /\ f # dir[n]
    /\ edits' = edits + 1
    /\ dir' = [dir EXCEPT ![n] = f]
    /\ steady' = [p \in Procs |-> steady[p] \ {n}]
    /\ source' = [p \in Procs |->
                     IF /\ pc[p] = "read" /\ NextFile(p) = n
                        /\ dir[n] \in source[p] /\ f # Absent
                     THEN source[p] \cup {f} ELSE source[p]]
    /\ UNCHANGED <<disk, whole, synced, pc, existing_output, pending, files, attempt,
                   contents, losses>>

AllEnded ==
    /\ \A p \in Procs : pc[p] \in Ended
    /\ UNCHANGED vars

ProcStep(p) ==
    \/ Start(p)
    \/ \E d \in DOMAIN SubDirs : CollectDir(p, d)
    \/ CreateTemp(p)
    \/ FailsEarly(p)
    \/ OpenFile(p) \/ AddFile(p)
    \/ Finish(p) \/ Flush(p) \/ SyncAll(p) \/ Rename(p)
    \/ Fails(p) \/ CleanUp(p)

Next ==
    \/ \E p \in Procs : ProcStep(p) \/ Crash(p)
    \/ WriteBack
    \/ PowerLoss
    \/ \E n \in Inputs, f \in Versions \cup {Absent} : Edit(n, f)
    \/ AllEnded

Spec == Init /\ [][Next]_vars

\* As long as some invocation can go on, one of them does.
FairSpec == Spec /\ WF_vars(\E p \in Procs : ProcStep(p))

-----------------------------------------------------------------------------
(* Properties *)

PCs == {"start", "collect", "temp"} \cup Holding \cup Ended

\* The tree, the file contents and the locals have the shape the code gives
\* them; create_temp never goes past its last name.
TypeOK ==
    /\ dir \in [Names -> Files]
    /\ disk \in [Names -> Files]
    /\ whole \subseteq Procs
    /\ synced \subseteq Procs
    /\ pc \in [Procs -> PCs]
    /\ existing_output \in [Procs -> Names \cup {Absent}]
    /\ pending \in [Procs -> SUBSET DOMAIN SubDirs]
    /\ files \in [Procs -> SUBSET Names]
    /\ attempt \in [Procs -> 0 .. ATTEMPTS - 1]
    /\ source \in [Procs -> SUBSET Files]
    /\ contents \in [Procs -> Seq([name : Names, bytes : SUBSET Files])]
    /\ steady \in [Procs -> SUBSET Inputs]
    /\ edits \in 0 .. MaxEdits
    /\ losses \in 0 .. MaxPowerLoss

\* Whoever opens the output, after a crash or a power failure too, finds no
\* file, the file that was there, or the whole archive of one invocation:
\* flush, sync_all and rename come in the order that makes this so.
OutputWhole == dir[Output] \in Procs => dir[Output] \in whole

\* Of the files in the tree, an invocation replaces the output and removes its
\* own temporary file, and touches no other: create_new never takes over a
\* file that a dead invocation with the same process id left behind.
TouchesOnlyItsOwn ==
    [][UNCHANGED boundVars =>
         \A n \in Names \ {Output} :
            dir[n] \notin {Absent, dir'[n]} =>
                /\ dir'[n] = Absent
                /\ dir[n] \in Procs
                /\ pc[dir[n]] \in {"rename", "cleanup"}
                /\ pc'[dir[n]] \in {"ok", "err"}]_vars

\* No archive contains itself, the output it replaces or the file the output
\* linked to, though all of them may be in the tree that is packed.
NeverPacksItself ==
    \A p \in Procs : \A i \in DOMAIN contents[p] :
        /\ contents[p][i].name \notin {Output, existing_output[p]}
        /\ p \notin contents[p][i].bytes

PackedNames(p) == {contents[p][i].name : i \in DOMAIN contents[p]}

\* The entries in the order in which they were added.
PackOrder(p) == [i \in DOMAIN contents[p] |-> contents[p][i].name]

\* An archive that is complete contains every input that was there, and left
\* alone, since its invocation started, and for its bytes that input's own:
\* what a user does to one file while it is read disturbs no other entry.
NothingMissed ==
    \A p \in Procs :
        pc[p] \in {"flush", "sync", "rename"} =>
            \A n \in steady[p] \ {Output, existing_output[p]} :
                \E i \in DOMAIN contents[p] :
                    contents[p][i] = [name |-> n, bytes |-> {dir[n]}]

\* The same files are packed in the same order, whatever the order in which
\* directories were listed and whoever packed them.  (The bytes of two archives
\* may still differ: with AEAD protection every chunk has a random nonce.)
SameFilesSameOrder ==
    \A p, q \in Procs :
        /\ {p, q} \subseteq whole
        /\ PackedNames(p) = PackedNames(q)
        => PackOrder(p) = PackOrder(q)

\* The packed tree: no temporary file of this or an earlier invocation is
\* among an archive's entries.
NoTempPacked ==
    \A p \in Procs : \A i \in DOMAIN contents[p] : contents[p][i].name \notin Temps

Status(p) == CASE pc[p] = "ok" -> "ok"
               [] pc[p] \in {"err", "leaked", "dead"} -> "failed"
               [] pc[p] = "start" -> "waiting"
               [] OTHER -> "running"

\* The output file is replaced atomically: a step of pack_dir publishes a
\* whole archive, or leaves the output alone; so does an error or a kill.
Replacement == INSTANCE AtomicOutput WITH
    Originals <- {Absent, Link, Found},
    out <- dir[Output],
    durable <- disk[Output],
    status <- [p \in Procs |-> Status(p)]

ReplacesAtomically == Replacement!Spec

\* Every invocation returns or dies: create_temp gives up after its last name,
\* each collected file is opened once, and none waits for another.
PackEnds == <>(\A p \in Procs : pc[p] \in Ended)
=============================================================================
