---------------------------- MODULE PackDirProofs ----------------------------
(***************************************************************************)
(* What pack_dir keeps true for any number of invocations, any tree, any   *)
(* number of edits, kills and power failures: the output is replaced as a  *)
(* whole, nobody's files are touched, and the archive holds the tree and   *)
(* not itself, in one order.                                               *)
(***************************************************************************)
EXTENDS PackDir, SequenceTheorems, WellFoundedInduction, TLAPS

-----------------------------------------------------------------------------
(* The constants *)

LEMMA NameFacts ==
    /\ Output \in Names /\ Inputs \subseteq Names /\ Temps \subseteq Names
    /\ Output \notin Temps /\ Output \notin Inputs /\ Inputs \cap Temps = {}
    /\ Target \in Inputs /\ Absent \notin Names
  BY PackDirAssumption DEF Names

LEMMA FileFacts ==
    /\ {Absent, Link, Found} \subseteq Files /\ Procs \subseteq Files
    /\ Versions \subseteq Files
    /\ \A p \in Procs : p \notin {Absent, Link, Found} /\ p \notin Versions
    /\ Absent \notin Versions /\ Link \notin Versions /\ Absent # Link
  BY PackDirAssumption DEF Files

LEMMA TempFacts ==
    ASSUME NEW p \in Procs, NEW a \in 0 .. ATTEMPTS - 1
    PROVE  Temp(p, a) \in Temps
  BY DEF Temps

LEMMA TempNames ==
    ASSUME NEW p, NEW q, NEW a, NEW b, Temp(p, a) = Temp(q, b)
    PROVE  Pid[p] = Pid[q]
  BY DEF Temp

-----------------------------------------------------------------------------
(* Types *)

LEMMA InitTypeOK == Init => TypeOK
<1> SUFFICES ASSUME Init PROVE TypeOK
  OBVIOUS
<1>1. (CHOOSE v \in Versions : TRUE) \in Versions
  BY PackDirAssumption
<1>2. dir \in [Names -> Files] /\ disk \in [Names -> Files]
  BY <1>1, FileFacts DEF Init
<1>3. << >> \in Seq([name : Names, bytes : SUBSET Files])
  OBVIOUS
<1>4. 0 \in 0 .. ATTEMPTS - 1 /\ 0 \in 0 .. MaxEdits /\ 0 \in 0 .. MaxPowerLoss
  BY PackDirAssumption
<1> QED
  BY <1>2, <1>3, <1>4 DEF Init, TypeOK, PCs

LEMMA ForgetTypes ==
    ASSUME TypeOK, NEW S, Forget(S)
    PROVE  /\ existing_output' \in [Procs -> Names \cup {Absent}]
           /\ pending' \in [Procs -> SUBSET DOMAIN SubDirs]
           /\ files' \in [Procs -> SUBSET Names]
           /\ attempt' \in [Procs -> 0 .. ATTEMPTS - 1]
           /\ source' \in [Procs -> SUBSET Files]
           /\ steady' \in [Procs -> SUBSET Inputs]
<1>1. 0 \in 0 .. ATTEMPTS - 1
  BY PackDirAssumption
<1> QED
  BY <1>1 DEF TypeOK, Forget

LEMMA DiscardTypes ==
    ASSUME TypeOK, NEW S, Discard(S)
    PROVE  contents' \in [Procs -> Seq([name : Names, bytes : SUBSET Files])]
<1>1. << >> \in Seq([name : Names, bytes : SUBSET Files])
  OBVIOUS
<1> QED
  BY <1>1 DEF TypeOK, Discard

LEMMA NextFileListed ==
    ASSUME TypeOK, NEW p \in Procs, files[p] # {}
    PROVE  /\ NextFile(p) \in files[p] /\ NextFile(p) \in Names
           /\ \A m \in files[p] : Rank[NextFile(p)] <= Rank[m]
<1> DEFINE T == {Rank[n] : n \in files[p]}
           R == {ss \in Nat \X Nat : ss[1] < ss[2]}
<1>1. files[p] \subseteq Names /\ \A n \in files[p] : Rank[n] \in Nat
  BY PackDirAssumption DEF TypeOK
<1>2. T \subseteq Nat /\ T # {}
  BY <1>1
<1>3. PICK x \in T : \A y \in T : <<y, x>> \notin R
  <2>1. IsWellFoundedOn(R, Nat)
    BY NatLessThanWellFounded DEF OpToRel
  <2> HIDE DEF R, T
  <2> QED
    BY <1>2, <2>1, WFMin
<1>4. ASSUME NEW y \in T PROVE x <= y
  <2>1. x \in Nat /\ y \in Nat /\ <<y, x>> \notin R
    BY <1>2, <1>3
  <2> HIDE DEF T
  <2> QED
    BY <2>1
<1>5. \E n \in files[p] : \A m \in files[p] : Rank[n] <= Rank[m]
  BY <1>4
<1> QED
  BY <1>1, <1>5 DEF NextFile

\* The outcomes of OpenFile and of AddFile.
Opens(p) ==
    LET n == Resolve(NextFile(p)) IN
    /\ source' = [source EXCEPT ![p] = {dir[n]}]
    /\ pc' = [pc EXCEPT ![p] = "read"]
    /\ contents' = contents
    /\ files' = files
Packs(p) ==
    LET n == NextFile(p) IN
    /\ ~Duplicate(p, n)
    /\ \E bytes \in (SUBSET source[p]) \ {{}} :
          contents' = [contents EXCEPT ![p] =
                Append(contents[p], [name |-> n, bytes |-> bytes])]
    /\ files' = [files EXCEPT ![p] = files[p] \ {n}]
    /\ source' = [source EXCEPT ![p] = {}]
    /\ pc' = [pc EXCEPT ![p] = "pack"]
GivesUp(p) ==
    /\ pc' = [pc EXCEPT ![p] = "cleanup"]
    /\ source' \in {source, [source EXCEPT ![p] = {}]}
    /\ contents' = contents
    /\ files' = files

LEMMA OpenFileCases ==
    ASSUME NEW p, OpenFile(p)
    PROVE  Opens(p) \/ GivesUp(p)
<1>1. contents' = contents /\ files' = files
  BY DEF OpenFile
<1>2. \/ /\ source' = [source EXCEPT ![p] = {dir[Resolve(NextFile(p))]}]
         /\ pc' = [pc EXCEPT ![p] = "read"]
      \/ source' = source /\ pc' = [pc EXCEPT ![p] = "cleanup"]
  BY Zenon DEF OpenFile, Goto
<1> QED
  BY <1>1, <1>2 DEF Opens, GivesUp

LEMMA AddFileCases ==
    ASSUME NEW p, AddFile(p)
    PROVE  Packs(p) \/ GivesUp(p)
<1>1. source' = [source EXCEPT ![p] = {}]
  BY DEF AddFile, Close
<1>2. CASE Duplicate(p, NextFile(p))
  <2>1. /\ contents' = contents /\ files' = files
        /\ pc' = [pc EXCEPT ![p] = "cleanup"]
    BY <1>2 DEF AddFile, Goto
  <2> QED
    BY <1>1, <2>1 DEF GivesUp
<1>3. CASE ~Duplicate(p, NextFile(p))
  <2>1. /\ \E bytes \in (SUBSET source[p]) \ {{}} :
              contents' = [contents EXCEPT ![p] =
                    Append(contents[p], [name |-> NextFile(p), bytes |-> bytes])]
        /\ files' = [files EXCEPT ![p] = files[p] \ {NextFile(p)}]
        /\ pc' = [pc EXCEPT ![p] = "pack"]
    BY <1>3, Zenon DEF AddFile, Goto
  <2> QED
    BY <1>1, <1>3, <2>1 DEF Packs
<1> QED
  BY <1>2, <1>3

LEMMA NextTypeOK == TypeOK /\ [Next]_vars => TypeOK'
<1> SUFFICES ASSUME TypeOK, [Next]_vars PROVE TypeOK'
  OBVIOUS
<1> USE NameFacts, FileFacts
<1>1. ASSUME NEW p \in Procs, Start(p) PROVE TypeOK'
  <2>1. Resolve(Output) \in Names
    BY DEF Resolve
  <2>2. {Root} \in SUBSET DOMAIN SubDirs
    BY PackDirAssumption
  <2> QED
    BY <1>1, <2>1, <2>2 DEF Start, Goto, TypeOK, PCs, fsVars, boundVars
<1>2. ASSUME NEW p \in Procs, NEW d, CollectDir(p, d) PROVE TypeOK'
  <2>1. d \in DOMAIN SubDirs
    BY <1>2 DEF CollectDir, TypeOK
  <2>2. SubDirs[d] \subseteq DOMAIN SubDirs
    BY <2>1, PackDirAssumption
  <2>3. Collected(p, d) \subseteq Names
    BY DEF Collected
  <2>4. files' \in [Procs -> SUBSET Names]
    BY <1>2, <2>3 DEF CollectDir, TypeOK
  <2>5. pending' \in [Procs -> SUBSET DOMAIN SubDirs]
    BY <1>2, <2>2 DEF CollectDir, TypeOK
  <2>6. pc' \in [Procs -> PCs]
    <3>1. pc' = [pc EXCEPT ![p] = "temp"] \/ pc' = pc
      BY <1>2 DEF CollectDir, Goto
    <3> QED
      BY <3>1 DEF TypeOK, PCs
  <2> QED
    BY <1>2, <2>4, <2>5, <2>6 DEF CollectDir, TypeOK, fsVars, boundVars
<1>3. ASSUME NEW p \in Procs, CreateTemp(p) PROVE TypeOK'
  <2>1. dir' \in [Names -> Files]
    BY <1>3 DEF CreateTemp, TypeOK
  <2>2. attempt' \in [Procs -> 0 .. ATTEMPTS - 1]
    <3>1. \/ attempt' = attempt
          \/ attempt[p] + 1 < ATTEMPTS /\ attempt' = [attempt EXCEPT ![p] = attempt[p] + 1]
      BY <1>3 DEF CreateTemp
    <3>2. attempt \in [Procs -> 0 .. ATTEMPTS - 1] /\ ATTEMPTS \in Nat
      BY PackDirAssumption DEF TypeOK
    <3>3. attempt[p] + 1 < ATTEMPTS => attempt[p] + 1 \in 0 .. ATTEMPTS - 1
      BY <3>2
    <3> QED
      BY <3>1, <3>2, <3>3
  <2>3. pc' \in [Procs -> PCs]
    BY <1>3 DEF CreateTemp, TypeOK, Goto, PCs, Holding, Ended
  <2> QED
    BY <1>3, <2>1, <2>2, <2>3 DEF CreateTemp, TypeOK, boundVars
<1>4. ASSUME NEW p \in Procs, FailsEarly(p) PROVE TypeOK'
  BY <1>4, ForgetTypes, DiscardTypes
     DEF FailsEarly, TypeOK, Goto, PCs, Ended, fsVars, boundVars
<1>5. ASSUME NEW p \in Procs, OpenFile(p) \/ AddFile(p) PROVE TypeOK'
  <2>1. UNCHANGED <<fsVars, existing_output, pending, attempt, steady, boundVars>>
    BY <1>5 DEF OpenFile, AddFile
  <2>2. CASE Opens(p) /\ OpenFile(p)
    <3>1. NextFile(p) \in Names
      BY <2>2, NextFileListed DEF OpenFile
    <3>2. dir[Resolve(NextFile(p))] \in Files
      BY <3>1 DEF Resolve, TypeOK
    <3>3. source' \in [Procs -> SUBSET Files] /\ pc' \in [Procs -> PCs]
      BY <2>2, <3>2 DEF Opens, TypeOK, PCs, Holding
    <3> QED
      BY <2>1, <2>2, <3>3 DEF Opens, TypeOK, fsVars, boundVars
  <2>3. CASE Packs(p) /\ AddFile(p)
    <3>1. PICK bytes \in (SUBSET source[p]) \ {{}} :
             contents' = [contents EXCEPT ![p] =
                   Append(contents[p], [name |-> NextFile(p), bytes |-> bytes])]
      BY <2>3 DEF Packs
    <3> DEFINE e == [name |-> NextFile(p), bytes |-> bytes]
               E == [name : Names, bytes : SUBSET Files]
    <3>2. NextFile(p) \in Names /\ bytes \in SUBSET Files
      BY <2>3, NextFileListed DEF AddFile, TypeOK
    <3>3. e \in E /\ contents \in [Procs -> Seq(E)]
      BY <3>2 DEF TypeOK
    <3>4. contents' = [contents EXCEPT ![p] = Append(contents[p], e)]
      BY <3>1
    <3> HIDE DEF e, E
    <3>5. Append(contents[p], e) \in Seq(E)
      BY <3>3, AppendProperties
    <3>6. contents' \in [Procs -> Seq(E)]
      BY <3>3, <3>4, <3>5
    <3>7. contents' \in [Procs -> Seq([name : Names, bytes : SUBSET Files])]
      BY <3>6 DEF E
    <3>8. /\ files' \in [Procs -> SUBSET Names] /\ pc' \in [Procs -> PCs]
          /\ source' \in [Procs -> SUBSET Files]
      BY <2>3 DEF Packs, TypeOK, PCs, Holding
    <3> QED
      BY <2>1, <3>7, <3>8 DEF TypeOK, fsVars, boundVars
  <2>4. CASE GivesUp(p)
    <3>1. pc' \in [Procs -> PCs] /\ source' \in [Procs -> SUBSET Files]
      BY <2>4 DEF GivesUp, TypeOK, PCs, Holding
    <3> QED
      BY <2>1, <2>4, <3>1 DEF GivesUp, TypeOK, fsVars, boundVars
  <2> QED
    BY <1>5, <2>2, <2>3, <2>4, OpenFileCases, AddFileCases
<1>6. ASSUME NEW p \in Procs, Finish(p) \/ Flush(p) \/ SyncAll(p) \/ Fails(p)
      PROVE  TypeOK'
  BY <1>6 DEF Finish, Flush, SyncAll, Fails, TypeOK, Goto, PCs, Holding, fsVars,
              Close, localVars, boundVars
<1>7. ASSUME NEW p \in Procs, Rename(p) PROVE TypeOK'
  <2>1. TempPath(p) \in Names
    BY TempFacts DEF TempPath, TypeOK
  <2>2. dir' \in [Names -> Files]
    BY <1>7, <2>1 DEF Rename, TypeOK
  <2> QED
    BY <1>7, <2>2, ForgetTypes DEF Rename, TypeOK, Goto, PCs, Ended, boundVars
<1>8. ASSUME NEW p \in Procs, CleanUp(p) PROVE TypeOK'
  <2>1. dir' \in [Names -> Files]
    BY <1>8 DEF CleanUp, TypeOK
  <2>2. pc' \in [Procs -> PCs]
    BY <1>8 DEF CleanUp, TypeOK, Goto, PCs, Ended
  <2> QED
    BY <1>8, <2>1, <2>2, ForgetTypes, DiscardTypes DEF CleanUp, TypeOK, boundVars
<1>9. ASSUME NEW p \in Procs, Crash(p) PROVE TypeOK'
  BY <1>9, ForgetTypes, DiscardTypes
     DEF Crash, TypeOK, Goto, PCs, Ended, fsVars, boundVars
<1>10. ASSUME WriteBack PROVE TypeOK'
  BY <1>10 DEF WriteBack, TypeOK, localVars, boundVars
<1>11. ASSUME PowerLoss PROVE TypeOK'
  <2>1. pc' \in [Procs -> PCs]
    BY <1>11 DEF PowerLoss, TypeOK, PCs, Ended
  <2>2. whole' \subseteq Procs
    BY <1>11 DEF PowerLoss, TypeOK
  <2>3. losses' \in 0 .. MaxPowerLoss
    BY <1>11, PackDirAssumption DEF PowerLoss, TypeOK
  <2> QED
    BY <1>11, <2>1, <2>2, <2>3, ForgetTypes, DiscardTypes DEF PowerLoss, TypeOK
<1>12. ASSUME NEW n \in Inputs, NEW f \in Versions \cup {Absent}, Edit(n, f)
       PROVE  TypeOK'
  <2>1. edits' \in 0 .. MaxEdits
    BY <1>12, PackDirAssumption DEF Edit, TypeOK
  <2>2. steady' \in [Procs -> SUBSET Inputs]
    BY <1>12 DEF Edit, TypeOK
  <2>3. source' \in [Procs -> SUBSET Files]
    <3>1. f # Absent => f \in Files
      BY <1>12
    <3> QED
      BY <1>12, <3>1 DEF Edit, TypeOK
  <2> QED
    BY <1>12, <2>1, <2>2, <2>3 DEF Edit, TypeOK
<1>13. ASSUME UNCHANGED vars PROVE TypeOK'
  BY <1>13 DEF vars, fsVars, localVars, boundVars, TypeOK
<1> QED
  BY <1>1, <1>2, <1>3, <1>4, <1>5, <1>6, <1>7, <1>8, <1>9, <1>10, <1>11, <1>12,
     <1>13 DEF Next, ProcStep, AllEnded

\* The shapes create_temp, collect_files and the rest keep.
THEOREM TypeCorrect == Spec => []TypeOK
<1> QED
  BY InitTypeOK, NextTypeOK, PTL DEF Spec

-----------------------------------------------------------------------------
(* Whose file is where *)

Early == {"start", "collect", "temp"}

\* While an invocation is at work on its temporary file the file is there ...
TempInv == \A p \in Procs : pc[p] \in Holding => dir[TempPath(p)] = p

\* ... and nowhere else; before that there is none.
OnlyTempInv ==
    \A p \in Procs, n \in Names :
        /\ pc[p] \in Holding /\ dir[n] = p => n = TempPath(p)
        /\ pc[p] \in Early => dir[n] # p /\ disk[n] # p

\* An archive at the output, now or after a power failure, has been synced.
OutputInv ==
    /\ dir[Output] \in Procs => dir[Output] \in synced
    /\ disk[Output] \in Procs => disk[Output] \in synced

\* No invocation's file is ever an input.
InputInv == \A n \in Inputs : dir[n] \notin Procs /\ disk[n] \notin Procs

\* flush, sync_all and rename come in this order.
SyncInv ==
    /\ synced \subseteq whole
    /\ \A p \in Procs : pc[p] \in {"sync", "rename"} => p \in whole
    /\ \A p \in Procs : pc[p] = "rename" => p \in synced

PlaceInv == TempInv /\ OnlyTempInv /\ OutputInv /\ InputInv /\ SyncInv

LEMMA InitPlace == Init => PlaceInv
<1> SUFFICES ASSUME Init PROVE PlaceInv
  OBVIOUS
<1>1. (CHOOSE v \in Versions : TRUE) \in Versions
  BY PackDirAssumption
<1>2. \A n \in Names : dir[n] \notin Procs
  BY <1>1, FileFacts DEF Init
<1>3. disk = dir
  BY DEF Init
<1>4. \A p \in Procs : pc[p] = "start" /\ pc[p] \notin Holding
  BY DEF Init, Holding
<1>5. whole = {} /\ synced = {}
  BY DEF Init
<1> QED
  BY <1>2, <1>3, <1>4, <1>5, NameFacts
     DEF PlaceInv, TempInv, OnlyTempInv, OutputInv, InputInv, SyncInv

\* Steps of one invocation that leave the tree and the disk alone.
LEMMA LocalKeepsPlace ==
    ASSUME TypeOK, PlaceInv, NEW p \in Procs, UNCHANGED fsVars,
           \A q \in Procs \ {p} : pc'[q] = pc[q] /\ attempt'[q] = attempt[q],
           pc'[p] \in Holding => pc[p] \in Holding /\ attempt'[p] = attempt[p],
           pc'[p] \in Early => pc[p] \in Early,
           pc'[p] \in {"sync", "rename"} => pc'[p] = pc[p]
    PROVE  PlaceInv'
<1>1. UNCHANGED <<dir, disk, whole, synced>>
  BY DEF fsVars
<1>2. \A q \in Procs : pc'[q] \in Holding => TempPath(q)' = TempPath(q) /\ pc[q] \in Holding
  BY DEF TempPath, Temp
<1>3. \A q \in Procs : pc'[q] \in Early => pc[q] \in Early
  OBVIOUS
<1>4. \A q \in Procs : pc'[q] \in {"sync", "rename"} => pc'[q] = pc[q]
  OBVIOUS
<1>5. TempInv'
  BY <1>1, <1>2 DEF PlaceInv, TempInv
<1>6. OnlyTempInv'
  BY <1>1, <1>2, <1>3 DEF PlaceInv, OnlyTempInv
<1>7. OutputInv' /\ InputInv'
  BY <1>1 DEF PlaceInv, OutputInv, InputInv
<1>8. SyncInv'
  BY <1>1, <1>4 DEF PlaceInv, SyncInv
<1> QED
  BY <1>5, <1>6, <1>7, <1>8 DEF PlaceInv

LEMMA ForgetOne ==
    ASSUME TypeOK, NEW p \in Procs, Forget({p})
    PROVE  \A q \in Procs \ {p} :
              /\ existing_output'[q] = existing_output[q] /\ pending'[q] = pending[q]
              /\ files'[q] = files[q] /\ attempt'[q] = attempt[q] /\ steady'[q] = steady[q]
              /\ source'[q] = source[q]
  BY DEF Forget

LEMMA NextPlace == TypeOK /\ PlaceInv /\ [Next]_vars => PlaceInv'
<1> SUFFICES ASSUME TypeOK, PlaceInv, [Next]_vars PROVE PlaceInv'
  OBVIOUS
<1> USE NameFacts, FileFacts
<1>t. /\ pc \in [Procs -> PCs] /\ dir \in [Names -> Files] /\ disk \in [Names -> Files]
      /\ attempt \in [Procs -> 0 .. ATTEMPTS - 1]
  BY DEF TypeOK
<1>n. \A p \in Procs : TempPath(p) \in Temps
  BY <1>t, TempFacts DEF TempPath
<1>1. ASSUME NEW p \in Procs, Start(p) PROVE PlaceInv'
  BY <1>1, <1>t, LocalKeepsPlace DEF Start, Goto, Holding, Early
<1>2. ASSUME NEW p \in Procs, NEW d, CollectDir(p, d) PROVE PlaceInv'
  <2>1. pc' = [pc EXCEPT ![p] = "temp"] \/ pc' = pc
    BY <1>2 DEF CollectDir, Goto
  <2>2. pc[p] = "collect" /\ UNCHANGED <<fsVars, attempt>>
    BY <1>2 DEF CollectDir
  <2> QED
    BY <1>t, <2>1, <2>2, LocalKeepsPlace DEF Holding, Early
<1>3. ASSUME NEW p \in Procs, CreateTemp(p) PROVE PlaceInv'
  <2>1. CASE dir[TempPath(p)] = Absent
    <3>1. /\ dir' = [dir EXCEPT ![TempPath(p)] = p]
          /\ pc' = [pc EXCEPT ![p] = "pack"]
          /\ UNCHANGED <<disk, whole, synced, attempt>> /\ pc[p] = "temp"
      BY <1>3, <2>1 DEF CreateTemp, Goto
    <3>2. \A q \in Procs : TempPath(q)' = TempPath(q)
      BY <3>1 DEF TempPath, Temp
    <3>3. /\ pc'[p] = "pack" /\ \A q \in Procs \ {p} : pc'[q] = pc[q]
          /\ dir'[TempPath(p)] = p
          /\ \A n \in Names \ {TempPath(p)} : dir'[n] = dir[n]
      BY <1>t, <1>n, <3>1
    <3>4. TempInv'
      BY <1>n, <2>1, <3>2, <3>3 DEF PlaceInv, TempInv
    <3>5. OnlyTempInv'
      BY <1>n, <3>1, <3>2, <3>3 DEF PlaceInv, OnlyTempInv, Early, Holding
    <3>6. OutputInv' /\ InputInv'
      BY <1>n, <3>1, <3>3 DEF PlaceInv, OutputInv, InputInv
    <3>7. SyncInv'
      BY <3>1, <3>3 DEF PlaceInv, SyncInv
    <3> QED
      BY <3>4, <3>5, <3>6, <3>7 DEF PlaceInv
  <2>2. CASE dir[TempPath(p)] # Absent
    <3>1. /\ UNCHANGED <<fsVars>> /\ pc[p] = "temp"
          /\ pc' = pc \/ pc' = [pc EXCEPT ![p] = "err"]
          /\ attempt' = attempt \/ attempt' = [attempt EXCEPT ![p] = attempt[p] + 1]
      BY <1>3, <2>2 DEF CreateTemp, Goto, fsVars
    <3>2. /\ pc'[p] \in {"temp", "err"}
          /\ \A q \in Procs \ {p} : pc'[q] = pc[q] /\ attempt'[q] = attempt[q]
      BY <1>t, <3>1
    <3> QED
      BY <3>1, <3>2, LocalKeepsPlace DEF Holding, Early
  <2> QED
    BY <2>1, <2>2
<1>4. ASSUME NEW p \in Procs, FailsEarly(p) \/ Crash(p) PROVE PlaceInv'
  <2>1. /\ pc' = [pc EXCEPT ![p] = "err"] \/ pc' = [pc EXCEPT ![p] = "dead"]
        /\ UNCHANGED fsVars /\ Forget({p})
    BY <1>4 DEF FailsEarly, Crash, Goto
  <2>2. /\ pc'[p] \in {"err", "dead"}
        /\ \A q \in Procs \ {p} : pc'[q] = pc[q] /\ attempt'[q] = attempt[q]
    BY <1>t, <2>1, ForgetOne
  <2> QED
    BY <2>1, <2>2, LocalKeepsPlace DEF Holding, Early
<1>5. ASSUME NEW p \in Procs, OpenFile(p) \/ AddFile(p) PROVE PlaceInv'
  <2>1. /\ UNCHANGED <<fsVars, attempt>> /\ pc[p] \in {"pack", "read"}
        /\ \E l \in {"pack", "read", "cleanup"} : pc' = [pc EXCEPT ![p] = l]
    BY <1>5, OpenFileCases, AddFileCases DEF OpenFile, AddFile, Opens, Packs, GivesUp
  <2>2. /\ pc'[p] \in {"pack", "read", "cleanup"} /\ \A q \in Procs \ {p} : pc'[q] = pc[q]
    BY <1>t, <2>1
  <2> QED
    BY <2>1, <2>2, LocalKeepsPlace DEF Holding, Early
<1>6. ASSUME NEW p \in Procs, Finish(p) \/ Fails(p) PROVE PlaceInv'
  <2>1. /\ UNCHANGED <<fsVars, attempt>> /\ pc[p] \in Holding
        /\ pc' = [pc EXCEPT ![p] = "flush"] \/ pc' = [pc EXCEPT ![p] = "cleanup"]
    BY <1>6 DEF Finish, Fails, Goto, Holding, localVars
  <2>2. /\ pc'[p] \in {"flush", "cleanup"} /\ \A q \in Procs \ {p} : pc'[q] = pc[q]
    BY <1>t, <2>1
  <2> QED
    BY <2>1, <2>2, LocalKeepsPlace DEF Holding, Early
<1>7. ASSUME NEW p \in Procs, Flush(p) \/ SyncAll(p) PROVE PlaceInv'
  <2>1. /\ UNCHANGED <<dir, disk, attempt>> /\ pc[p] \in Holding
        /\ whole \subseteq whole' /\ synced \subseteq synced'
        /\ pc' = [pc EXCEPT ![p] = "sync"] \/ pc' = [pc EXCEPT ![p] = "rename"]
    BY <1>7 DEF Flush, SyncAll, Goto, Holding, localVars
  <2>2. /\ pc'[p] \in {"sync", "rename"} /\ \A q \in Procs \ {p} : pc'[q] = pc[q]
        /\ \A q \in Procs : TempPath(q)' = TempPath(q)
    BY <1>t, <2>1 DEF TempPath, Temp
  <2>3. TempInv'
    BY <2>1, <2>2 DEF PlaceInv, TempInv
  <2>4. OnlyTempInv'
    BY <2>1, <2>2 DEF PlaceInv, OnlyTempInv, Early
  <2>5. OutputInv' /\ InputInv'
    BY <2>1 DEF PlaceInv, OutputInv, InputInv
  <2>6. SyncInv'
    BY <1>7, <1>t DEF PlaceInv, SyncInv, Flush, SyncAll, Goto
  <2> QED
    BY <2>3, <2>4, <2>5, <2>6 DEF PlaceInv
<1>8. ASSUME NEW p \in Procs, Rename(p) \/ CleanUp(p) PROVE PlaceInv'
  <2>1. /\ pc[p] \in Holding /\ UNCHANGED <<disk, whole, synced>> /\ Forget({p})
        /\ \/ pc[p] = "rename" /\ dir' = [dir EXCEPT ![Output] = dir[TempPath(p)],
                                                    ![TempPath(p)] = Absent]
           \/ dir' = [dir EXCEPT ![TempPath(p)] = Absent]
           \/ dir' = dir
        /\ \E l \in {"ok", "err", "leaked"} : pc' = [pc EXCEPT ![p] = l]
    BY <1>8 DEF Rename, CleanUp, Goto, Holding
  <2>2. dir[TempPath(p)] = p /\ TempPath(p) \in Temps
    BY <1>n, <2>1 DEF PlaceInv, TempInv
  <2>3. /\ \A n \in Names \ {Output, TempPath(p)} : dir'[n] = dir[n]
        /\ dir'[TempPath(p)] \in {Absent, p}
        /\ dir'[Output] = dir[Output] \/ (pc[p] = "rename" /\ dir'[Output] = p)
    BY <1>t, <2>1, <2>2
  <2>4. /\ pc'[p] \notin Holding /\ pc'[p] \notin Early /\ pc'[p] \notin {"sync", "rename"}
        /\ \A q \in Procs \ {p} : pc'[q] = pc[q]
        /\ \A q \in Procs \ {p} : TempPath(q)' = TempPath(q)
    BY <1>t, <2>1, ForgetOne DEF TempPath, Temp, Holding, Early
  <2>5. TempInv'
    <3>1. ASSUME NEW q \in Procs \ {p}, pc[q] \in Holding
          PROVE  dir'[TempPath(q)] = q
      <4>1. dir[TempPath(q)] = q /\ TempPath(q) \in Temps
        BY <1>n, <3>1 DEF PlaceInv, TempInv
      <4> QED
        BY <2>2, <2>3, <4>1
    <3> QED
      BY <2>4, <3>1 DEF TempInv
  <2>6. OnlyTempInv'
    <3>1. ASSUME NEW q \in Procs \ {p}, NEW n \in Names
          PROVE  dir'[n] = q => dir[n] = q
      BY <2>2, <2>3
    <3> QED
      BY <2>1, <2>4, <3>1 DEF PlaceInv, OnlyTempInv
  <2>7. OutputInv'
    BY <2>1, <2>3 DEF PlaceInv, OutputInv, SyncInv
  <2>8. InputInv'
    BY <2>1, <2>2, <2>3 DEF PlaceInv, InputInv
  <2>9. SyncInv'
    BY <2>1, <2>4 DEF PlaceInv, SyncInv
  <2> QED
    BY <2>5, <2>6, <2>7, <2>8, <2>9 DEF PlaceInv
<1>9. ASSUME WriteBack PROVE PlaceInv'
  <2>1. disk' = dir /\ UNCHANGED <<dir, whole, synced, pc, attempt>>
    BY <1>9 DEF WriteBack, localVars
  <2>2. \A q \in Procs : TempPath(q)' = TempPath(q)
    BY <2>1 DEF TempPath, Temp
  <2> QED
    BY <2>1, <2>2 DEF PlaceInv, TempInv, OnlyTempInv, OutputInv, InputInv, SyncInv
<1>10. ASSUME PowerLoss PROVE PlaceInv'
  <2>1. /\ dir' = disk /\ UNCHANGED <<disk, synced>> /\ synced \subseteq whole'
        /\ pc' = [p \in Procs |-> IF Live(p) THEN "dead" ELSE pc[p]]
    BY <1>10 DEF PowerLoss
  <2>2. \A p \in Procs : /\ pc'[p] \notin Holding /\ pc'[p] \notin {"sync", "rename"}
                         /\ pc'[p] \in Early => pc[p] \in Early
    BY <1>t, <2>1 DEF Live, Ended, Holding, Early
  <2> QED
    BY <2>1, <2>2 DEF PlaceInv, TempInv, OnlyTempInv, OutputInv, InputInv, SyncInv
<1>11. ASSUME NEW n \in Inputs, NEW f \in Versions \cup {Absent}, Edit(n, f)
       PROVE  PlaceInv'
  <2>1. dir' = [dir EXCEPT ![n] = f] /\ UNCHANGED <<disk, whole, synced, pc, attempt>>
    BY <1>11 DEF Edit
  <2>2. \A m \in Names \ {n} : dir'[m] = dir[m]
    BY <1>t, <2>1
  <2>3. dir'[n] \notin Procs
    BY <1>t, <2>1
  <2>4. \A q \in Procs : TempPath(q)' = TempPath(q)
    BY <2>1 DEF TempPath, Temp
  <2>5. TempInv'
    BY <1>n, <2>1, <2>2, <2>4 DEF PlaceInv, TempInv
  <2>6. OnlyTempInv'
    BY <2>1, <2>2, <2>3, <2>4 DEF PlaceInv, OnlyTempInv
  <2>7. OutputInv' /\ InputInv' /\ SyncInv'
    BY <2>1, <2>2, <2>3 DEF PlaceInv, OutputInv, InputInv, SyncInv
  <2> QED
    BY <2>5, <2>6, <2>7 DEF PlaceInv
<1>12. ASSUME UNCHANGED vars PROVE PlaceInv'
  <2>1. UNCHANGED <<dir, disk, whole, synced, pc, attempt>>
    BY <1>12 DEF vars, fsVars, localVars
  <2>2. \A q \in Procs : TempPath(q)' = TempPath(q)
    BY <2>1 DEF TempPath, Temp
  <2> QED
    BY <2>1, <2>2 DEF PlaceInv, TempInv, OnlyTempInv, OutputInv, InputInv, SyncInv
<1> QED
  BY <1>1, <1>2, <1>3, <1>4, <1>5, <1>6, <1>7, <1>8, <1>9, <1>10, <1>11, <1>12
     DEF Next, ProcStep, AllEnded

LEMMA SpecPlace == Spec => [](TypeOK /\ PlaceInv)
  BY InitTypeOK, NextTypeOK, InitPlace, NextPlace, PTL DEF Spec

\* Whoever opens the output finds what was there or a whole archive, in spite
\* of kills and power failures at any point.
THEOREM OutputAlwaysWhole == Spec => []OutputWhole
<1>1. PlaceInv => OutputWhole
  BY DEF PlaceInv, OutputInv, SyncInv, OutputWhole
<1> QED
  BY <1>1, SpecPlace, PTL

\* pack_dir takes over, replaces and removes nobody else's file.
THEOREM OthersUntouched == Spec => TouchesOnlyItsOwn
<1> DEFINE Untouched ==
       UNCHANGED boundVars =>
         \A n \in Names \ {Output} :
            dir[n] \notin {Absent, dir'[n]} =>
                /\ dir'[n] = Absent
                /\ dir[n] \in Procs
                /\ pc[dir[n]] \in {"rename", "cleanup"}
                /\ pc'[dir[n]] \in {"ok", "err"}
<1>1. TypeOK /\ PlaceInv /\ [Next]_vars => [Untouched]_vars
  <2> SUFFICES ASSUME TypeOK, PlaceInv, [Next]_vars, UNCHANGED boundVars,
                      NEW n \in Names \ {Output}, dir[n] \notin {Absent, dir'[n]}
               PROVE  /\ dir'[n] = Absent
                      /\ dir[n] \in Procs
                      /\ pc[dir[n]] \in {"rename", "cleanup"}
                      /\ pc'[dir[n]] \in {"ok", "err"}
    OBVIOUS
  <2>t. /\ dir \in [Names -> Files] /\ edits \in Nat /\ losses \in Nat
        /\ attempt \in [Procs -> 0 .. ATTEMPTS - 1] /\ pc \in [Procs -> PCs]
    BY PackDirAssumption DEF TypeOK
  <2>1. ~(PowerLoss \/ \E m \in Inputs, f \in Versions \cup {Absent} : Edit(m, f))
    BY <2>t DEF PowerLoss, Edit, boundVars
  <2>2. ASSUME NEW p \in Procs, Rename(p) \/ CleanUp(p)
        PROVE  /\ dir'[n] = Absent /\ dir[n] \in Procs /\ pc[dir[n]] \in {"rename", "cleanup"}
               /\ pc'[dir[n]] \in {"ok", "err"}
    <3>1. pc[p] \in Holding /\ pc[p] \in {"rename", "cleanup"}
      BY <2>2 DEF Rename, CleanUp, Holding
    <3>2. dir[TempPath(p)] = p /\ TempPath(p) \in Temps
      BY <2>t, <3>1, TempFacts DEF PlaceInv, TempInv, TempPath
    <3>3. n = TempPath(p) /\ dir'[n] = Absent
      BY <2>t, <2>2, <3>2, NameFacts DEF Rename, CleanUp
    <3>4. dir' # dir
      OBVIOUS
    <3>5. pc'[p] \in {"ok", "err"}
      BY <2>t, <2>2, <3>4 DEF Rename, CleanUp, Goto
    <3> QED
      BY <3>1, <3>2, <3>3, <3>5
  <2>3. ASSUME NEW p \in Procs, CreateTemp(p) PROVE FALSE
    BY <2>t, <2>3 DEF CreateTemp
  <2>4. dir' # dir
    OBVIOUS
  <2> QED
    BY <2>1, <2>2, <2>3, <2>4
       DEF Next, ProcStep, AllEnded, vars, fsVars, Start, CollectDir, FailsEarly, OpenFile,
           AddFile, Finish, Flush, SyncAll, Fails, Crash, WriteBack
<1> QED
  BY <1>1, SpecPlace, PTL DEF Spec, TouchesOnlyItsOwn

-----------------------------------------------------------------------------
(* The refinement *)

Statuses == [p \in Procs |-> Status(p)]

LEMMA InitReplaces == Init => Replacement!Init
<1> SUFFICES ASSUME Init PROVE Replacement!Init
  OBVIOUS
<1>1. \A p \in Procs : Status(p) = "waiting"
  BY DEF Init, Status
<1>2. dir[Output] \in {Absent, Link, Found} /\ disk = dir
  BY NameFacts DEF Init
<1> QED
  BY <1>1, <1>2 DEF Replacement!Init

\* A step of one invocation changes its own status only.
LEMMA StatusOne ==
    ASSUME TypeOK, NEW p \in Procs, NEW l, pc' = [pc EXCEPT ![p] = l]
    PROVE  Statuses' = [Statuses EXCEPT ![p] = Status(p)']
<1>1. pc \in [Procs -> PCs]
  BY DEF TypeOK
<1>2. \A q \in Procs \ {p} : Status(q)' = Status(q)
  BY <1>1 DEF Status
<1> QED
  BY <1>2 DEF Statuses

LEMMA NextReplaces ==
    TypeOK /\ PlaceInv /\ [Next]_vars => [Replacement!Next]_(Replacement!vars)
<1> SUFFICES ASSUME TypeOK, PlaceInv, [Next]_vars
             PROVE  [Replacement!Next]_(Replacement!vars)
  OBVIOUS
<1>t. /\ pc \in [Procs -> PCs] /\ dir \in [Names -> Files] /\ disk \in [Names -> Files]
      /\ attempt \in [Procs -> 0 .. ATTEMPTS - 1]
  BY DEF TypeOK
<1>n. /\ \A p \in Procs : TempPath(p) \in Temps
      /\ \A p \in Procs : TempPath(p) # Output
  BY <1>t, TempFacts, NameFacts DEF TempPath
<1>s. ASSUME dir'[Output] = dir[Output], disk'[Output] = disk[Output], Statuses' = Statuses
      PROVE  [Replacement!Next]_(Replacement!vars)
  BY <1>s DEF Replacement!vars, Statuses
<1>f. ASSUME NEW p \in Procs, NEW l \in {"err", "leaked", "dead"},
             dir'[Output] = dir[Output], disk'[Output] = disk[Output],
             pc[p] \notin Ended, pc' = [pc EXCEPT ![p] = l]
      PROVE  [Replacement!Next]_(Replacement!vars)
  <2>1. Statuses' = [Statuses EXCEPT ![p] = Status(p)']
    BY <1>f, StatusOne
  <2>2. Status(p)' = "failed"
    BY <1>f, <1>t DEF Status
  <2>3. Statuses[p] \in {"waiting", "running"}
    BY <1>f DEF Statuses, Status, Ended
  <2>4. Statuses' = [Statuses EXCEPT ![p] = "failed"]
    BY <2>1, <2>2
  <2>5. Replacement!Fail(p)
    BY <1>f, <2>3, <2>4 DEF Replacement!Fail, Statuses
  <2> QED
    BY <2>5 DEF Replacement!Next
<1>r. ASSUME NEW p \in Procs, NEW l \in {"collect", "temp"} \cup Holding,
             dir'[Output] = dir[Output], disk'[Output] = disk[Output],
             pc[p] \in {"collect", "temp"} \cup Holding, pc' = [pc EXCEPT ![p] = l]
      PROVE  [Replacement!Next]_(Replacement!vars)
  <2>1. Statuses' = [Statuses EXCEPT ![p] = Status(p)']
    BY <1>r, StatusOne
  <2>2. Status(p)' = "running" /\ Status(p) = "running"
    BY <1>r, <1>t DEF Status, Holding
  <2>3. Statuses' = Statuses
    BY <2>1, <2>2 DEF Statuses
  <2> QED
    BY <1>r, <1>s, <2>3
<1>1. ASSUME NEW p \in Procs, Start(p) PROVE [Replacement!Next]_(Replacement!vars)
  <2>1. pc[p] = "start" /\ pc' = [pc EXCEPT ![p] = "collect"] /\ UNCHANGED <<dir, disk>>
    BY <1>1 DEF Start, Goto, fsVars
  <2>2. Statuses' = [Statuses EXCEPT ![p] = Status(p)']
    BY <2>1, StatusOne
  <2>3. Statuses[p] = "waiting" /\ Status(p)' = "running"
    BY <1>t, <2>1 DEF Statuses, Status
  <2>4. Statuses' = [Statuses EXCEPT ![p] = "running"]
    BY <2>2, <2>3
  <2>5. Replacement!Begin(p)
    BY <2>1, <2>3, <2>4 DEF Replacement!Begin, Statuses
  <2> QED
    BY <2>5 DEF Replacement!Next
<1>2. ASSUME NEW p \in Procs, Rename(p) PROVE [Replacement!Next]_(Replacement!vars)
  <2>1. /\ pc[p] = "rename" /\ pc' = [pc EXCEPT ![p] = "ok"] /\ disk' = disk
        /\ dir' = [dir EXCEPT ![Output] = dir[TempPath(p)], ![TempPath(p)] = Absent]
    BY <1>2 DEF Rename, Goto
  <2>2. dir[TempPath(p)] = p
    BY <2>1 DEF PlaceInv, TempInv, Holding
  <2>3. dir'[Output] = p
    BY <1>n, <1>t, <2>1, <2>2, NameFacts
  <2>4. Statuses' = [Statuses EXCEPT ![p] = Status(p)']
    BY <2>1, StatusOne
  <2>5. Statuses[p] = "running" /\ Status(p)' = "ok"
    BY <1>t, <2>1 DEF Statuses, Status
  <2>6. Statuses' = [Statuses EXCEPT ![p] = "ok"]
    BY <2>4, <2>5
  <2>7. Replacement!Publish(p)
    BY <2>1, <2>3, <2>5, <2>6 DEF Replacement!Publish, Statuses
  <2> QED
    BY <2>7 DEF Replacement!Next
<1>3. ASSUME NEW p \in Procs, CleanUp(p) PROVE [Replacement!Next]_(Replacement!vars)
  <2>1. /\ pc[p] = "cleanup" /\ disk' = disk
        /\ pc' = [pc EXCEPT ![p] = "err"] \/ pc' = [pc EXCEPT ![p] = "leaked"]
        /\ dir' = dir \/ dir' = [dir EXCEPT ![TempPath(p)] = Absent]
    BY <1>3 DEF CleanUp, Goto
  <2>2. dir'[Output] = dir[Output]
    BY <1>n, <1>t, <2>1, NameFacts
  <2> QED
    BY <1>f, <2>1, <2>2 DEF Ended
<1>4. ASSUME NEW p \in Procs, FailsEarly(p) \/ Crash(p)
      PROVE  [Replacement!Next]_(Replacement!vars)
  <2>1. /\ UNCHANGED <<dir, disk>> /\ pc[p] \notin Ended
        /\ pc' = [pc EXCEPT ![p] = "err"] \/ pc' = [pc EXCEPT ![p] = "dead"]
    BY <1>4 DEF FailsEarly, Crash, Goto, fsVars, Live, Ended
  <2> QED
    BY <1>f, <2>1
<1>5. ASSUME NEW p \in Procs, CreateTemp(p) PROVE [Replacement!Next]_(Replacement!vars)
  <2>1. /\ pc[p] = "temp" /\ disk' = disk
        /\ \/ pc' = [pc EXCEPT ![p] = "err"]
           \/ pc' = [pc EXCEPT ![p] = "pack"]
           \/ pc' = pc
        /\ dir' = dir \/ dir' = [dir EXCEPT ![TempPath(p)] = p]
    BY <1>5 DEF CreateTemp, Goto
  <2>2. dir'[Output] = dir[Output]
    BY <1>n, <1>t, <2>1, NameFacts
  <2>3. pc' = pc => Statuses' = Statuses
    BY DEF Statuses, Status
  <2> QED
    BY <1>f, <1>r, <1>s, <2>1, <2>2, <2>3 DEF Ended, Holding
<1>6. ASSUME NEW p \in Procs, NEW d, CollectDir(p, d)
      PROVE  [Replacement!Next]_(Replacement!vars)
  <2>1. /\ pc[p] = "collect" /\ UNCHANGED <<dir, disk>>
        /\ pc' = [pc EXCEPT ![p] = "temp"] \/ pc' = pc
    BY <1>6 DEF CollectDir, Goto, fsVars
  <2>2. pc' = pc => Statuses' = Statuses
    BY DEF Statuses, Status
  <2> QED
    BY <1>r, <1>s, <2>1, <2>2
<1>7. ASSUME NEW p \in Procs,
             OpenFile(p) \/ AddFile(p) \/ Finish(p) \/ Flush(p) \/ SyncAll(p) \/ Fails(p)
      PROVE  [Replacement!Next]_(Replacement!vars)
  <2>1. /\ pc[p] \in Holding /\ UNCHANGED <<dir, disk>>
        /\ pc' = pc \/ \E l \in Holding : pc' = [pc EXCEPT ![p] = l]
    BY <1>7, OpenFileCases, AddFileCases
       DEF OpenFile, AddFile, Opens, Packs, GivesUp, Finish, Flush, SyncAll, Fails, Goto, Holding, fsVars
  <2>2. pc' = pc => Statuses' = Statuses
    BY DEF Statuses, Status
  <2> QED
    BY <1>r, <1>s, <2>1, <2>2
<1>8. ASSUME WriteBack PROVE [Replacement!Next]_(Replacement!vars)
  <2>1. disk' = dir /\ UNCHANGED <<dir, pc>>
    BY <1>8 DEF WriteBack
  <2>2. Statuses' = Statuses
    BY <2>1 DEF Statuses, Status
  <2>3. Replacement!WriteBack
    BY <2>1, <2>2 DEF Replacement!WriteBack, Statuses
  <2> QED
    BY <2>3 DEF Replacement!Next
<1>9. ASSUME PowerLoss PROVE [Replacement!Next]_(Replacement!vars)
  <2>1. /\ dir' = disk /\ disk' = disk
        /\ pc' = [p \in Procs |-> IF Live(p) THEN "dead" ELSE pc[p]]
    BY <1>9 DEF PowerLoss
  <2>2. ASSUME NEW p \in Procs
        PROVE  Status(p)' = IF Status(p) = "running" THEN "failed" ELSE Status(p)
    <3>1. pc'[p] = IF pc[p] \in Ended \cup {"start"} THEN pc[p] ELSE "dead"
      BY <2>1 DEF Live
    <3> QED
      BY <1>t, <3>1 DEF Status, Ended
  <2>3. Statuses' = [p \in Procs |-> IF Statuses[p] = "running" THEN "failed" ELSE Statuses[p]]
    BY <2>2 DEF Statuses
  <2>4. Replacement!PowerLoss
    BY <2>1, <2>3 DEF Replacement!PowerLoss, Statuses
  <2> QED
    BY <2>4 DEF Replacement!Next
<1>10. ASSUME NEW n \in Inputs, NEW f \in Versions \cup {Absent}, Edit(n, f)
       PROVE  [Replacement!Next]_(Replacement!vars)
  <2>1. dir' = [dir EXCEPT ![n] = f] /\ UNCHANGED <<disk, pc>>
    BY <1>10 DEF Edit
  <2>2. dir'[Output] = dir[Output]
    BY <1>t, <2>1, NameFacts
  <2>3. Statuses' = Statuses
    BY <2>1 DEF Statuses, Status
  <2> QED
    BY <1>s, <2>1, <2>2, <2>3
<1>11. ASSUME UNCHANGED vars PROVE [Replacement!Next]_(Replacement!vars)
  <2>1. UNCHANGED <<dir, disk, pc>>
    BY <1>11 DEF vars, fsVars
  <2>2. Statuses' = Statuses
    BY <2>1 DEF Statuses, Status
  <2> QED
    BY <1>s, <2>1, <2>2
<1> QED
  BY <1>1, <1>2, <1>3, <1>4, <1>5, <1>6, <1>7, <1>8, <1>9, <1>10, <1>11
     DEF Next, ProcStep, AllEnded

\* pack_dir's create_temp, flush, sync_all, rename and clean-up together
\* replace the output atomically.
THEOREM OutputReplacedAtomically == Spec => ReplacesAtomically
<1> QED
  BY InitReplaces, NextReplaces, SpecPlace, PTL DEF Spec, ReplacesAtomically, Replacement!Spec

-----------------------------------------------------------------------------
(* What is packed *)

\* The names create_temp may give this invocation's temporary file.
OwnNames(p) == {Temp(p, a) : a \in 0 .. ATTEMPTS - 1}

\* Processes that run at the same time have different ids.
PidInv == \A p, q \in Procs : Live(p) /\ Live(q) /\ p # q => Pid[p] # Pid[q]

\* A name that create_temp finds free was not listed before: a file seen under
\* one of its own names is a left-over, which nobody removes while this process
\* runs.  So its temporary file is not among the files it packs.
ListedFor(p) ==
    /\ pc[p] = "start" => files[p] = {}
    /\ pc[p] \in {"collect", "temp"} =>
          \A n \in files[p] \cap OwnNames(p) : dir[n] # Absent
    /\ pc[p] \in Holding => TempPath(p) \notin files[p]
    /\ Live(p) => files[p] \cap Excluded(p) = {}
    /\ pc[p] \in Early => contents[p] = << >>

\* The rest of NeverPacksItself, for one invocation.
PackedFor(p) ==
    /\ \A i \in DOMAIN contents[p] :
          /\ contents[p][i].name \notin {Output, existing_output[p]}
          /\ p \notin contents[p][i].bytes
    /\ p \notin source[p]

ListInv == PidInv /\ \A p \in Procs : ListedFor(p) /\ PackedFor(p)

Closed(D) == \A d \in D : SubDirs[d] \subseteq D
Wanted(p) == steady[p] \ Excluded(p)

\* A file that nobody touches is collected, or is in a directory below one
\* that is still to be listed.
FoundFor(p) ==
    /\ Live(p) => \A n \in steady[p] : IsFile(n)
    /\ pc[p] = "collect" =>
          \A n \in Wanted(p) :
             \/ n \in files[p]
             \/ \A D \in SUBSET DOMAIN SubDirs :
                   pending[p] \subseteq D /\ Closed(D) => HomeOf(n) \in D
    /\ pc[p] = "temp" => Wanted(p) \subseteq files[p]
    /\ pc[p] \in {"pack", "read"} => Wanted(p) \subseteq files[p] \cup PackedNames(p)
    /\ pc[p] \in {"flush", "sync", "rename"} => Wanted(p) \subseteq PackedNames(p)

FoundInv == \A p \in Procs : FoundFor(p)

\* The open file, and every entry, that nobody has touched has the bytes that
\* the file still has.
OwnBytesFor(p) ==
    Live(p) =>
      /\ \A i \in DOMAIN contents[p] :
            contents[p][i].name \in steady[p] =>
                contents[p][i].bytes = {dir[contents[p][i].name]}
      /\ pc[p] = "read" /\ NextFile(p) \in steady[p] => source[p] = {dir[NextFile(p)]}

OwnBytesInv == \A p \in Procs : OwnBytesFor(p)

\* What is packed is in the order of the virtual paths, before all that is
\* still to come.
SortedFor(p) ==
    /\ \A i, j \in DOMAIN contents[p] :
          i < j => Rank[contents[p][i].name] < Rank[contents[p][j].name]
    /\ pc[p] \in {"pack", "read"} =>
          \A i \in DOMAIN contents[p] : \A m \in files[p] :
             Rank[contents[p][i].name] <= Rank[m]

SortedInv == \A p \in Procs : SortedFor(p)

-----------------------------------------------------------------------------
(* Steps of one invocation, and what the others see of them *)

SameList(q) ==
    /\ pc'[q] = pc[q] /\ files'[q] = files[q] /\ contents'[q] = contents[q]
    /\ existing_output'[q] = existing_output[q] /\ pending'[q] = pending[q]

SameLocals(q) == SameList(q) /\ attempt'[q] = attempt[q] /\ source'[q] = source[q]

LEMMA OneActor ==
    ASSUME TypeOK, NEW p \in Procs, ProcStep(p) \/ Crash(p)
    PROVE  \A q \in Procs \ {p} : SameLocals(q) /\ steady'[q] = steady[q]
<1>t. /\ pc \in [Procs -> PCs] /\ attempt \in [Procs -> 0 .. ATTEMPTS - 1]
      /\ existing_output \in [Procs -> Names \cup {Absent}]
      /\ files \in [Procs -> SUBSET Names] /\ pending \in [Procs -> SUBSET DOMAIN SubDirs]
      /\ contents \in [Procs -> Seq([name : Names, bytes : SUBSET Files])]
      /\ steady \in [Procs -> SUBSET Inputs] /\ source \in [Procs -> SUBSET Files]
  BY DEF TypeOK
<1>1. CASE Start(p)
  BY <1>1, <1>t DEF Start, Goto, SameLocals, SameList
<1>2. CASE \E d \in DOMAIN SubDirs : CollectDir(p, d)
  BY <1>2, <1>t DEF CollectDir, Goto, SameLocals, SameList
<1>3. CASE CreateTemp(p)
  BY <1>3, <1>t DEF CreateTemp, Goto, SameLocals, SameList
<1>4. CASE FailsEarly(p) \/ Crash(p) \/ CleanUp(p)
  <2>1. Forget({p}) /\ Discard({p})
    BY <1>4 DEF FailsEarly, Crash, CleanUp
  <2>2. \E l : pc' = [pc EXCEPT ![p] = l]
    BY <1>4 DEF FailsEarly, Crash, CleanUp, Goto
  <2> QED
    BY <1>t, <2>1, <2>2, ForgetOne DEF SameLocals, SameList, Discard
<1>5. CASE Rename(p)
  BY <1>5, <1>t, ForgetOne DEF SameLocals, SameList, Rename, Goto
<1>6. CASE OpenFile(p) \/ AddFile(p)
  <2>1. UNCHANGED <<attempt, existing_output, pending, steady>>
    BY <1>6 DEF OpenFile, AddFile
  <2>2. CASE Opens(p)
    BY <1>t, <2>1, <2>2 DEF Opens, SameLocals, SameList
  <2>3. CASE Packs(p)
    BY <1>t, <2>1, <2>3 DEF Packs, SameLocals, SameList
  <2>4. CASE GivesUp(p)
    BY <1>t, <2>1, <2>4 DEF GivesUp, SameLocals, SameList
  <2> QED
    BY <1>6, <2>2, <2>3, <2>4, OpenFileCases, AddFileCases
<1>7. CASE Finish(p) \/ Flush(p) \/ SyncAll(p) \/ Fails(p)
  BY <1>7, <1>t DEF Finish, Flush, SyncAll, Fails, Goto, Close, SameLocals, SameList, localVars
<1> QED
  BY <1>1, <1>2, <1>3, <1>4, <1>5, <1>6, <1>7 DEF ProcStep

\* Of what is in the tree an invocation takes away its temporary file at most.
LEMMA TakesOnlyItsOwn ==
    ASSUME TypeOK, PlaceInv, NEW p \in Procs, ProcStep(p) \/ Crash(p)
    PROVE  /\ \A n \in Names :
                 dir[n] # Absent /\ dir'[n] = Absent => pc[p] \in Holding /\ n = TempPath(p)
           /\ \A n \in Inputs : dir'[n] = dir[n]
<1>t. dir \in [Names -> Files] /\ attempt \in [Procs -> 0 .. ATTEMPTS - 1]
  BY DEF TypeOK
<1>n. TempPath(p) \in Temps
  BY <1>t, TempFacts DEF TempPath
<1>1. CASE CreateTemp(p)
  <2>1. dir' = dir \/ dir' = [dir EXCEPT ![TempPath(p)] = p]
    BY <1>1 DEF CreateTemp
  <2> QED
    BY <1>n, <1>t, <2>1, NameFacts, FileFacts
<1>2. CASE Rename(p)
  <2>1. pc[p] \in Holding /\ dir[TempPath(p)] = p
    BY <1>2 DEF Rename, Holding, PlaceInv, TempInv
  <2>2. dir' = [dir EXCEPT ![Output] = dir[TempPath(p)], ![TempPath(p)] = Absent]
    BY <1>2 DEF Rename
  <2>3. /\ dir'[Output] = p
        /\ \A n \in Names \ {Output, TempPath(p)} : dir'[n] = dir[n]
    BY <1>n, <1>t, <2>1, <2>2, NameFacts
  <2> QED
    BY <1>n, <2>1, <2>3, NameFacts, FileFacts
<1>3. CASE CleanUp(p)
  <2>1. /\ pc[p] \in Holding
        /\ dir' = dir \/ dir' = [dir EXCEPT ![TempPath(p)] = Absent]
    BY <1>3 DEF CleanUp, Holding
  <2> QED
    BY <1>n, <1>t, <2>1, NameFacts
<1>4. CASE dir' = dir
  BY <1>4
<1> QED
  BY <1>1, <1>2, <1>3, <1>4
     DEF ProcStep, Start, CollectDir, FailsEarly, OpenFile, AddFile, Finish, Flush, SyncAll,
         Fails, Crash, fsVars

LEMMA OwnNamesFacts ==
    ASSUME TypeOK, NEW p \in Procs
    PROVE  OwnNames(p) \subseteq Temps /\ TempPath(p) \in OwnNames(p)
  BY DEF OwnNames, Temps, TempPath, TypeOK

LEMMA LiveFacts ==
    ASSUME TypeOK, NEW p \in Procs
    PROVE  /\ Live(p) <=> pc[p] \in {"collect", "temp"} \cup Holding
           /\ Live(p)' <=> pc'[p] \notin Ended \cup {"start"}
<1>1. pc[p] \in PCs
  BY DEF TypeOK
<1> QED
  BY <1>1 DEF Live, PCs, Ended, Holding

-----------------------------------------------------------------------------
(* NeverPacksItself *)

LEMMA InitList == Init => ListInv
<1> SUFFICES ASSUME Init PROVE ListInv
  OBVIOUS
<1>1. \A p \in Procs : pc[p] = "start" /\ files[p] = {} /\ contents[p] = << >> /\ ~Live(p)
                        /\ source[p] = {}
  BY DEF Init, Live
<1>2. DOMAIN << >> = {}
  OBVIOUS
<1>3. \A p \in Procs : ListedFor(p)
  BY <1>1 DEF ListedFor, Holding, Early
<1>4. \A p \in Procs : PackedFor(p)
  BY <1>1, <1>2 DEF PackedFor
<1>5. PidInv
  BY <1>1 DEF PidInv
<1> QED
  BY <1>3, <1>4, <1>5 DEF ListInv

LEMMA OthersListed ==
    ASSUME NEW q \in Procs, ListedFor(q), PackedFor(q), SameLocals(q),
           Live(q) => \A n \in OwnNames(q) : dir[n] # Absent => dir'[n] # Absent
    PROVE  ListedFor(q)' /\ PackedFor(q)'
<1>1. /\ Live(q)' <=> Live(q)
      /\ TempPath(q)' = TempPath(q) /\ Excluded(q)' = Excluded(q)
      /\ pc[q] \in {"collect", "temp"} => Live(q)
  BY DEF SameLocals, SameList, Live, TempPath, Temp, Excluded, Ended
<1>2. ListedFor(q)'
  BY <1>1 DEF ListedFor, SameLocals, SameList, OwnNames, Temp
<1>3. PackedFor(q)'
  BY DEF PackedFor, SameLocals, SameList
<1> QED
  BY <1>2, <1>3

\* An invocation that has ended lists nothing.
LEMMA EndedListed ==
    ASSUME NEW p \in Procs, pc'[p] \in Ended,
           (contents'[p] = << >> /\ source'[p] = {}) \/ PackedFor(p)'
    PROVE  ListedFor(p)' /\ PackedFor(p)'
<1>1. DOMAIN << >> = {}
  OBVIOUS
<1>2. PackedFor(p)'
  BY <1>1 DEF PackedFor
<1>3. ListedFor(p)'
  BY DEF ListedFor, Live, Ended, Holding, Early
<1> QED
  BY <1>2, <1>3

\* The files an invocation lists and the ones it packs.
LEMMA ActorListed ==
    ASSUME TypeOK, PlaceInv, NEW p \in Procs, ListedFor(p), PackedFor(p),
           ProcStep(p) \/ Crash(p)
    PROVE  ListedFor(p)' /\ PackedFor(p)'
<1>t. /\ pc \in [Procs -> PCs] /\ attempt \in [Procs -> 0 .. ATTEMPTS - 1]
      /\ existing_output \in [Procs -> Names \cup {Absent}]
      /\ files \in [Procs -> SUBSET Names] /\ dir \in [Names -> Files]
      /\ contents \in [Procs -> Seq([name : Names, bytes : SUBSET Files])]
      /\ source \in [Procs -> SUBSET Files]
  BY DEF TypeOK
<1>1. CASE Start(p)
  <2>1. /\ pc[p] = "start" /\ pc'[p] = "collect" /\ UNCHANGED <<files, contents, source>>
    BY <1>1, <1>t DEF Start, Goto
  <2>2. files'[p] = {} /\ contents'[p] = << >> /\ DOMAIN << >> = {}
    BY <2>1 DEF ListedFor, Early
  <2> QED
    BY <2>1, <2>2 DEF ListedFor, PackedFor, Holding
<1>2. CASE \E d \in DOMAIN SubDirs : CollectDir(p, d)
  <2>1. PICK d \in DOMAIN SubDirs : CollectDir(p, d)
    BY <1>2
  <2>2. /\ pc[p] = "collect" /\ pc'[p] \in {"collect", "temp"}
        /\ files'[p] = files[p] \cup Collected(p, d)
        /\ UNCHANGED <<dir, existing_output, contents, source>>
    BY <1>t, <2>1 DEF CollectDir, Goto, fsVars
  <2>3. Collected(p, d) \cap Excluded(p) = {} /\ \A n \in Collected(p, d) : dir[n] # Absent
    BY DEF Collected, IsFile
  <2>4. Excluded(p)' = Excluded(p) /\ OwnNames(p)' = OwnNames(p) /\ Live(p)
    BY <2>2 DEF Excluded, OwnNames, Temp, Live, Ended
  <2>5. ListedFor(p)'
    BY <2>2, <2>3, <2>4 DEF ListedFor, Holding, Early
  <2>6. PackedFor(p)'
    BY <2>2 DEF PackedFor
  <2> QED
    BY <2>5, <2>6
<1>3. CASE CreateTemp(p)
  <2>1. /\ pc[p] = "temp" /\ Live(p)
        /\ UNCHANGED <<files, contents, existing_output, source>>
        /\ Excluded(p)' = Excluded(p) /\ OwnNames(p)' = OwnNames(p)
    BY <1>3 DEF CreateTemp, Excluded, OwnNames, Temp, Live, Ended
  <2>2. PackedFor(p)'
    BY <2>1 DEF PackedFor
  <2>3. CASE dir[TempPath(p)] = Absent
    <3>1. pc'[p] = "pack" /\ attempt' = attempt
      BY <1>3, <1>t, <2>3 DEF CreateTemp, Goto
    <3>2. TempPath(p)' = TempPath(p) /\ TempPath(p) \in OwnNames(p)
      BY <3>1, OwnNamesFacts DEF TempPath, Temp
    <3>3. TempPath(p) \notin files[p]
      BY <2>1, <2>3, <3>2 DEF ListedFor
    <3>4. ListedFor(p)'
      BY <2>1, <3>1, <3>2, <3>3 DEF ListedFor, Early
    <3> QED
      BY <2>2, <3>4
  <2>4. CASE dir[TempPath(p)] # Absent
    <3>1. pc'[p] \in {"temp", "err"} /\ dir' = dir
      BY <1>3, <1>t, <2>1, <2>4 DEF CreateTemp, Goto
    <3>2. ListedFor(p)'
      BY <2>1, <3>1 DEF ListedFor, Live, Ended, Holding, Early
    <3> QED
      BY <2>2, <3>2
  <2> QED
    BY <2>3, <2>4
<1>4. CASE FailsEarly(p) \/ Crash(p) \/ CleanUp(p)
  <2>1. /\ Forget({p}) /\ Discard({p})
        /\ \E l \in Ended : pc' = [pc EXCEPT ![p] = l]
    BY <1>4 DEF FailsEarly, Crash, CleanUp, Goto, Ended
  <2>2. pc'[p] \in Ended /\ contents'[p] = << >> /\ source'[p] = {}
    BY <1>t, <2>1 DEF Discard, Forget
  <2> QED
    BY <2>2, EndedListed
<1>5. CASE Rename(p)
  <2>1. pc'[p] = "ok" /\ existing_output'[p] = Absent /\ contents' = contents /\ source'[p] = {}
    BY <1>5, <1>t DEF Rename, Goto, Forget
  <2>2. ASSUME NEW i \in DOMAIN contents[p]
        PROVE  contents[p][i].name # Absent
    <3>1. contents[p][i] \in [name : Names, bytes : SUBSET Files]
      <4> DEFINE E == [name : Names, bytes : SUBSET Files]
      <4>1. contents[p] \in Seq(E)
        BY <1>t
      <4> HIDE DEF E
      <4>2. contents[p][i] \in E
        BY <4>1
      <4> QED
        BY <4>2 DEF E
    <3> QED
      BY <3>1, NameFacts
  <2>3. PackedFor(p)'
    BY <2>1, <2>2 DEF PackedFor
  <2> QED
    BY <2>1, <2>3, EndedListed DEF Ended
<1>8. CASE OpenFile(p) /\ Opens(p)
  <2> DEFINE n == NextFile(p)
  <2>1. /\ pc[p] = "pack" /\ pc'[p] = "read" /\ files[p] # {}
        /\ UNCHANGED <<existing_output, attempt, contents, files>>
        /\ source'[p] = {dir[Resolve(n)]}
    BY <1>8, <1>t DEF OpenFile, Opens
  <2>2. n \in files[p] /\ n \in Names
    BY <2>1, NextFileListed
  <2>3. n # TempPath(p)
    BY <2>1, <2>2 DEF ListedFor, Holding
  <2>4. dir[Resolve(n)] # p
    <3>1. CASE dir[n] = Link
      BY <3>1, NameFacts DEF Resolve, PlaceInv, InputInv
    <3>2. CASE dir[n] # Link
      BY <2>1, <2>2, <2>3, <3>2 DEF Resolve, PlaceInv, OnlyTempInv, Holding
    <3> QED
      BY <3>1, <3>2
  <2>5. Excluded(p)' = Excluded(p) /\ TempPath(p)' = TempPath(p) /\ Live(p)
    BY <2>1 DEF Excluded, TempPath, Temp, Live, Ended
  <2>6. ListedFor(p)'
    BY <2>1, <2>5 DEF ListedFor, Early, Holding
  <2>7. PackedFor(p)'
    BY <2>1, <2>4 DEF PackedFor
  <2> QED
    BY <2>6, <2>7
<1>6. CASE AddFile(p) /\ Packs(p)
  <2>0. PICK bytes \in (SUBSET source[p]) \ {{}} :
           contents' = [contents EXCEPT ![p] =
                 Append(contents[p], [name |-> NextFile(p), bytes |-> bytes])]
    BY <1>6 DEF Packs
  <2> DEFINE n == NextFile(p)
             e == [name |-> n, bytes |-> bytes]
  <2>1. /\ pc[p] = "read" /\ pc'[p] = "pack" /\ files[p] # {}
        /\ UNCHANGED <<existing_output, attempt>>
        /\ contents'[p] = Append(contents[p], e)
        /\ files'[p] = files[p] \ {n} /\ source'[p] = {}
    BY <1>6, <1>t, <2>0 DEF AddFile, Packs
  <2>2. n \in files[p] /\ n \in Names
    BY <2>1, NextFileListed
  <2>3. n \notin Excluded(p)
    BY <2>1, <2>2 DEF ListedFor, Live, Ended
  <2>5. Excluded(p)' = Excluded(p) /\ TempPath(p)' = TempPath(p) /\ Live(p)
    BY <2>1 DEF Excluded, TempPath, Temp, Live, Ended
  <2>6. ListedFor(p)'
    BY <2>1, <2>5 DEF ListedFor, Early, Holding
  <2>7. e.name \notin Excluded(p) /\ p \notin e.bytes
    BY <2>0, <2>3 DEF PackedFor
  <2>8. PackedFor(p)'
    <3> HIDE DEF e, n
    <3>1. contents[p] \in Seq([name : Names, bytes : SUBSET Files])
      BY <1>t
    <3>2. ASSUME NEW i \in DOMAIN contents'[p]
          PROVE  contents'[p][i] = e \/ (i \in DOMAIN contents[p] /\ contents'[p][i] = contents[p][i])
      <4> DEFINE c == contents[p]
      <4>1. c \in Seq([name : Names, bytes : SUBSET Files]) /\ i \in DOMAIN Append(c, e)
        BY <2>1, <3>1
      <4> HIDE DEF c
      <4>2. Append(c, e)[i] = e \/ (i \in DOMAIN c /\ Append(c, e)[i] = c[i])
        BY <4>1
      <4> QED
        BY <2>1, <4>2 DEF c
    <3>3. existing_output'[p] = existing_output[p] /\ p \notin source'[p]
      BY <2>1
    <3> QED
      BY <2>7, <3>2, <3>3 DEF PackedFor, Excluded
  <2> QED
    BY <2>6, <2>8
<1>7. CASE \/ (OpenFile(p) \/ AddFile(p)) /\ GivesUp(p)
           \/ Finish(p) \/ Flush(p) \/ SyncAll(p) \/ Fails(p)
  <2>1. /\ pc[p] \in Holding /\ \E l \in Holding : pc' = [pc EXCEPT ![p] = l]
        /\ UNCHANGED <<files, contents, existing_output, attempt>>
        /\ source' \in {source, [source EXCEPT ![p] = {}]}
    BY <1>7 DEF OpenFile, AddFile, GivesUp, Finish, Flush, SyncAll, Fails, Goto, Close, Holding,
                localVars
  <2>2. pc'[p] \in Holding
    BY <1>t, <2>1
  <2>3. Excluded(p)' = Excluded(p) /\ TempPath(p)' = TempPath(p) /\ Live(p)
    BY <2>1 DEF Excluded, TempPath, Temp, Live, Ended, Holding
  <2>4. ListedFor(p)'
    BY <2>1, <2>2, <2>3 DEF ListedFor, Early, Holding
  <2>5. PackedFor(p)'
    BY <1>t, <2>1 DEF PackedFor
  <2> QED
    BY <2>4, <2>5
<1> QED
  BY <1>1, <1>2, <1>3, <1>4, <1>5, <1>6, <1>7, <1>8, OpenFileCases, AddFileCases DEF ProcStep

LEMMA ActorPid ==
    ASSUME TypeOK, PidInv, NEW p \in Procs, ProcStep(p) \/ Crash(p)
    PROVE  PidInv'
<1>t. pc \in [Procs -> PCs]
  BY DEF TypeOK
<1>1. \A q \in Procs \ {p} : Live(q)' <=> Live(q)
  BY OneActor DEF SameLocals, SameList, Live
<1>2. CASE Start(p)
  BY <1>1, <1>2 DEF Start, PidInv
<1>3. CASE Live(p)' => Live(p)
  BY <1>1, <1>3 DEF PidInv
<1>4. ASSUME ~Start(p) PROVE Live(p)' => Live(p)
  BY <1>4, <1>t
     DEF ProcStep, CollectDir, CreateTemp, FailsEarly, OpenFile, AddFile, Finish, Flush, SyncAll, Rename, Fails, CleanUp, Crash, Goto, Live, Ended, Holding
<1> QED
  BY <1>2, <1>3, <1>4

LEMMA NextList == TypeOK /\ PlaceInv /\ ListInv /\ [Next]_vars => ListInv'
<1> SUFFICES ASSUME TypeOK, PlaceInv, ListInv, [Next]_vars PROVE ListInv'
  OBVIOUS
<1>t. /\ pc \in [Procs -> PCs] /\ dir \in [Names -> Files]
  BY DEF TypeOK
<1>1. ASSUME NEW p \in Procs, ProcStep(p) \/ Crash(p) PROVE ListInv'
  <2>1. ListedFor(p)' /\ PackedFor(p)'
    BY <1>1, ActorListed DEF ListInv
  <2>2. ASSUME NEW q \in Procs \ {p} PROVE ListedFor(q)' /\ PackedFor(q)'
    <3>1. ASSUME Live(q), NEW n \in OwnNames(q), dir[n] # Absent, dir'[n] = Absent
          PROVE  FALSE
      <4>1. n \in Names
        BY OwnNamesFacts, NameFacts
      <4>2. pc[p] \in Holding /\ n = TempPath(p)
        BY <1>1, <3>1, <4>1, TakesOnlyItsOwn
      <4>3. Live(p)
        BY <4>2, LiveFacts
      <4>4. Pid[p] = Pid[q]
        BY <4>2, TempNames DEF OwnNames, TempPath
      <4> QED
        BY <3>1, <4>3, <4>4 DEF ListInv, PidInv
    <3>2. SameLocals(q)
      BY <1>1, OneActor
    <3> QED
      BY <3>1, <3>2, OthersListed DEF ListInv
  <2>3. PidInv'
    BY <1>1, ActorPid DEF ListInv
  <2> QED
    BY <2>1, <2>2, <2>3 DEF ListInv
<1>2. ASSUME UNCHANGED <<pc, existing_output, pending, files, attempt, contents>>,
             \A q \in Procs : source'[q] \subseteq source[q] \cup Versions,
             \A n \in Temps : dir'[n] = dir[n]
      PROVE  ListInv'
  <2>1. ASSUME NEW q \in Procs PROVE ListedFor(q)' /\ PackedFor(q)'
    <3>1. ListedFor(q) /\ PackedFor(q)
      BY DEF ListInv
    <3>2. \A n \in OwnNames(q) : dir'[n] = dir[n]
      BY <1>2, OwnNamesFacts
    <3>3. /\ (Live(q)' <=> Live(q)) /\ TempPath(q)' = TempPath(q) /\ Excluded(q)' = Excluded(q)
          /\ OwnNames(q)' = OwnNames(q)
      BY <1>2 DEF Live, TempPath, Temp, Excluded, OwnNames
    <3>4. ListedFor(q)'
      BY <1>2, <3>1, <3>2, <3>3 DEF ListedFor
    <3>5. PackedFor(q)'
      BY <1>2, <3>1, FileFacts DEF PackedFor
    <3> QED
      BY <3>4, <3>5
  <2>2. PidInv'
    BY <1>2 DEF ListInv, PidInv, Live
  <2> QED
    BY <2>1, <2>2 DEF ListInv
<1>3. ASSUME PowerLoss PROVE ListInv'
  <2>1. /\ pc' = [p \in Procs |-> IF Live(p) THEN "dead" ELSE pc[p]]
        /\ Forget({p \in Procs : Live(p)}) /\ Discard({p \in Procs : Live(p)})
    BY <1>3 DEF PowerLoss
  <2>2. \A p \in Procs : ~(Live(p)')
    BY <1>t, <2>1 DEF Live, Ended
  <2>3. ASSUME NEW q \in Procs, Live(q) PROVE ListedFor(q)' /\ PackedFor(q)'
    <3>1. pc'[q] \in Ended /\ contents'[q] = << >> /\ source'[q] = {}
      BY <2>1, <2>3 DEF Discard, Forget, Ended
    <3> QED
      BY <3>1, EndedListed
  <2>4. ASSUME NEW q \in Procs, ~Live(q) PROVE ListedFor(q)' /\ PackedFor(q)'
    <3>1. SameLocals(q)
      <4> DEFINE S == {p \in Procs : Live(p)}
      <4>1. q \notin S /\ Forget(S) /\ Discard(S) /\ pc'[q] = pc[q]
        BY <2>1, <2>4
      <4> HIDE DEF S
      <4> QED
        BY <4>1 DEF SameLocals, SameList, Forget, Discard
    <3> QED
      BY <2>4, <3>1, OthersListed DEF ListInv
  <2> QED
    BY <2>2, <2>3, <2>4 DEF ListInv, PidInv
<1>4. ASSUME NEW n \in Inputs, NEW f \in Versions \cup {Absent}, Edit(n, f) PROVE ListInv'
  <2>1. UNCHANGED <<pc, existing_output, pending, files, attempt, contents>>
    BY <1>4 DEF Edit
  <2>2. \A m \in Temps : dir'[m] = dir[m]
    BY <1>4, <1>t, NameFacts DEF Edit
  <2>3. \A q \in Procs : source'[q] \subseteq source[q] \cup Versions
    BY <1>4 DEF Edit
  <2> QED
    BY <1>2, <2>1, <2>2, <2>3
<1>5. ASSUME WriteBack \/ UNCHANGED vars PROVE ListInv'
  BY <1>2, <1>5 DEF WriteBack, vars, fsVars, localVars
<1> QED
  BY <1>1, <1>3, <1>4, <1>5 DEF Next, AllEnded

\* No archive holds itself, the output it replaces or the file that linked to
\* it, whatever is in the tree and whoever else is packing it.
THEOREM ArchiveNeverInItself == Spec => []NeverPacksItself
<1>1. ListInv => NeverPacksItself
  BY DEF ListInv, PackedFor, NeverPacksItself
<1> QED
  BY <1>1, InitList, NextList, SpecPlace, PTL DEF Spec

-----------------------------------------------------------------------------
(* NothingMissed *)

LEMMA AppendedNames ==
    ASSUME TypeOK, NEW p \in Procs, NEW e, contents'[p] = Append(contents[p], e)
    PROVE  PackedNames(p)' = PackedNames(p) \cup {e.name}
<1> DEFINE c == contents[p]
           E == [name : Names, bytes : SUBSET Files]
<1>1. c \in Seq(E)
  BY DEF TypeOK
<1>2. /\ DOMAIN Append(c, e) = 1 .. Len(c) + 1 /\ DOMAIN c = 1 .. Len(c)
      /\ Len(c) \in Nat
      /\ \A i \in 1 .. Len(c) : Append(c, e)[i] = c[i]
      /\ Append(c, e)[Len(c) + 1] = e
  <2> HIDE DEF c, E
  <2> QED
    BY <1>1
<1>3. {Append(c, e)[i].name : i \in DOMAIN Append(c, e)}
          = {c[i].name : i \in DOMAIN c} \cup {e.name}
  <2> HIDE DEF c
  <2> QED
    BY <1>2
<1> QED
  BY <1>3 DEF PackedNames

LEMMA OthersFound ==
    ASSUME NEW q \in Procs, FoundFor(q), SameList(q), steady'[q] \subseteq steady[q],
           Live(q) => \A n \in steady'[q] : dir'[n] = dir[n]
    PROVE  FoundFor(q)'
<1>1. /\ Live(q)' <=> Live(q)
      /\ Wanted(q)' \subseteq Wanted(q)
      /\ PackedNames(q)' = PackedNames(q)
  BY DEF SameList, Live, Wanted, Excluded, PackedNames
<1>2. Live(q) => \A n \in steady'[q] : IsFile(n)'
  BY DEF FoundFor, IsFile
<1>3. \A n : HomeOf(n)' = HomeOf(n)
  BY DEF HomeOf, Temps, Temp
<1>4. (pc[q] = "collect" =>
          \A n \in Wanted(q) :
             \/ n \in files[q]
             \/ \A D \in SUBSET DOMAIN SubDirs :
                   pending[q] \subseteq D /\ Closed(D) => HomeOf(n) \in D)'
  BY <1>1, <1>3 DEF FoundFor, SameList, Closed
<1> QED
  BY <1>1, <1>2, <1>4 DEF FoundFor, SameList

LEMMA EndedFound ==
    ASSUME NEW p \in Procs, pc'[p] \in Ended
    PROVE  FoundFor(p)'
  BY DEF FoundFor, Live, Ended

\* One listing: what was below the directory is below its subdirectories.
LEMMA CollectFound ==
    ASSUME TypeOK, NEW p \in Procs, FoundFor(p), NEW d, CollectDir(p, d)
    PROVE  FoundFor(p)'
<1>t. /\ pc \in [Procs -> PCs] /\ files \in [Procs -> SUBSET Names]
      /\ pending \in [Procs -> SUBSET DOMAIN SubDirs] /\ steady[p] \subseteq Inputs
  BY DEF TypeOK
<1>1. /\ pc[p] = "collect" /\ d \in pending[p] /\ Live(p)
      /\ files'[p] = files[p] \cup Collected(p, d)
      /\ pending'[p] = (pending[p] \ {d}) \cup SubDirs[d]
      /\ UNCHANGED <<dir, existing_output, steady>>
      /\ pc'[p] = IF pending'[p] = {} THEN "temp" ELSE "collect"
  BY <1>t DEF CollectDir, Goto, fsVars, Live, Ended
<1>2. /\ Wanted(p)' = Wanted(p)
      /\ \A n \in steady'[p] : IsFile(n)'
  BY <1>1 DEF Wanted, Excluded, IsFile, FoundFor
<1>3. ASSUME NEW n \in Wanted(p), n \notin files'[p],
             NEW D \in SUBSET DOMAIN SubDirs, pending'[p] \subseteq D, Closed(D)
      PROVE  HomeOf(n) \in D
  <2>1. D \cup {d} \in SUBSET DOMAIN SubDirs /\ pending[p] \subseteq D \cup {d}
    BY <1>1, <1>3, <1>t
  <2>2. Closed(D \cup {d})
    BY <1>1, <1>3 DEF Closed
  <2>3. HomeOf(n) \in D \cup {d}
    BY <1>1, <1>3, <2>1, <2>2 DEF FoundFor
  <2>4. HomeOf(n) # d
    BY <1>1, <1>3, <1>t, NameFacts DEF Collected, Wanted, FoundFor
  <2> QED
    BY <2>3, <2>4
<1>4. CASE pending'[p] = {}
  <2>1. {} \in SUBSET DOMAIN SubDirs /\ pending'[p] \subseteq {} /\ Closed({})
    BY <1>4 DEF Closed
  <2>2. \A n \in Wanted(p) : n \in files'[p]
    BY <1>3, <2>1
  <2> QED
    BY <1>1, <1>2, <1>4, <2>2 DEF FoundFor
<1>5. CASE pending'[p] # {}
  <2>1. pc'[p] = "collect" /\ \A n : HomeOf(n)' = HomeOf(n)
    BY <1>1, <1>5 DEF HomeOf, Temps, Temp
  <2>2. (\A n \in Wanted(p) :
             \/ n \in files[p]
             \/ \A D \in SUBSET DOMAIN SubDirs :
                   pending[p] \subseteq D /\ Closed(D) => HomeOf(n) \in D)'
    BY <1>2, <1>3, <2>1 DEF Closed
  <2> QED
    BY <1>2, <2>1, <2>2 DEF FoundFor
<1> QED
  BY <1>4, <1>5

LEMMA ActorFound ==
    ASSUME TypeOK, PlaceInv, NEW p \in Procs, FoundFor(p), ProcStep(p) \/ Crash(p)
    PROVE  FoundFor(p)'
<1>t. /\ pc \in [Procs -> PCs] /\ existing_output \in [Procs -> Names \cup {Absent}]
      /\ files \in [Procs -> SUBSET Names] /\ pending \in [Procs -> SUBSET DOMAIN SubDirs]
      /\ steady \in [Procs -> SUBSET Inputs]
      /\ contents \in [Procs -> Seq([name : Names, bytes : SUBSET Files])]
  BY DEF TypeOK
<1>i. \A n \in Inputs : IsFile(n)' <=> IsFile(n)
  BY TakesOnlyItsOwn DEF IsFile
<1>1. CASE Start(p)
  <2>1. /\ pc'[p] = "collect" /\ pending'[p] = {Root}
        /\ steady'[p] = {n \in Inputs : IsFile(n)}
    BY <1>1, <1>t DEF Start, Goto
  <2>2. ASSUME NEW n \in Inputs, NEW D \in SUBSET DOMAIN SubDirs, {Root} \subseteq D, Closed(D)
        PROVE  HomeOf(n) \in D
    <3>1. HomeOf(n) \in DOMAIN SubDirs
      BY NameFacts, PackDirAssumption DEF HomeOf
    <3>2. D = DOMAIN SubDirs
      BY <2>2, PackDirAssumption DEF Closed
    <3> QED
      BY <3>1, <3>2
  <2>3. Wanted(p)' \subseteq Inputs /\ \A n : HomeOf(n)' = HomeOf(n)
    BY <2>1 DEF Wanted, HomeOf, Temps, Temp
  <2>4. (\A n \in Wanted(p) : \A D \in SUBSET DOMAIN SubDirs :
            pending[p] \subseteq D /\ Closed(D) => HomeOf(n) \in D)'
    BY <2>1, <2>2, <2>3 DEF Closed
  <2> QED
    BY <1>i, <2>1, <2>4 DEF FoundFor
<1>2. CASE \E d \in DOMAIN SubDirs : CollectDir(p, d)
  BY <1>2, CollectFound
<1>3. CASE CreateTemp(p)
  <2>1. /\ pc[p] = "temp" /\ Live(p) /\ pc'[p] \in {"temp", "pack"} \cup Ended
        /\ UNCHANGED <<files, contents, existing_output, steady>>
    BY <1>3, <1>t DEF CreateTemp, Goto, Live, Ended
  <2>2. Wanted(p)' = Wanted(p) /\ \A n \in steady'[p] : IsFile(n)'
    BY <1>i, <1>t, <2>1 DEF Wanted, Excluded, FoundFor
  <2>3. Wanted(p)' \subseteq files'[p]
    BY <2>1, <2>2 DEF FoundFor
  <2> QED
    BY <2>1, <2>2, <2>3, EndedFound DEF FoundFor
<1>4. CASE FailsEarly(p) \/ Crash(p) \/ CleanUp(p) \/ Rename(p)
  <2>1. \E l \in Ended : pc' = [pc EXCEPT ![p] = l]
    BY <1>4 DEF FailsEarly, Crash, CleanUp, Rename, Goto, Ended
  <2> QED
    BY <1>t, <2>1, EndedFound
<1>7. CASE OpenFile(p) /\ Opens(p)
  <2>1. /\ pc[p] = "pack" /\ pc'[p] = "read" /\ Live(p)
        /\ UNCHANGED <<existing_output, steady, files, contents>>
    BY <1>7, <1>t DEF OpenFile, Opens, Live, Ended
  <2>2. /\ Wanted(p)' = Wanted(p) /\ PackedNames(p)' = PackedNames(p)
        /\ \A m \in steady'[p] : IsFile(m)'
    BY <1>i, <1>t, <2>1 DEF Wanted, Excluded, PackedNames, FoundFor
  <2> QED
    BY <2>1, <2>2 DEF FoundFor
<1>5. CASE AddFile(p) /\ Packs(p)
  <2>0. PICK bytes \in (SUBSET source[p]) \ {{}} :
           contents' = [contents EXCEPT ![p] =
                 Append(contents[p], [name |-> NextFile(p), bytes |-> bytes])]
    BY <1>5 DEF Packs
  <2> DEFINE n == NextFile(p)
             e == [name |-> n, bytes |-> bytes]
  <2>1. /\ pc[p] = "read" /\ pc'[p] = "pack" /\ Live(p)
        /\ UNCHANGED <<existing_output, steady>>
        /\ contents'[p] = Append(contents[p], e)
        /\ files'[p] = files[p] \ {n}
    BY <1>5, <1>t, <2>0 DEF AddFile, Packs, Live, Ended
  <2>2. PackedNames(p)' = PackedNames(p) \cup {n}
    <3>1. PackedNames(p)' = PackedNames(p) \cup {e.name}
      <4> HIDE DEF e
      <4> QED
        BY <2>1, AppendedNames
    <3> QED
      BY <3>1
  <2>3. Wanted(p)' = Wanted(p) /\ \A m \in steady'[p] : IsFile(m)'
    BY <1>i, <1>t, <2>1 DEF Wanted, Excluded, FoundFor
  <2>4. Wanted(p)' \subseteq files'[p] \cup PackedNames(p)'
    BY <2>1, <2>2, <2>3 DEF FoundFor
  <2> QED
    BY <2>1, <2>3, <2>4 DEF FoundFor
<1>6. CASE \/ (OpenFile(p) \/ AddFile(p)) /\ GivesUp(p)
           \/ Finish(p) \/ Flush(p) \/ SyncAll(p) \/ Fails(p)
  <2>1. /\ Live(p) /\ UNCHANGED <<files, contents, existing_output, steady>>
        /\ \/ pc' = [pc EXCEPT ![p] = "cleanup"]
           \/ pc[p] = "pack" /\ files[p] = {} /\ pc' = [pc EXCEPT ![p] = "flush"]
           \/ pc[p] = "flush" /\ pc' = [pc EXCEPT ![p] = "sync"]
           \/ pc[p] = "sync" /\ pc' = [pc EXCEPT ![p] = "rename"]
    BY <1>6 DEF OpenFile, AddFile, GivesUp, Finish, Flush, SyncAll, Fails, Goto, Holding,
                localVars, Live, Ended
  <2>2. /\ Wanted(p)' = Wanted(p) /\ PackedNames(p)' = PackedNames(p)
        /\ \A m \in steady'[p] : IsFile(m)'
    BY <1>i, <1>t, <2>1 DEF Wanted, Excluded, PackedNames, FoundFor
  <2>3. \/ pc'[p] = "cleanup"
        \/ pc'[p] \in {"flush", "sync", "rename"} /\ Wanted(p) \subseteq PackedNames(p)
    BY <1>t, <2>1 DEF FoundFor
  <2> QED
    BY <2>2, <2>3 DEF FoundFor
<1> QED
  BY <1>1, <1>2, <1>3, <1>4, <1>5, <1>6, <1>7, OpenFileCases, AddFileCases DEF ProcStep

LEMMA NextFound == TypeOK /\ PlaceInv /\ FoundInv /\ [Next]_vars => FoundInv'
<1> SUFFICES ASSUME TypeOK, PlaceInv, FoundInv, [Next]_vars PROVE FoundInv'
  OBVIOUS
<1>t. /\ pc \in [Procs -> PCs] /\ dir \in [Names -> Files]
      /\ steady \in [Procs -> SUBSET Inputs]
  BY DEF TypeOK
<1>1. ASSUME NEW p \in Procs, ProcStep(p) \/ Crash(p) PROVE FoundInv'
  <2>1. FoundFor(p)'
    BY <1>1, ActorFound DEF FoundInv
  <2>2. ASSUME NEW q \in Procs \ {p} PROVE FoundFor(q)'
    <3>1. SameList(q) /\ steady'[q] = steady[q]
      BY <1>1, OneActor DEF SameLocals
    <3>2. \A n \in steady'[q] : dir'[n] = dir[n]
      BY <1>1, <1>t, <3>1, TakesOnlyItsOwn
    <3> QED
      BY <3>1, <3>2, OthersFound DEF FoundInv
  <2> QED
    BY <2>1, <2>2 DEF FoundInv
<1>2. ASSUME WriteBack \/ UNCHANGED vars PROVE FoundInv'
  <2>1. UNCHANGED <<pc, localVars, steady, dir>>
    BY <1>2 DEF WriteBack, vars, fsVars
  <2>2. ASSUME NEW q \in Procs PROVE FoundFor(q)'
    <3>1. SameList(q)
      BY <2>1 DEF SameList, localVars
    <3> QED
      BY <2>1, <3>1, OthersFound DEF FoundInv
  <2> QED
    BY <2>2 DEF FoundInv
<1>3. ASSUME NEW n \in Inputs, NEW f, Edit(n, f) PROVE FoundInv'
  <2>1. /\ UNCHANGED <<pc, existing_output, pending, files, contents>>
        /\ \A m \in Inputs \ {n} : dir'[m] = dir[m]
        /\ \A q \in Procs : steady'[q] = steady[q] \ {n}
    BY <1>3, <1>t DEF Edit
  <2>2. ASSUME NEW q \in Procs PROVE FoundFor(q)'
    <3>1. SameList(q)
      BY <2>1 DEF SameList, localVars
    <3>2. steady'[q] \subseteq steady[q] /\ \A m \in steady'[q] : dir'[m] = dir[m]
      BY <1>t, <2>1
    <3> QED
      BY <3>1, <3>2, OthersFound DEF FoundInv
  <2> QED
    BY <2>2 DEF FoundInv
<1>4. ASSUME PowerLoss PROVE FoundInv'
  <2>1. pc' = [p \in Procs |-> IF Live(p) THEN "dead" ELSE pc[p]]
    BY <1>4 DEF PowerLoss
  <2>2. \A q \in Procs : pc'[q] \in Ended \cup {"start"}
    BY <1>t, <2>1 DEF Live, Ended
  <2> QED
    BY <2>2 DEF FoundInv, FoundFor, Live, Ended
<1> QED
  BY <1>1, <1>2, <1>3, <1>4 DEF Next, AllEnded

\* A step of p that leaves alone what p has packed, has open and has found.
LEMMA OwnBytesKept ==
    ASSUME NEW p \in Procs, OwnBytesFor(p), pc'[p] = "read" => pc[p] = "read",
           Live(p)' => Live(p), contents'[p] = contents[p],
           pc'[p] = "read" => files'[p] = files[p] /\ source'[p] = source[p],
           steady'[p] \subseteq steady[p], \A n \in steady'[p] : dir'[n] = dir[n]
    PROVE  OwnBytesFor(p)'
<1>1. pc'[p] = "read" => NextFile(p)' = NextFile(p)
  BY DEF NextFile
<1> QED
  BY <1>1 DEF OwnBytesFor

LEMMA EndedOwnBytes ==
    ASSUME NEW p \in Procs, pc'[p] \in Ended
    PROVE  OwnBytesFor(p)'
  BY DEF OwnBytesFor, Live, Ended

LEMMA PacksOwnBytes ==
    ASSUME TypeOK, NEW p \in Procs, OwnBytesFor(p), AddFile(p), Packs(p)
    PROVE  OwnBytesFor(p)'
<1>1. PICK bytes \in (SUBSET source[p]) \ {{}} :
         contents' = [contents EXCEPT ![p] =
               Append(contents[p], [name |-> NextFile(p), bytes |-> bytes])]
  BY DEF Packs
<1> DEFINE e == [name |-> NextFile(p), bytes |-> bytes]
           c == contents[p]
           E == [name : Names, bytes : SUBSET Files]
<1>2. /\ pc[p] = "read" /\ pc'[p] = "pack" /\ Live(p)
      /\ contents'[p] = Append(c, e) /\ UNCHANGED <<dir, steady>>
  BY <1>1 DEF AddFile, Packs, fsVars, TypeOK, Live, Ended
<1>3. e.name \in steady[p] => e.bytes = {dir[e.name]}
  <2>1. NextFile(p) \in steady[p] => source[p] = {dir[NextFile(p)]}
    BY <1>2 DEF OwnBytesFor
  <2>2. ASSUME NEW x, source[p] = {x} PROVE bytes = {x}
    <3>1. bytes \in SUBSET source[p] /\ bytes # {}
      BY <1>1
    <3>2. bytes \subseteq {x}
      BY <2>2, <3>1
    <3>3. \E y : y \in bytes
      BY <3>1
    <3> QED
      BY <3>2, <3>3
  <2> QED
    BY <2>1, <2>2
<1>4. c \in Seq(E)
  BY DEF TypeOK
<1>5. ASSUME NEW i \in DOMAIN contents'[p]
      PROVE  contents'[p][i] = e \/ (i \in DOMAIN c /\ contents'[p][i] = c[i])
  <2> HIDE DEF c, e, E
  <2>1. i \in DOMAIN Append(c, e)
    BY <1>2
  <2>2. Append(c, e)[i] = e \/ (i \in DOMAIN c /\ Append(c, e)[i] = c[i])
    BY <1>4, <2>1
  <2> QED
    BY <1>2, <2>2
<1>6. \A i \in DOMAIN c : c[i].name \in steady[p] => c[i].bytes = {dir[c[i].name]}
  BY <1>2 DEF OwnBytesFor
<1> HIDE DEF c, e, E
<1>7. \A i \in DOMAIN contents'[p] :
         contents'[p][i].name \in steady'[p] =>
             contents'[p][i].bytes = {dir'[contents'[p][i].name]}
  BY <1>2, <1>3, <1>5, <1>6
<1> QED
  BY <1>2, <1>7 DEF OwnBytesFor

LEMMA ActorOwnBytes ==
    ASSUME TypeOK, PlaceInv, NEW p \in Procs, FoundFor(p), OwnBytesFor(p), ListedFor(p),
           ProcStep(p) \/ Crash(p)
    PROVE  OwnBytesFor(p)'
<1>t. /\ pc \in [Procs -> PCs] /\ steady \in [Procs -> SUBSET Inputs]
      /\ source \in [Procs -> SUBSET Files]
      /\ contents \in [Procs -> Seq([name : Names, bytes : SUBSET Files])]
  BY DEF TypeOK
<1>i. \A n \in steady[p] : dir'[n] = dir[n]
  BY <1>t, TakesOnlyItsOwn
<1>1. CASE pc[p] \in Early /\ contents' = contents /\ pc'[p] # "read"
  <2>1. contents'[p] = << >> /\ DOMAIN << >> = {}
    BY <1>1 DEF ListedFor
  <2> QED
    BY <1>1, <2>1 DEF OwnBytesFor
<1>2. CASE FailsEarly(p) \/ Crash(p) \/ CleanUp(p) \/ Rename(p)
  <2>1. \E l \in Ended : pc' = [pc EXCEPT ![p] = l]
    BY <1>2 DEF FailsEarly, Crash, CleanUp, Rename, Goto, Ended
  <2> QED
    BY <1>t, <2>1, EndedOwnBytes
<1>3. CASE Start(p) \/ (\E d \in DOMAIN SubDirs : CollectDir(p, d)) \/ CreateTemp(p)
  <2>1. pc[p] \in Early /\ contents' = contents /\ pc'[p] # "read"
    BY <1>3, <1>t DEF Start, CollectDir, CreateTemp, Goto, Early
  <2> QED
    BY <1>1, <2>1
<1>4. CASE OpenFile(p) /\ Opens(p)
  <2>1. /\ pc[p] = "pack" /\ Live(p) /\ UNCHANGED <<dir, steady, contents, files>>
        /\ source'[p] = {dir[Resolve(NextFile(p))]}
    BY <1>4, <1>t DEF OpenFile, Opens, fsVars, Live, Ended
  <2>2. NextFile(p)' = NextFile(p)
    BY <2>1 DEF NextFile
  <2>3. NextFile(p) \in steady[p] => Resolve(NextFile(p)) = NextFile(p)
    BY <2>1 DEF FoundFor, IsFile, Resolve
  <2> QED
    BY <2>1, <2>2, <2>3 DEF OwnBytesFor
<1>5. CASE AddFile(p) /\ Packs(p)
  BY <1>5, PacksOwnBytes
<1>6. CASE \/ (OpenFile(p) \/ AddFile(p)) /\ GivesUp(p)
           \/ Finish(p) \/ Flush(p) \/ SyncAll(p) \/ Fails(p)
  <2>1. /\ Live(p) /\ UNCHANGED <<contents, steady>> /\ pc'[p] # "read"
    BY <1>6, <1>t DEF OpenFile, AddFile, GivesUp, Finish, Flush, SyncAll, Fails, Goto, Holding,
                      localVars, Live, Ended
  <2> QED
    BY <1>i, <2>1, OwnBytesKept
<1> QED
  BY <1>2, <1>3, <1>4, <1>5, <1>6, OpenFileCases, AddFileCases DEF ProcStep

LEMMA NextOwnBytes ==
    TypeOK /\ PlaceInv /\ ListInv /\ FoundInv /\ OwnBytesInv /\ [Next]_vars => OwnBytesInv'
<1> SUFFICES ASSUME TypeOK, PlaceInv, ListInv, FoundInv, OwnBytesInv, [Next]_vars
             PROVE  OwnBytesInv'
  OBVIOUS
<1>t. /\ pc \in [Procs -> PCs] /\ dir \in [Names -> Files]
      /\ steady \in [Procs -> SUBSET Inputs]
  BY DEF TypeOK
<1>1. ASSUME NEW p \in Procs, ProcStep(p) \/ Crash(p) PROVE OwnBytesInv'
  <2>1. OwnBytesFor(p)'
    BY <1>1, ActorOwnBytes DEF OwnBytesInv, FoundInv, ListInv
  <2>2. ASSUME NEW q \in Procs \ {p} PROVE OwnBytesFor(q)'
    <3>1. SameLocals(q) /\ steady'[q] = steady[q]
      BY <1>1, OneActor
    <3>2. \A n \in steady'[q] : dir'[n] = dir[n]
      BY <1>1, <1>t, <3>1, TakesOnlyItsOwn
    <3>3. Live(q)' => Live(q)
      BY <3>1 DEF SameLocals, SameList, Live
    <3> QED
      BY <3>1, <3>2, <3>3, OwnBytesKept DEF OwnBytesInv, SameLocals, SameList
  <2> QED
    BY <2>1, <2>2 DEF OwnBytesInv
<1>2. ASSUME WriteBack \/ UNCHANGED vars PROVE OwnBytesInv'
  <2>1. UNCHANGED <<pc, localVars, steady, dir>>
    BY <1>2 DEF WriteBack, vars, fsVars
  <2>2. ASSUME NEW q \in Procs PROVE OwnBytesFor(q)'
    <3>1. Live(q)' => Live(q)
      BY <2>1 DEF Live
    <3> QED
      BY <2>1, <3>1, OwnBytesKept DEF OwnBytesInv, localVars
  <2> QED
    BY <2>2 DEF OwnBytesInv
<1>3. ASSUME NEW n \in Inputs, NEW f, Edit(n, f) PROVE OwnBytesInv'
  <2>1. /\ UNCHANGED <<pc, files, contents>>
        /\ \A m \in Inputs \ {n} : dir'[m] = dir[m]
        /\ \A q \in Procs : steady'[q] = steady[q] \ {n}
    BY <1>3, <1>t DEF Edit
  <2>3. \A q \in Procs : NextFile(q) # n => source'[q] = source[q]
    BY <1>3 DEF Edit
  <2>2. ASSUME NEW q \in Procs PROVE OwnBytesFor(q)'
    <3>1. steady'[q] \subseteq steady[q] /\ \A m \in steady'[q] : dir'[m] = dir[m]
      BY <1>t, <2>1
    <3>2. (Live(q)' => Live(q)) /\ NextFile(q)' = NextFile(q)
      BY <2>1 DEF Live, NextFile
    <3>3. NextFile(q) \in steady'[q] => source'[q] = source[q]
      BY <2>1, <2>3
    <3> QED
      BY <2>1, <3>1, <3>2, <3>3 DEF OwnBytesInv, OwnBytesFor
  <2> QED
    BY <2>2 DEF OwnBytesInv
<1>4. ASSUME PowerLoss PROVE OwnBytesInv'
  <2>1. pc' = [p \in Procs |-> IF Live(p) THEN "dead" ELSE pc[p]]
    BY <1>4 DEF PowerLoss
  <2>2. \A q \in Procs : pc'[q] \in Ended \cup {"start"}
    BY <1>t, <2>1 DEF Live, Ended
  <2> QED
    BY <2>2 DEF OwnBytesInv, OwnBytesFor, Live, Ended
<1> QED
  BY <1>1, <1>2, <1>3, <1>4 DEF Next, AllEnded

\* collect_files and the packing loop miss no file that was there, and left
\* alone, since the invocation started, and pack nothing else for its bytes.
THEOREM NothingIsMissed == Spec => []NothingMissed
<1>1. Init => FoundInv /\ OwnBytesInv
  <2> SUFFICES ASSUME Init PROVE FoundInv /\ OwnBytesInv
    OBVIOUS
  <2>1. \A p \in Procs : pc[p] = "start" /\ ~Live(p)
    BY DEF Init, Live
  <2> QED
    BY <2>1 DEF FoundInv, FoundFor, OwnBytesInv, OwnBytesFor
<1>2. TypeOK /\ FoundInv /\ OwnBytesInv => NothingMissed
  <2> SUFFICES ASSUME TypeOK, FoundInv, OwnBytesInv, NEW p \in Procs,
                      pc[p] \in {"flush", "sync", "rename"},
                      NEW n \in steady[p] \ {Output, existing_output[p]}
               PROVE  \E i \in DOMAIN contents[p] :
                         contents[p][i] = [name |-> n, bytes |-> {dir[n]}]
    BY DEF NothingMissed
  <2>1. PICK i \in DOMAIN contents[p] : contents[p][i].name = n
    BY DEF FoundInv, FoundFor, Wanted, Excluded, PackedNames
  <2>2. contents[p][i].bytes = {dir[n]}
    BY <2>1 DEF OwnBytesInv, OwnBytesFor, Live, Ended
  <2>3. contents[p][i] \in [name : Names, bytes : SUBSET Files]
    <3> DEFINE E == [name : Names, bytes : SUBSET Files]
    <3>1. contents[p] \in Seq(E)
      BY DEF TypeOK
    <3> HIDE DEF E
    <3>2. contents[p][i] \in E
      BY <3>1
    <3> QED
      BY <3>2 DEF E
  <2> QED
    BY <2>1, <2>2, <2>3
<1> QED
  BY <1>1, <1>2, InitList, NextList, NextFound, NextOwnBytes, SpecPlace, PTL DEF Spec

-----------------------------------------------------------------------------
(* SameFilesSameOrder *)

\* c is in strictly increasing order of virtual paths.
Ascending(c) ==
    \A i, j \in DOMAIN c : i < j => Rank[c[i]] < Rank[c[j]]

Entries == [name : Names, bytes : SUBSET Files]

\* The least index at which c and d disagree is not one of c's.
LEMMA NoFirstDifference ==
    ASSUME NEW c \in Seq(Names), NEW d \in Seq(Names), Ascending(c), Ascending(d),
           {c[i] : i \in DOMAIN c} = {d[i] : i \in DOMAIN d},
           NEW x \in DOMAIN c,
           ~(x \in DOMAIN d /\ c[x] = d[x]),
           \A y \in DOMAIN c \cup DOMAIN d :
              y < x => y \in DOMAIN c /\ y \in DOMAIN d /\ c[y] = d[y]
    PROVE  FALSE
<1>1. /\ DOMAIN c = 1 .. Len(c) /\ DOMAIN d = 1 .. Len(d)
      /\ Len(c) \in Nat /\ Len(d) \in Nat
  OBVIOUS
<1>2. /\ \A i \in DOMAIN c : Rank[c[i]] \in Nat
      /\ \A i \in DOMAIN d : Rank[d[i]] \in Nat
  <2>1. \A e \in Names : Rank[e] \in Nat
    BY PackDirAssumption
  <2>2. (\A i \in DOMAIN c : c[i] \in Names) /\ (\A i \in DOMAIN d : d[i] \in Names)
    OBVIOUS
  <2> QED
    BY <2>1, <2>2
<1>3. PICK j \in DOMAIN d : c[x] = d[j]
  OBVIOUS
<1>4. j > x
  <2>1. CASE j < x
    BY <1>2, <1>3, <2>1 DEF Ascending
  <2>2. CASE j = x
    BY <1>3, <2>2
  <2> QED
    BY <1>1, <2>1, <2>2
<1>5. x \in DOMAIN d
  BY <1>1, <1>4
<1>6. PICK k \in DOMAIN c : d[x] = c[k]
  BY <1>5
<1>7. k > x
  <2>1. CASE k < x
    BY <1>2, <1>5, <1>6, <2>1 DEF Ascending
  <2>2. CASE k = x
    BY <1>5, <1>6, <2>2
  <2> QED
    BY <1>1, <2>1, <2>2
<1>8. /\ Rank[c[x]] < Rank[c[k]]
      /\ Rank[d[x]] < Rank[d[j]]
  BY <1>4, <1>5, <1>7 DEF Ascending
<1> QED
  BY <1>2, <1>3, <1>5, <1>6, <1>8

LEMMA AscendingUnique ==
    ASSUME NEW c \in Seq(Names), NEW d \in Seq(Names), Ascending(c), Ascending(d),
           {c[i] : i \in DOMAIN c} = {d[i] : i \in DOMAIN d}
    PROVE  c = d
<1> DEFINE B == {i \in DOMAIN c \cup DOMAIN d :
                    ~(i \in DOMAIN c /\ i \in DOMAIN d /\ c[i] = d[i])}
           R == {ss \in Nat \X Nat : ss[1] < ss[2]}
<1>1. /\ DOMAIN c = 1 .. Len(c) /\ DOMAIN d = 1 .. Len(d)
      /\ Len(c) \in Nat /\ Len(d) \in Nat
  OBVIOUS
<1>2. B \subseteq Nat
  BY <1>1
<1>3. B = {}
  <2>1. SUFFICES ASSUME B # {} PROVE FALSE
    OBVIOUS
  <2>2. PICK x \in B : \A y \in B : <<y, x>> \notin R
    <3>1. IsWellFoundedOn(R, Nat)
      BY NatLessThanWellFounded DEF OpToRel
    <3> HIDE DEF R, B
    <3> QED
      BY <1>2, <2>1, <3>1, WFMin
  <2>3. x \in Nat /\ \A y \in B : ~(y < x)
    <3> HIDE DEF B
    <3> QED
      BY <1>2, <2>2
  <2>4. \A y \in DOMAIN c \cup DOMAIN d :
           y < x => y \in DOMAIN c /\ y \in DOMAIN d /\ c[y] = d[y]
    BY <2>3
  <2>5. CASE x \in DOMAIN c
    <3>1. ~(x \in DOMAIN d /\ c[x] = d[x])
      BY <2>2, <2>5
    <3> HIDE DEF B
    <3> QED
      BY <2>4, <2>5, <3>1, NoFirstDifference
  <2>6. CASE x \in DOMAIN d
    <3>1. ~(x \in DOMAIN c /\ d[x] = c[x])
      BY <2>2, <2>6
    <3>2. \A y \in DOMAIN d \cup DOMAIN c :
             y < x => y \in DOMAIN d /\ y \in DOMAIN c /\ d[y] = c[y]
      BY <2>4
    <3>3. {d[i] : i \in DOMAIN d} = {c[i] : i \in DOMAIN c}
      OBVIOUS
    <3> HIDE DEF B
    <3> QED
      BY <2>6, <3>1, <3>2, <3>3, NoFirstDifference
  <2> QED
    BY <2>2, <2>5, <2>6
<1>4. \A i \in DOMAIN c \cup DOMAIN d : i \in DOMAIN c /\ i \in DOMAIN d /\ c[i] = d[i]
  BY <1>3
<1> HIDE DEF B
<1>5. Len(c) = Len(d)
  <2>1. Len(c) > 0 => Len(c) \in 1 .. Len(d)
    BY <1>1, <1>4
  <2>2. Len(d) > 0 => Len(d) \in 1 .. Len(c)
    BY <1>1, <1>4
  <2>3. ASSUME NEW a \in Nat, NEW b \in Nat,
               a > 0 => a \in 1 .. b, b > 0 => b \in 1 .. a
        PROVE  a = b
    BY <2>3
  <2> QED
    BY <1>1, <2>1, <2>2, <2>3
<1> QED
  BY <1>1, <1>4, <1>5, SeqEqual

LEMMA InitSorted == Init => SortedInv
<1> SUFFICES ASSUME Init PROVE SortedInv
  OBVIOUS
<1>1. \A p \in Procs : pc[p] = "start" /\ contents[p] = << >>
  BY DEF Init
<1>2. DOMAIN << >> = {}
  OBVIOUS
<1> QED
  BY <1>1, <1>2 DEF SortedInv, SortedFor

LEMMA EmptySorted ==
    ASSUME NEW p, contents'[p] = << >>
    PROVE  SortedFor(p)'
<1>1. DOMAIN << >> = {}
  OBVIOUS
<1> QED
  BY <1>1 DEF SortedFor

LEMMA PacksSorted ==
    ASSUME TypeOK, NEW p \in Procs, SortedFor(p), AddFile(p), Packs(p)
    PROVE  SortedFor(p)'
<1>0. PICK bytes \in (SUBSET source[p]) \ {{}} :
         contents' = [contents EXCEPT ![p] =
               Append(contents[p], [name |-> NextFile(p), bytes |-> bytes])]
  BY DEF Packs
<1> DEFINE n == NextFile(p)
           e == [name |-> n, bytes |-> bytes]
           c == contents[p]
<1>1. /\ files \in [Procs -> SUBSET Names] /\ c \in Seq(Entries)
      /\ contents \in [Procs -> Seq(Entries)]
  BY DEF TypeOK, Entries
<1>2. /\ pc[p] = "read" /\ files[p] # {} /\ ~Duplicate(p, n)
      /\ contents'[p] = Append(c, e) /\ files'[p] = files[p] \ {n}
  BY <1>0, <1>1 DEF AddFile, Packs
<1>3. /\ n \in files[p] /\ n \in Names
      /\ \A m \in files[p] : Rank[n] <= Rank[m]
  BY <1>2, NextFileListed
<1>4. /\ \A i \in DOMAIN c : Rank[c[i].name] # Rank[n] /\ Rank[c[i].name] <= Rank[n]
      /\ \A i, j \in DOMAIN c : i < j => Rank[c[i].name] < Rank[c[j].name]
      /\ \A i \in DOMAIN c : \A m \in files'[p] : Rank[c[i].name] <= Rank[m]
  BY <1>2, <1>3 DEF SortedFor, Duplicate
<1>5. e.name = n
  OBVIOUS
<1>6. \A i \in DOMAIN c : Rank[c[i].name] \in Nat
  <2>1. \A f \in Entries : Rank[f.name] \in Nat
    BY PackDirAssumption DEF Entries
  <2> HIDE DEF c
  <2>2. \A i \in DOMAIN c : c[i] \in Entries
    BY <1>1
  <2> QED
    BY <2>1, <2>2
<1>7. Rank[n] \in Nat
  BY <1>3, PackDirAssumption
<1>8. /\ DOMAIN Append(c, e) = 1 .. Len(c) + 1 /\ DOMAIN c = 1 .. Len(c)
      /\ Len(c) \in Nat
      /\ \A i \in 1 .. Len(c) : Append(c, e)[i] = c[i]
      /\ Append(c, e)[Len(c) + 1] = e
  <2> HIDE DEF c, e
  <2> QED
    BY <1>1
<1> HIDE DEF c, e, n
<1>9. ASSUME NEW i \in DOMAIN contents'[p], NEW j \in DOMAIN contents'[p], i < j
      PROVE  Rank[contents'[p][i].name] < Rank[contents'[p][j].name]
  <2>1. i \in DOMAIN c /\ contents'[p][i] = c[i]
    BY <1>2, <1>8, <1>9
  <2>2. CASE j = Len(c) + 1
    <3>1. contents'[p][j] = e
      BY <1>2, <1>8, <2>2
    <3> QED
      BY <1>4, <1>5, <1>6, <1>7, <2>1, <3>1
  <2>3. CASE j # Len(c) + 1
    <3>1. j \in DOMAIN c /\ contents'[p][j] = c[j]
      BY <1>2, <1>8, <2>3
    <3> QED
      BY <1>4, <1>9, <2>1, <3>1
  <2> QED
    BY <2>2, <2>3
<1>10. ASSUME NEW i \in DOMAIN contents'[p], NEW m \in files'[p]
       PROVE  Rank[contents'[p][i].name] <= Rank[m]
  <2>1. CASE i = Len(c) + 1
    <3>1. contents'[p][i] = e
      BY <1>2, <1>8, <2>1
    <3> QED
      BY <1>2, <1>3, <1>5, <3>1
  <2>2. CASE i # Len(c) + 1
    <3>1. i \in DOMAIN c /\ contents'[p][i] = c[i]
      BY <1>2, <1>8, <2>2
    <3> QED
      BY <1>4, <3>1
  <2> QED
    BY <2>1, <2>2
<1> QED
  BY <1>9, <1>10 DEF SortedFor

LEMMA NextSorted ==
    TypeOK /\ ListInv /\ SortedInv /\ [Next]_vars => SortedInv'
<1> SUFFICES ASSUME TypeOK, ListInv, SortedInv, [Next]_vars PROVE SortedInv'
  OBVIOUS
<1>t. /\ pc \in [Procs -> PCs] /\ files \in [Procs -> SUBSET Names]
      /\ contents \in [Procs -> Seq([name : Names, bytes : SUBSET Files])]
  BY DEF TypeOK
<1>s. ASSUME NEW q \in Procs, contents'[q] = contents[q],
             pc'[q] \in {"pack", "read"} => pc[q] \in {"pack", "read"} /\ files'[q] = files[q]
      PROVE  SortedFor(q)'
  BY <1>s DEF SortedInv, SortedFor
<1>1. ASSUME NEW p \in Procs, ProcStep(p) \/ Crash(p) PROVE SortedInv'
  <2>1. ASSUME NEW q \in Procs \ {p} PROVE SortedFor(q)'
    <3>1. SameLocals(q)
      BY <1>1, OneActor
    <3> QED
      BY <1>s, <3>1 DEF SameLocals, SameList
  <2>2. SortedFor(p)'
    <3>1. CASE FailsEarly(p) \/ Crash(p) \/ CleanUp(p)
      <4>1. contents'[p] = << >>
        BY <3>1 DEF FailsEarly, Crash, CleanUp, Discard
      <4> QED
        BY <4>1, EmptySorted
    <3>2. CASE CreateTemp(p)
      <4>1. contents'[p] = << >>
        BY <3>2 DEF CreateTemp, ListInv, ListedFor, Early
      <4> QED
        BY <4>1, EmptySorted
    <3>3. CASE AddFile(p) /\ Packs(p)
      BY <3>3, PacksSorted DEF SortedInv
    <3>4. CASE \/ Start(p) \/ Rename(p) \/ \E d \in DOMAIN SubDirs : CollectDir(p, d)
               \/ (OpenFile(p) \/ AddFile(p)) /\ GivesUp(p)
               \/ Finish(p) \/ Flush(p) \/ SyncAll(p) \/ Fails(p)
      <4>1. contents' = contents /\ pc'[p] \notin {"pack", "read"}
        BY <1>t, <3>4 DEF Start, Rename, CollectDir, OpenFile, AddFile, GivesUp, Finish, Flush,
                          SyncAll, Fails, Goto, localVars
      <4> QED
        BY <1>s, <4>1
    <3>5. CASE OpenFile(p) /\ Opens(p)
      <4>1. contents' = contents /\ files' = files /\ pc[p] = "pack"
        BY <3>5 DEF OpenFile, Opens
      <4> QED
        BY <1>s, <4>1
    <3> QED
      BY <1>1, <3>1, <3>2, <3>3, <3>4, <3>5, OpenFileCases, AddFileCases DEF ProcStep
  <2> QED
    BY <2>1, <2>2 DEF SortedInv
<1>2. ASSUME PowerLoss PROVE SortedInv'
  <2>1. /\ pc' = [p \in Procs |-> IF Live(p) THEN "dead" ELSE pc[p]]
        /\ Discard({p \in Procs : Live(p)})
    BY <1>2 DEF PowerLoss
  <2>2. ASSUME NEW q \in Procs PROVE SortedFor(q)'
    <3>1. CASE Live(q)
      <4>1. contents'[q] = << >>
        BY <2>1, <3>1 DEF Discard
      <4> QED
        BY <4>1, EmptySorted
    <3>2. CASE ~Live(q)
      <4>1. contents'[q] = contents[q] /\ pc'[q] \notin {"pack", "read"}
        BY <2>1, <3>2 DEF Discard, Live, Ended
      <4> QED
        BY <1>s, <4>1
    <3> QED
      BY <3>1, <3>2
  <2> QED
    BY <2>2 DEF SortedInv
<1>3. ASSUME UNCHANGED <<pc, files, contents>> PROVE SortedInv'
  BY <1>3, <1>s DEF SortedInv
<1> QED
  BY <1>1, <1>2, <1>3 DEF Next, AllEnded, WriteBack, Edit, vars, localVars

\* sort_unstable_by in pack_dir makes the order of the entries a function of
\* what is packed.
THEOREM SameFilesArePackedInOneOrder == Spec => []SameFilesSameOrder
<1>1. TypeOK /\ SortedInv => SameFilesSameOrder
  <2> SUFFICES ASSUME TypeOK, SortedInv, NEW p \in Procs, NEW q \in Procs,
                      PackedNames(p) = PackedNames(q)
               PROVE  PackOrder(p) = PackOrder(q)
    BY DEF SameFilesSameOrder
  <2>1. ASSUME NEW r \in Procs
        PROVE  /\ PackOrder(r) \in Seq(Names) /\ Ascending(PackOrder(r))
               /\ {PackOrder(r)[i] : i \in DOMAIN PackOrder(r)} = PackedNames(r)
    <3> DEFINE c == contents[r]
    <3>1. c \in Seq(Entries)
      BY DEF TypeOK, Entries
    <3>2. Len(c) \in Nat /\ DOMAIN c = 1 .. Len(c) /\ \A i \in DOMAIN c : c[i] \in Entries
      <4> HIDE DEF c
      <4> QED
        BY <3>1
    <3>3. \A i \in DOMAIN c : c[i].name \in Names
      BY <3>2 DEF Entries
    <3>4. /\ PackOrder(r) = [i \in 1 .. Len(c) |-> c[i].name]
          /\ DOMAIN PackOrder(r) = DOMAIN c
          /\ \A i \in DOMAIN c : PackOrder(r)[i] = c[i].name
      BY <3>2 DEF PackOrder
    <3>5. PackOrder(r) \in Seq(Names)
      <4> HIDE DEF c
      <4> QED
        BY <3>2, <3>3, <3>4
    <3>6. Ascending(PackOrder(r))
      BY <3>4 DEF SortedInv, SortedFor, Ascending
    <3>7. {PackOrder(r)[i] : i \in DOMAIN PackOrder(r)} = PackedNames(r)
      BY <3>4 DEF PackedNames
    <3> QED
      BY <3>5, <3>6, <3>7
  <2>2. ASSUME NEW c \in Seq(Names), NEW d \in Seq(Names),
               c = PackOrder(p), d = PackOrder(q)
        PROVE  c = d
    <3>1. Ascending(c) /\ Ascending(d) /\ {c[i] : i \in DOMAIN c} = {d[i] : i \in DOMAIN d}
      BY <2>1, <2>2
    <3> QED
      BY <3>1, AscendingUnique
  <2> QED
    BY <2>1, <2>2
<1> QED
  BY <1>1, InitList, NextList, InitSorted, NextSorted, SpecPlace, PTL DEF Spec
=============================================================================
