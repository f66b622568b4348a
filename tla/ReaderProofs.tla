---------------------------- MODULE ReaderProofs ----------------------------
(***************************************************************************)
(* What the reads of an archive return, for every table that was accepted, *)
(* every range and any number of calls.  The loops carry how much of the   *)
(* output they have filled; Progress ties it to the chunks still to read   *)
(* by the closed form: chunk l of an entry begins at l * chunk_size.       *)
(***************************************************************************)
EXTENDS Reader, SumTheorems, SequenceTheorems

Direct == {"read", "read_into", "read_chunk", "read_chunk_into"}
Sized == Direct \cup RangeOps

Bytes == {"asset", "zero", "caller", "garbage"} \X Nat \X Nat

C == toc.chunk_size
First(i) == EntryAt(i).first_chunk
Count(i) == EntryAt(i).chunk_count
Size(i) == EntryAt(i).original_size
Sz(i, l) == toc.chunks[First(i) + l + 1].original_size

Calls == [op : Sized \cup {"none", "verify"}, entry : Nat, from : Nat, len : Nat,
          exact : BOOLEAN, n : Nat, fill : Bytes, at_start : SUBSET Nat]

Typing ==
    /\ toc \in Layouts
    /\ damaged \subseteq DOMAIN toc.chunks
    /\ call \in Calls /\ call.at_start \subseteq damaged
    /\ call.op \in Sized => call.entry \in DOMAIN toc.entries
    /\ todo \in Seq([entry : DOMAIN toc.entries, local : Nat])
    /\ dst \in Seq(Bytes)
    /\ decoded \in Seq(Bytes)
    /\ Len(decoded) <= C
    /\ written \in 0 .. Len(dst)
    /\ result \in Errors \cup {"none", "Ok"}
    /\ result # "none" => todo = << >>
    /\ call.op = "none" => result = "Ok"
    /\ calls \in 0 .. MaxCalls

\* The chunks that hold the bytes call c asks for.
NeededOf(c) ==
    LET e == EntryAt(c.entry) IN
    IF c.op = "verify" THEN DOMAIN toc.chunks
    ELSE {k \in Owned(e) :
            LET start == AssetStart([entry |-> c.entry, local |-> k - e.first_chunk - 1])
            IN /\ c.n > 0 /\ start < c.from + c.n
               /\ c.from < start + toc.chunks[k].original_size}

\* Call c has to read the chunks m..z-1 of its entry, all of which overlap the
\* bytes asked for; the w bytes it has filled end where chunk m begins.  A read
\* that goes straight into the output d asks for whole chunks.
Progress(c, t, w, d, m, z) ==
    LET i == c.entry
        end == c.from + c.n IN
    /\ m <= z
    /\ t = Items(i, m, z - 1)
    /\ end <= Size(i) /\ end <= z * C
    /\ \A l \in m .. (z - 1) : l * C < end
    /\ m < z => c.n > 0 /\ c.from < (m + 1) * C
    /\ c.from + w = MaxOf(c.from, MinOf(m * C, end))
    /\ \A k \in NeededOf(c) \cap c.at_start : k > First(i) + m
    /\ c.op \in Direct =>
          /\ Len(d) = c.n
          /\ m < z => c.from <= m * C
          /\ end = z * C \/ (z = Count(i) /\ end = Size(i))

LoopInv ==
    result = "none" /\ call.op \in Sized =>
        \E m, z \in 0 .. Count(call.entry) : Progress(call, todo, written, dst, m, z)

\* verify still has to read every chunk that was damaged when it began.
VerifyInv ==
    call.op = "verify" =>
        /\ written = call.n
        /\ result = "none" =>
              /\ \A j \in DOMAIN todo : todo[j].local < Count(todo[j].entry)
              /\ call.at_start \subseteq {GlobalChunk(todo[j]) : j \in DOMAIN todo}

\* The output holds what was asked for as far as the loop got.
OutputInv ==
    call.op \in RangeOps \/ (call.op \in Direct /\ result \in {"none", "Ok"}) =>
        \A j \in DOMAIN dst :
            dst[j] = IF j <= written THEN Byte(call.entry, call.from + j - 1)
                     ELSE call.fill

AnswerInv ==
    /\ call.op \in Sized /\ result \in {"none", "Ok"} =>
          call.n = Clipped /\ call.n <= Len(dst)
    /\ call.op \in Sized /\ result = "Ok" => written = call.n

IInv == /\ Typing
        /\ LoopInv
        /\ VerifyInv
        /\ OutputInv
        /\ AnswerInv
        /\ DamageIsLocal
        /\ SoundTableNeverBlamed
        /\ ChunkBudget

-----------------------------------------------------------------------------
(* Numbers.                                                                *)

LEMMA Quotient ==
    \A a, c \in Nat : c >= 1 =>
        /\ a \div c \in Nat
        /\ (a \div c) * c <= a
        /\ a < (a \div c + 1) * c
<1> SUFFICES ASSUME NEW a \in Nat, NEW c \in Nat, c >= 1
             PROVE  /\ a \div c \in Nat
                    /\ (a \div c) * c <= a
                    /\ a < (a \div c + 1) * c
  OBVIOUS
<1>1. PICK q : q = a \div c
  OBVIOUS
<1>2. q \in Int /\ a = c * q + (a % c) /\ a % c \in 0 .. (c - 1)
  BY <1>1
<1>3. q * c <= a /\ a < (q + 1) * c
  BY <1>2
<1>4. q >= 0
  <2>1. SUFFICES ASSUME q <= -1
                 PROVE  FALSE
    BY <1>2
  <2>2. (q + 1) * c <= 0
    BY <1>2, <2>1
  <2> QED
    BY <1>2, <1>3, <2>2
<1> QED
  BY <1>1, <1>2, <1>3, <1>4

\* Chunks before another begin before it.
LEMMA Times ==
    \A c, a, b \in Nat :
        /\ a * c \in Nat
        /\ (a + 1) * c = a * c + c
        /\ a <= b => a * c <= b * c
        /\ a < b => a * c + c <= b * c
        /\ c >= 1 /\ a * c < b * c => a < b
<1> SUFFICES ASSUME NEW c \in Nat, NEW a \in Nat, NEW b \in Nat
             PROVE  /\ a * c \in Nat
                    /\ (a + 1) * c = a * c + c
                    /\ a <= b => a * c <= b * c
                    /\ a < b => a * c + c <= b * c
                    /\ c >= 1 /\ a * c < b * c => a < b
  OBVIOUS
<1>1. a * c \in Nat /\ b * c \in Nat /\ (a + 1) * c = a * c + c
  OBVIOUS
<1>2. ASSUME NEW x \in Nat, NEW y \in Nat, x <= y
      PROVE  x * c <= y * c
  <2>1. PICK d \in Nat : y = x + d
    <3>1. y - x \in Nat /\ y = x + (y - x)
      BY <1>2
    <3> QED
      BY <3>1
  <2>2. y * c = x * c + d * c /\ d * c \in Nat /\ x * c \in Nat
    BY <2>1
  <2> QED
    BY <2>2
<1>3. a < b => (a + 1) * c <= b * c
  <2>1. a < b => a + 1 <= b
    OBVIOUS
  <2> QED
    BY <1>2, <2>1
<1>4. ~(a < b) => b * c <= a * c
  BY <1>2
<1> QED
  BY <1>1, <1>2, <1>3, <1>4

-----------------------------------------------------------------------------
(* Tables that were accepted.                                              *)

LEMMA Tables ==
    ASSUME NEW L \in Layouts, NEW i \in DOMAIN L.entries,
           NEW f, f = L.entries[i].first_chunk, NEW n, n = L.entries[i].chunk_count
    PROVE  /\ i \in Nat /\ f \in Nat /\ n \in Nat
           /\ L.entries[i].original_size \in Nat
           /\ L.chunk_size \in Nat /\ L.chunk_size >= 1
           /\ HasChunks(L, Len(L.chunks))
           /\ f + n <= Len(L.chunks)
           /\ \A k \in (f + 1) .. (f + n) :
                 /\ k \in DOMAIN L.chunks
                 /\ L.chunks[k].original_size \in 1 .. L.chunk_size
                 /\ k < f + n => L.chunks[k].original_size = L.chunk_size
<1>1. DecodedTable(L) /\ WellFormed(L)
  BY ReaderAssumption
<1>2. L.chunk_size \in Nat /\ L.chunk_size >= 1
  BY <1>1 DEF DecodedTable
<1>3. PICK E : E = [first_chunk : Nat, chunk_count : Nat,
                    original_size : Nat, stored_size : Nat]
  OBVIOUS
<1>4. L.entries[i] \in E /\ i \in Nat
  <2>1. PICK s : s = L.entries
    OBVIOUS
  <2>2. s \in Seq(E)
    BY <1>1, <1>3, <2>1 DEF DecodedTable
  <2>3. s[i] \in E /\ i \in Nat
    BY <2>1, <2>2
  <2> QED
    BY <2>1, <2>3
<1>5. f \in Nat /\ n \in Nat /\ L.entries[i].original_size \in Nat
  BY <1>3, <1>4
<1>6. PICK K : K = [offset : Nat, stored_size : Nat, original_size : Nat,
                    compressed : BOOLEAN]
  OBVIOUS
<1>7. /\ Len(L.chunks) \in Nat /\ DOMAIN L.chunks = 1 .. Len(L.chunks)
      /\ \A k \in 1 .. Len(L.chunks) : L.chunks[k] \in K
  <2>1. PICK s : s = L.chunks
    OBVIOUS
  <2>2. s \in Seq(K)
    BY <1>1, <1>6, <2>1 DEF DecodedTable
  <2>3. Len(s) \in Nat /\ DOMAIN s = 1 .. Len(s) /\ \A k \in 1 .. Len(s) : s[k] \in K
    BY <2>2
  <2> QED
    BY <2>1, <2>3
<1>8. HasChunks(L, Len(L.chunks))
  BY <1>6, <1>7 DEF HasChunks
<1>9. f + n <= Len(L.chunks)
  BY <1>1 DEF WellFormed, EntryTableOk, EntriesInTable
<1>10. ASSUME NEW k \in (f + 1) .. (f + n)
       PROVE  /\ k \in DOMAIN L.chunks
              /\ L.chunks[k].original_size \in 1 .. L.chunk_size
              /\ k < f + n => L.chunks[k].original_size = L.chunk_size
  <2>1. k \in DOMAIN L.chunks
    BY <1>5, <1>7, <1>9
  <2>2. L.chunks[k].original_size \in 1 .. L.chunk_size
    BY <1>1, <2>1 DEF WellFormed, ChunkTableOk, ChunkSizesOk
  <2>3. Owned(L.entries[i]) = (f + 1) .. (f + n)
    BY DEF Owned
  <2>4. k < f + n => k + 1 \in (f + 1) .. (f + n)
    BY <1>5
  <2>5. k < f + n => L.chunks[k].original_size = L.chunk_size
    BY <1>1, <2>3, <2>4 DEF WellFormed, EntryTableOk, NonFinalChunksFull
  <2> QED
    BY <2>1, <2>2, <2>5
<1> QED
  BY <1>2, <1>4, <1>5, <1>8, <1>9, <1>10

\* Chunk l of an entry begins at l * chunk_size.
LEMMA Starts ==
    ASSUME NEW L \in Layouts, NEW i \in DOMAIN L.entries,
           NEW f, f = L.entries[i].first_chunk, NEW n, n = L.entries[i].chunk_count
    PROVE  \A l \in Nat : l < n =>
              /\ OriginalTotal(L, (f + 1) .. (f + l)) = l * L.chunk_size
              /\ OriginalTotal(L, (f + 1) .. (f + l + 1))
                    = l * L.chunk_size + L.chunks[f + l + 1].original_size
<1>1. PICK c : c = L.chunk_size
  OBVIOUS
<1>2. /\ f \in Nat /\ n \in Nat /\ c \in Nat /\ HasChunks(L, Len(L.chunks))
      /\ f + n <= Len(L.chunks) /\ Len(L.chunks) \in Nat
      /\ \A k \in (f + 1) .. (f + n) :
            /\ L.chunks[k].original_size \in Nat
            /\ k < f + n => L.chunks[k].original_size = c
  BY <1>1, Tables DEF HasChunks
<1>3. ASSUME NEW l \in Nat, l < n
      PROVE  /\ (f + 1) .. (f + l) \in SUBSET (1 .. Len(L.chunks))
             /\ f + l + 1 \in 1 .. Len(L.chunks) /\ f + l + 1 \notin (f + 1) .. (f + l)
             /\ (f + 1) .. (f + l + 1) = ((f + 1) .. (f + l)) \cup {f + l + 1}
             /\ f + l + 1 \in (f + 1) .. (f + n)
  <2>1. /\ f \in Nat /\ n \in Nat /\ f + n <= Len(L.chunks) /\ Len(L.chunks) \in Nat
    BY <1>2
  <2>2. PICK t \in Nat : t = Len(L.chunks) /\ f + n <= t
    BY <2>1
  <2>3. f \in Nat /\ n \in Nat /\ l < n /\ f + n <= t
    BY <1>3, <2>1, <2>2
  <2>4. /\ (f + 1) .. (f + l) \in SUBSET (1 .. t)
        /\ f + l + 1 \in 1 .. t /\ f + l + 1 \notin (f + 1) .. (f + l)
        /\ (f + 1) .. (f + l + 1) = ((f + 1) .. (f + l)) \cup {f + l + 1}
        /\ f + l + 1 \in (f + 1) .. (f + n)
    <3>1. (f + 1) .. (f + l) \subseteq 1 .. t
      BY <2>3
    <3>2. f + l + 1 \in 1 .. t /\ f + l + 1 \notin (f + 1) .. (f + l)
      BY <2>3
    <3>3. (f + 1) .. (f + l + 1) = ((f + 1) .. (f + l)) \cup {f + l + 1}
      BY <2>3
    <3>4. f + l + 1 \in (f + 1) .. (f + n)
      BY <2>3
    <3> QED
      BY <3>1, <3>2, <3>3, <3>4
  <2> QED
    BY <2>2, <2>4, Zenon
<1>4. ASSUME NEW l \in Nat, l < n
      PROVE  OriginalTotal(L, (f + 1) .. (f + l + 1))
                = OriginalTotal(L, (f + 1) .. (f + l)) + L.chunks[f + l + 1].original_size
  <2>1. PICK K : K = (f + 1) .. (f + l)
    OBVIOUS
  <2>2. PICK k : k = f + l + 1
    OBVIOUS
  <2>3. /\ K \in SUBSET (1 .. Len(L.chunks)) /\ k \in 1 .. Len(L.chunks) /\ k \notin K
        /\ (f + 1) .. (f + l + 1) = K \cup {k}
    BY <1>3, <1>4, <2>1, <2>2, Zenon
  <2>4. OriginalTotal(L, K \cup {k}) = OriginalTotal(L, K) + L.chunks[k].original_size
    <3>1. HasChunks(L, Len(L.chunks))
      BY <1>2
    <3> QED
      BY <2>3, <3>1, TotalFacts
  <2> QED
    BY <2>1, <2>2, <2>3, <2>4
<1>5. ASSUME NEW l \in Nat, l < n
      PROVE  OriginalTotal(L, (f + 1) .. (f + l)) = l * c
  <2> DEFINE B == {b \in Nat : b < n /\ OriginalTotal(L, (f + 1) .. (f + b)) # b * c}
  <2>1. SUFFICES ASSUME B # {}
                 PROVE  FALSE
    BY <1>5
  <2>2. PICK b \in B : \A k \in B : b <= k
    <3>1. B \in SUBSET Nat
      OBVIOUS
    <3> HIDE DEF B
    <3> QED
      BY <2>1, <3>1, SmallestNat
  <2>3. b \in Nat /\ b < n /\ OriginalTotal(L, (f + 1) .. (f + b)) # b * c
    OBVIOUS
  <2>4. CASE b = 0
    <3>1. (f + 1) .. (f + b) = {}
      BY <1>2, <2>4
    <3>2. {} \in SUBSET (1 .. Len(L.chunks))
      OBVIOUS
    <3>3. OriginalTotal(L, {}) = 0
      BY <1>2, <3>2, TotalFacts
    <3> HIDE DEF B
    <3>4. b * c = 0
      BY <1>2, <2>4
    <3> QED
      BY <2>3, <3>1, <3>3, <3>4
  <2>5. CASE b # 0
    <3>1. PICK d \in Nat : b = d + 1
      <4>1. b - 1 \in Nat /\ b = (b - 1) + 1
        BY <2>3, <2>5
      <4> QED
        BY <4>1
    <3>2. d < n /\ d + 1 < n /\ ~(b <= d)
      BY <1>2, <2>3, <3>1
    <3>3. OriginalTotal(L, (f + 1) .. (f + d)) = d * c
      BY <2>2, <3>2
    <3> HIDE DEF B
    <3>4. L.chunks[f + d + 1].original_size = c
      <4>1. f + d + 1 \in (f + 1) .. (f + n) /\ f + d + 1 < f + n
        <5>1. f \in Nat /\ n \in Nat
          BY <1>2
        <5> QED
          BY <3>2, <5>1
      <4> QED
        BY <1>2, <4>1, Zenon
    <3>5. OriginalTotal(L, (f + 1) .. (f + d + 1)) = d * c + c
      <4>1. OriginalTotal(L, (f + 1) .. (f + d + 1))
               = OriginalTotal(L, (f + 1) .. (f + d)) + L.chunks[f + d + 1].original_size
        BY <1>4, <3>2, Zenon
      <4> QED
        BY <3>3, <3>4, <4>1, Zenon
    <3>6. f + d + 1 = f + b
      <4>1. f \in Nat
        BY <1>2
      <4> QED
        BY <3>1, <4>1
    <3>7. b * c = d * c + c
      BY <1>2, <3>1
    <3> QED
      BY <2>3, <3>5, <3>6, <3>7
  <2> QED
    BY <2>4, <2>5
<1> QED
  BY <1>1, <1>4, <1>5

\* An entry ends with its last chunk.
LEMMA Ends ==
    ASSUME NEW L \in Layouts, NEW i \in DOMAIN L.entries,
           NEW f, f = L.entries[i].first_chunk, NEW n, n = L.entries[i].chunk_count,
           NEW c, c = L.chunk_size, NEW z, z = L.entries[i].original_size
    PROVE  /\ n = 0 => z = 0
           /\ z <= n * c
           /\ \A l \in Nat : l < n =>
                 /\ l * c < z
                 /\ l + 1 < n => l * c + c < z
                 /\ l + 1 = n => l * c + L.chunks[f + l + 1].original_size = z
<1>1. /\ f \in Nat /\ n \in Nat /\ c \in Nat /\ c >= 1 /\ z \in Nat
      /\ \A k \in (f + 1) .. (f + n) : L.chunks[k].original_size \in 1 .. c
  BY Tables
<1>2. HasChunks(L, Len(L.chunks))
  BY Tables
<1>3. z = OriginalTotal(L, (f + 1) .. (f + n))
  <2>1. EntrySizesMatch(L)
    BY ReaderAssumption DEF WellFormed, EntryTableOk
  <2> QED
    BY <2>1 DEF EntrySizesMatch, Owned
<1>4. CASE n = 0
  <2>1. (f + 1) .. (f + n) = {} /\ {} \in SUBSET (1 .. Len(L.chunks))
    BY <1>1, <1>4
  <2>2. OriginalTotal(L, {}) = 0
    BY <1>2, <2>1, TotalFacts
  <2>3. z = 0 /\ n * c = 0
    BY <1>1, <1>3, <1>4, <2>1, <2>2
  <2> QED
    BY <1>4, <2>3
<1>5. CASE n # 0
  <2>1. PICK m \in Nat : n = m + 1
    <3>1. n - 1 \in Nat /\ n = (n - 1) + 1
      BY <1>1, <1>5
    <3> QED
      BY <3>1
  <2>2. PICK y : y = L.chunks[f + m + 1].original_size
    OBVIOUS
  <2>3. y \in 1 .. c
    <3>1. f + m + 1 \in (f + 1) .. (f + n)
      BY <1>1, <2>1
    <3> QED
      BY <1>1, <2>2, <3>1
  <2>4. z = m * c + y
    <3>1. m < n /\ f + m + 1 = f + n
      BY <1>1, <2>1
    <3>2. OriginalTotal(L, (f + 1) .. (f + m + 1)) = m * c + y
      BY <2>2, <3>1, Starts
    <3> QED
      BY <1>3, <3>1, <3>2
  <2>5. z <= n * c
    <3>1. n * c = m * c + c /\ m * c \in Nat
      BY <1>1, <2>1
    <3> QED
      BY <1>1, <2>3, <2>4, <3>1
  <2>6. ASSUME NEW l \in Nat, l < n
        PROVE  /\ l * c < z
               /\ l + 1 < n => l * c + c < z
               /\ l + 1 = n => l * c + L.chunks[f + l + 1].original_size = z
    <3>1. l <= m /\ (l + 1 < n => l < m) /\ (l + 1 = n => l = m)
      BY <1>1, <2>1, <2>6
    <3>2. l * c <= m * c /\ (l < m => l * c + c <= m * c) /\ l * c \in Nat /\ m * c \in Nat
      BY <1>1, <3>1, Times
    <3>3. l + 1 = n => l * c + L.chunks[f + l + 1].original_size = z
      BY <2>2, <2>4, <3>1
    <3> QED
      BY <1>1, <2>3, <2>4, <3>1, <3>2, <3>3
  <2> QED
    BY <1>5, <2>5, <2>6
<1> QED
  BY <1>4, <1>5

\* The entries of the open archive.
LEMMA EntryFacts ==
    ASSUME toc \in Layouts, NEW i \in DOMAIN toc.entries
    PROVE  /\ i \in Nat /\ First(i) \in Nat /\ Count(i) \in Nat /\ Size(i) \in Nat
           /\ C \in Nat /\ C >= 1
           /\ Size(i) <= Count(i) * C
           /\ First(i) + Count(i) <= Len(toc.chunks)
           /\ Len(toc.chunks) \in Nat /\ DOMAIN toc.chunks = 1 .. Len(toc.chunks)
           /\ \A l \in Nat : l < Count(i) =>
                 /\ First(i) + l + 1 \in DOMAIN toc.chunks
                 /\ Sz(i, l) \in 1 .. C
                 /\ l * C < Size(i)
                 /\ l + 1 < Count(i) => Sz(i, l) = C /\ l * C + C < Size(i)
                 /\ l + 1 = Count(i) => l * C + Sz(i, l) = Size(i)
                 /\ AssetStart([entry |-> i, local |-> l]) = l * C
<1>1. PICK L \in Layouts : L = toc
  OBVIOUS
<1>2. PICK f : f = L.entries[i].first_chunk
  OBVIOUS
<1>3. PICK n : n = L.entries[i].chunk_count
  OBVIOUS
<1>4. PICK c : c = L.chunk_size
  OBVIOUS
<1>5. PICK z : z = L.entries[i].original_size
  OBVIOUS
<1>6. i \in DOMAIN L.entries
  BY <1>1
<1>7. /\ f = First(i) /\ n = Count(i) /\ c = C /\ z = Size(i)
      /\ \A l : Sz(i, l) = L.chunks[f + l + 1].original_size
  BY <1>1, <1>2, <1>3, <1>4, <1>5 DEF First, Count, C, Size, Sz, EntryAt
<1>8. /\ i \in Nat /\ f \in Nat /\ n \in Nat /\ z \in Nat /\ c \in Nat /\ c >= 1
      /\ HasChunks(L, Len(L.chunks)) /\ f + n <= Len(L.chunks)
      /\ \A k \in (f + 1) .. (f + n) :
            /\ k \in DOMAIN L.chunks
            /\ L.chunks[k].original_size \in 1 .. c
            /\ k < f + n => L.chunks[k].original_size = c
  BY <1>2, <1>3, <1>4, <1>5, <1>6, Tables
<1>9. /\ z <= n * c
      /\ \A l \in Nat : l < n =>
            /\ l * c < z
            /\ l + 1 < n => l * c + c < z
            /\ l + 1 = n => l * c + L.chunks[f + l + 1].original_size = z
  BY <1>2, <1>3, <1>4, <1>5, <1>6, Ends
<1>10. \A l \in Nat : l < n => OriginalTotal(L, (f + 1) .. (f + l)) = l * c
  BY <1>2, <1>3, <1>4, <1>6, Starts
<1>11. Len(toc.chunks) \in Nat /\ DOMAIN toc.chunks = 1 .. Len(toc.chunks)
  BY <1>1, <1>8 DEF HasChunks
<1>12. ASSUME NEW l \in Nat, l < n
       PROVE  /\ f + l + 1 \in DOMAIN toc.chunks
              /\ Sz(i, l) \in 1 .. c
              /\ l * c < z
              /\ l + 1 < n => Sz(i, l) = c /\ l * c + c < z
              /\ l + 1 = n => l * c + Sz(i, l) = z
              /\ AssetStart([entry |-> i, local |-> l]) = l * c
  <2>1. PICK k : k = f + l + 1
    OBVIOUS
  <2>2. k \in (f + 1) .. (f + n) /\ (l + 1 < n => k < f + n)
    <3>1. f \in Nat /\ n \in Nat
      BY <1>8
    <3> QED
      BY <1>12, <2>1, <3>1
  <2>3. Sz(i, l) = L.chunks[k].original_size
    BY <1>7, <2>1
  <2>4. /\ k \in DOMAIN toc.chunks
        /\ Sz(i, l) \in 1 .. c
        /\ l + 1 < n => Sz(i, l) = c
    BY <1>1, <1>8, <2>2, <2>3
  <2>5. /\ l * c < z
        /\ l + 1 < n => l * c + c < z
        /\ l + 1 = n => l * c + Sz(i, l) = z
    BY <1>9, <1>12, <2>1, <2>3
  <2>6. AssetStart([entry |-> i, local |-> l]) = l * c
    <3>1. AssetStart([entry |-> i, local |-> l]) = OriginalTotal(L, (f + 1) .. (f + l))
      BY <1>1, <1>2 DEF AssetStart, EntryAt
    <3> QED
      BY <1>10, <1>12, <3>1
  <2> QED
    BY <2>1, <2>4, <2>5, <2>6
<1>13. f + n <= Len(toc.chunks)
  BY <1>1, <1>8
<1> QED
  BY <1>7, <1>8, <1>9, <1>11, <1>12, <1>13

LEMMA ItemsFacts ==
    ASSUME NEW i, NEW m \in Nat, NEW z \in Nat, m <= z
    PROVE  /\ Items(i, m, z - 1) \in Seq([entry : {i}, local : Nat])
           /\ Len(Items(i, m, z - 1)) = z - m
           /\ m = z => Items(i, m, z - 1) = << >>
           /\ m < z => /\ Items(i, m, z - 1) # << >>
                       /\ Head(Items(i, m, z - 1)) = [entry |-> i, local |-> m]
                       /\ Tail(Items(i, m, z - 1)) = Items(i, m + 1, z - 1)
<1>1. PICK n \in Nat : n = z - m
  OBVIOUS
<1>2. Items(i, m, z - 1) = [j \in 1 .. n |-> [entry |-> i, local |-> m + j - 1]]
  <2>1. (z - 1) + 1 - m = n
    BY <1>1
  <2> QED
    BY <2>1, Zenon DEF Items
<1>3. PICK s : s = Items(i, m, z - 1)
  OBVIOUS
<1>4. s \in Seq([entry : {i}, local : Nat]) /\ Len(s) = n
      /\ \A j \in 1 .. n : s[j] = [entry |-> i, local |-> m + j - 1]
  <2>1. \A j \in 1 .. n : m + j - 1 \in Nat
    OBVIOUS
  <2>2. \A j \in 1 .. n : s[j] = [entry |-> i, local |-> m + j - 1]
    BY <1>2, <1>3
  <2>3. ASSUME NEW j \in 1 .. n
        PROVE  s[j] \in [entry : {i}, local : Nat]
    <3>1. PICK l \in Nat : l = m + j - 1
      BY <2>1
    <3>2. s[j] = [entry |-> i, local |-> l]
      BY <2>2, <3>1
    <3> QED
      BY <3>2
  <2>4. PICK T : T = [entry : {i}, local : Nat]
    OBVIOUS
  <2>5. s \in [1 .. n -> T]
    <3>1. s = [j \in 1 .. n |-> s[j]]
      BY <1>2, <1>3
    <3> QED
      BY <2>3, <2>4, <3>1
  <2>6. s \in Seq(T) /\ Len(s) = n
    BY <2>5
  <2> QED
    BY <2>2, <2>4, <2>6
<1>5. m = z => s = << >>
  BY <1>1, <1>4
<1>6. ASSUME m < z
      PROVE  /\ s # << >>
             /\ Head(s) = [entry |-> i, local |-> m]
             /\ Tail(s) = Items(i, m + 1, z - 1)
  <2>1. n >= 1
    BY <1>1, <1>6
  <2>2. s # << >> /\ Head(s) = s[1] /\ s[1] = [entry |-> i, local |-> m]
    <3>1. s # << >>
      BY <1>4, <2>1
    <3>2. s[1] = [entry |-> i, local |-> m + 1 - 1] /\ m + 1 - 1 = m
      BY <1>4, <2>1
    <3> QED
      BY <1>4, <3>1, <3>2
  <2>3. PICK T : T = [entry : {i}, local : Nat]
    OBVIOUS
  <2>4. PICK t : t = Items(i, m + 1, z - 1)
    OBVIOUS
  <2>5. t \in Seq(T) /\ Len(t) = n - 1
        /\ \A j \in 1 .. (n - 1) : t[j] = [entry |-> i, local |-> (m + 1) + j - 1]
    <3>1. (z - 1) + 1 - (m + 1) = n - 1 /\ n - 1 \in Nat
      BY <1>1, <2>1
    <3>2. t = [j \in 1 .. (n - 1) |-> [entry |-> i, local |-> (m + 1) + j - 1]]
      BY <2>4, <3>1, Zenon DEF Items
    <3>3. ASSUME NEW j \in 1 .. (n - 1)
          PROVE  [entry |-> i, local |-> (m + 1) + j - 1] \in T
      <4>1. (m + 1) + j - 1 \in Nat
        BY <3>1
      <4> QED
        BY <2>3, <4>1
    <3>4. t \in [1 .. (n - 1) -> T]
      BY <3>2, <3>3
    <3>5. t \in Seq(T) /\ Len(t) = n - 1
      BY <3>1, <3>4
    <3> QED
      BY <3>2, <3>5
  <2>6. Tail(s) \in Seq(T) /\ Len(Tail(s)) = n - 1 /\ \A j \in 1 .. (n - 1) : Tail(s)[j] = s[j + 1]
    <3>1. s \in Seq(T) /\ Len(s) = n /\ s # << >>
      BY <1>4, <2>2, <2>3
    <3> QED
      BY <3>1, HeadTailProperties
  <2>7. \A j \in 1 .. (n - 1) : s[j + 1] = [entry |-> i, local |-> (m + 1) + j - 1]
    <3>1. ASSUME NEW j \in 1 .. (n - 1)
          PROVE  s[j + 1] = [entry |-> i, local |-> (m + 1) + j - 1]
      <4>1. j + 1 \in 1 .. n /\ m + (j + 1) - 1 = (m + 1) + j - 1
        BY <2>1
      <4>2. s[j + 1] = [entry |-> i, local |-> m + (j + 1) - 1]
        BY <1>4, <4>1
      <4> QED
        BY <4>1, <4>2
    <3> QED
      BY <3>1
  <2>8. \A j \in 1 .. (n - 1) : Tail(s)[j] = t[j]
    BY <2>5, <2>6, <2>7
  <2>9. Tail(s) = t
    BY <2>5, <2>6, <2>8, SeqEqual
  <2> QED
    BY <2>2, <2>4, <2>9
<1> QED
  BY <1>1, <1>3, <1>4, <1>5, <1>6

-----------------------------------------------------------------------------
(* One chunk.                                                              *)

LEMMA ByteFacts ==
    /\ Zero \in Bytes /\ Caller \in Bytes /\ Garbage \in Bytes
    /\ \A i, b \in Nat : Byte(i, b) \in Bytes /\ Byte(i, b) # Garbage
  BY DEF Zero, Caller, Garbage, Byte, Bytes

LEMMA BufferFacts ==
    ASSUME NEW n \in Nat, NEW b \in Bytes
    PROVE  /\ Buffer(n, b) \in Seq(Bytes) /\ Len(Buffer(n, b)) = n
           /\ \A j \in 1 .. n : Buffer(n, b)[j] = b
  BY DEF Buffer

\* The item that stands for chunk l of entry i.
LEMMA ItemFacts ==
    ASSUME toc \in Layouts, NEW i \in DOMAIN toc.entries,
           NEW l \in Nat, l < Count(i), NEW x, x = [entry |-> i, local |-> l]
    PROVE  /\ x.entry = i /\ x.local = l
           /\ ChunkOf(x).original_size = Sz(i, l) /\ GlobalChunk(x) = First(i) + l + 1
           /\ Packed(x) \in Seq(Bytes) /\ Len(Packed(x)) = Sz(i, l)
           /\ \A j \in 1 .. Sz(i, l) : Packed(x)[j] = Byte(i, l * C + j - 1)
           /\ AllGarbage(x) \in Seq(Bytes) /\ Len(AllGarbage(x)) = Sz(i, l)
           /\ AllGarbage(x) # Packed(x)
<1>1. x.entry = i /\ x.local = l
  OBVIOUS
<1>2. ChunkOf(x).original_size = Sz(i, l) /\ GlobalChunk(x) = First(i) + l + 1
  BY <1>1 DEF ChunkOf, GlobalChunk, Sz, First, EntryAt
<1>3. PICK n \in Nat : n = Sz(i, l) /\ n >= 1
  BY EntryFacts
<1>4. PICK a \in Nat : a = l * C /\ AssetStart(x) = a
  <2>1. AssetStart(x) = l * C /\ C \in Nat
    BY EntryFacts
  <2>2. l * C \in Nat
    BY <2>1
  <2> QED
    BY <2>1, <2>2
<1>5. PICK p : p = Packed(x)
  OBVIOUS
<1>6. p = [j \in 1 .. n |-> Byte(i, a + j - 1)]
  BY <1>1, <1>2, <1>3, <1>4, <1>5 DEF Packed
<1>7. \A j \in 1 .. n : Byte(i, a + j - 1) \in Bytes /\ Byte(i, a + j - 1) # Garbage
  <2>1. i \in Nat /\ \A j \in 1 .. n : a + j - 1 \in Nat
    BY EntryFacts
  <2> QED
    BY <2>1, ByteFacts
<1>8. p \in Seq(Bytes) /\ Len(p) = n /\ p[1] # Garbage
  <2>1. p \in [1 .. n -> Bytes]
    BY <1>6, <1>7
  <2>2. p \in Seq(Bytes) /\ Len(p) = n
    BY <2>1
  <2>3. 1 \in 1 .. n
    BY <1>3
  <2> QED
    BY <1>6, <1>7, <2>2, <2>3
<1>9. PICK g : g = AllGarbage(x)
  OBVIOUS
<1>10. g \in Seq(Bytes) /\ Len(g) = n /\ g[1] = Garbage
  <2>1. g = Buffer(n, Garbage) /\ 1 \in 1 .. n
    BY <1>2, <1>3, <1>9 DEF AllGarbage
  <2> QED
    BY <2>1, BufferFacts, ByteFacts
<1> QED
  BY <1>1, <1>2, <1>3, <1>4, <1>5, <1>6, <1>8, <1>9, <1>10

\* A buffer part of which was overwritten.
LEMMA HalfFacts ==
    ASSUME NEW n \in Nat, NEW buf \in Seq(Bytes), Len(buf) = n,
           NEW bytes \in Seq(Bytes), Len(bytes) = n
    PROVE  Half(buf, bytes) \in Seq(Bytes) /\ Len(Half(buf, bytes)) = n
<1>1. DOMAIN buf = 1 .. n /\ \A j \in 1 .. n : buf[j] \in Bytes /\ bytes[j] \in Bytes
  OBVIOUS
<1>2. Half(buf, bytes) \in [1 .. n -> Bytes]
  BY <1>1 DEF Half
<1> QED
  BY <1>2

\* read_chunk_by_index_into succeeds with the bytes that were packed, which it
\* only gets from intact ones, and reports damage only where there is some.
LEMMA ChunkReadFacts ==
    ASSUME toc \in Layouts, NEW i \in DOMAIN toc.entries,
           NEW l \in Nat, l < Count(i), NEW x, x = [entry |-> i, local |-> l],
           NEW buf \in Seq(Bytes), Len(buf) = Sz(i, l), NEW g \in ChunkReads(x, buf)
    PROVE  /\ g.bytes \in Seq(Bytes) /\ Len(g.bytes) = Sz(i, l)
           /\ g.error \in {"none", "Io", "TooLarge", "Damage"}
           /\ g.error = "none" => g.bytes = Packed(x) /\ First(i) + l + 1 \notin damaged
           /\ g.error = "Damage" => First(i) + l + 1 \in damaged
<1>1. /\ GlobalChunk(x) = First(i) + l + 1
      /\ Packed(x) \in Seq(Bytes) /\ Len(Packed(x)) = Sz(i, l)
      /\ AllGarbage(x) \in Seq(Bytes) /\ Len(AllGarbage(x)) = Sz(i, l)
      /\ AllGarbage(x) # Packed(x)
  BY ItemFacts
<1>2. Sz(i, l) \in Nat
  BY EntryFacts
<1>3. PICK stored : stored = IF GlobalChunk(x) \notin damaged THEN Packed(x) ELSE AllGarbage(x)
  OBVIOUS
<1>4. stored \in Seq(Bytes) /\ Len(stored) = Sz(i, l)
      /\ (stored = Packed(x) <=> GlobalChunk(x) \notin damaged)
  BY <1>1, <1>3
<1>5. Half(buf, stored) \in Seq(Bytes) /\ Len(Half(buf, stored)) = Sz(i, l)
  BY <1>2, <1>4, HalfFacts
<1>6. PICK h \in Decodings(x, buf) :
         g = [h EXCEPT !.error = IF h.error = "none" /\ ~ChecksumOk(x, h.bytes)
                                 THEN "Damage" ELSE h.error]
  BY DEF ChunkReads
<1>7. \/ h = [error |-> "Io", bytes |-> buf]
      \/ h = [error |-> "Io", bytes |-> Half(buf, stored)]
      \/ h = [error |-> "TooLarge", bytes |-> buf]
      \/ h = [error |-> "Damage", bytes |-> buf] /\ GlobalChunk(x) \in damaged
      \/ h = [error |-> "none", bytes |-> stored]
      \/ h = [error |-> "Damage", bytes |-> Half(buf, stored)] /\ GlobalChunk(x) \in damaged
  BY <1>3, <1>6 DEF Decodings
<1>8. g.bytes = h.bytes
      /\ g.error = IF h.error = "none" /\ h.bytes # Packed(x) THEN "Damage" ELSE h.error
  BY <1>6, <1>7 DEF ChecksumOk
<1> QED
  BY <1>1, <1>4, <1>5, <1>7, <1>8

-----------------------------------------------------------------------------
(* The chunks that verify reads: FlattenSeq over the entries.              *)

IsFlat(g, seqs, n) ==
    g = [i \in 1 .. n |-> IF i = 1 THEN seqs[i] ELSE g[i - 1] \o seqs[i]]

LEMMA FlatExists ==
    ASSUME NEW seqs, NEW n \in Nat
    PROVE  \E g : IsFlat(g, seqs, n)
<1> DEFINE B == {m \in Nat : ~\E g : IsFlat(g, seqs, m)}
<1>1. SUFFICES ASSUME B # {}
               PROVE  FALSE
  OBVIOUS
<1>2. PICK m \in B : \A k \in B : m <= k
  <2>1. B \in SUBSET Nat
    OBVIOUS
  <2> HIDE DEF B
  <2> QED
    BY <1>1, <2>1, SmallestNat
<1>3. m \in Nat /\ ~\E g : IsFlat(g, seqs, m)
  OBVIOUS
<1>4. \A k \in Nat : k < m => \E g : IsFlat(g, seqs, k)
  BY <1>2
<1> HIDE DEF B
<1>5. PICK g : m # 0 => IsFlat(g, seqs, m - 1)
  <2>1. m # 0 => m - 1 \in Nat /\ m - 1 < m
    BY <1>3
  <2> QED
    BY <1>4, <2>1
<1>6. PICK h : h = [i \in 1 .. m |-> IF i = 1 THEN seqs[i] ELSE g[i - 1] \o seqs[i]]
  OBVIOUS
<1>7. ASSUME NEW i \in 1 .. m, i # 1
      PROVE  h[i - 1] = g[i - 1]
  <2>1. i - 1 \in 1 .. m /\ i - 1 \in 1 .. (m - 1) /\ m # 0
    BY <1>3, <1>7
  <2>2. h[i - 1] = IF i - 1 = 1 THEN seqs[i - 1] ELSE g[(i - 1) - 1] \o seqs[i - 1]
    BY <1>6, <2>1
  <2>3. g[i - 1] = IF i - 1 = 1 THEN seqs[i - 1] ELSE g[(i - 1) - 1] \o seqs[i - 1]
    BY <1>5, <2>1, Zenon DEF IsFlat
  <2> QED
    BY <2>2, <2>3
<1>8. h = [i \in 1 .. m |-> IF i = 1 THEN seqs[i] ELSE h[i - 1] \o seqs[i]]
  BY <1>6, <1>7
<1> QED
  BY <1>3, <1>8 DEF IsFlat

LEMMA FlattenIs ==
    ASSUME NEW seqs, Len(seqs) \in Nat
    PROVE  \/ Len(seqs) = 0 /\ FlattenSeq(seqs) = seqs
           \/ \E g : IsFlat(g, seqs, Len(seqs)) /\ FlattenSeq(seqs) = g[Len(seqs)]
<1>1. FlattenSeq(seqs) = IF Len(seqs) = 0 THEN seqs
                         ELSE (CHOOSE g : IsFlat(g, seqs, Len(seqs)))[Len(seqs)]
  BY Zenon DEF FlattenSeq, IsFlat
<1>2. IsFlat(CHOOSE g : IsFlat(g, seqs, Len(seqs)), seqs, Len(seqs))
  BY FlatExists
<1> QED
  BY <1>1, <1>2

\* The items that read takes: all chunks of one entry.
LEMMA AllOfFacts ==
    ASSUME toc \in Layouts, NEW i \in DOMAIN toc.entries
    PROVE  /\ AllOf(i) \in Seq([entry : DOMAIN toc.entries, local : Nat])
           /\ Len(AllOf(i)) = Count(i)
           /\ \A j \in 1 .. Count(i) : AllOf(i)[j] = [entry |-> i, local |-> j - 1]
           /\ Owned(toc.entries[i]) = (First(i) + 1) .. (First(i) + Count(i))
           /\ IsFiniteSet(Owned(toc.entries[i]))
           /\ Cardinality(Owned(toc.entries[i])) = Count(i)
<1>1. PICK n \in Nat : n = Count(i)
  BY EntryFacts
<1>2. PICK f \in Nat : f = First(i)
  BY EntryFacts
<1>3. PICK T : T = [entry : DOMAIN toc.entries, local : Nat]
  OBVIOUS
<1>4. PICK s : s = AllOf(i)
  OBVIOUS
<1>5. s = [j \in 1 .. n |-> [entry |-> i, local |-> j - 1]]
  <2>1. \A j \in 1 .. n : 0 + j - 1 = j - 1
    OBVIOUS
  <2>2. (n - 1) + 1 - 0 = n
    OBVIOUS
  <2>3. s = Items(i, 0, n - 1)
    BY <1>1, <1>4 DEF AllOf, Count
  <2>4. s = [j \in 1 .. n |-> [entry |-> i, local |-> 0 + j - 1]]
    BY <2>2, <2>3, Zenon DEF Items
  <2> QED
    BY <2>1, <2>4
<1>6. s \in [1 .. n -> T]
  <2>1. ASSUME NEW j \in 1 .. n
        PROVE  [entry |-> i, local |-> j - 1] \in T
    <3>1. j - 1 \in Nat
      OBVIOUS
    <3> QED
      BY <1>3, <3>1
  <2> QED
    BY <1>5, <2>1
<1>7. s \in Seq(T) /\ Len(s) = n
  BY <1>6
<1>8. Owned(toc.entries[i]) = (f + 1) .. (f + n)
  BY <1>1, <1>2 DEF Owned, First, Count, EntryAt
<1>9. IsFiniteSet((f + 1) .. (f + n)) /\ Cardinality((f + 1) .. (f + n)) = n
  <2>1. f + 1 \in Int /\ f + n \in Int
    OBVIOUS
  <2>2. /\ IsFiniteSet((f + 1) .. (f + n))
        /\ Cardinality((f + 1) .. (f + n)) = IF f + 1 > f + n THEN 0 ELSE (f + n) - (f + 1) + 1
    BY <2>1, FS_Interval
  <2>3. (IF f + 1 > f + n THEN 0 ELSE (f + n) - (f + 1) + 1) = n
    OBVIOUS
  <2> QED
    BY <2>2, <2>3
<1> QED
  BY <1>1, <1>2, <1>3, <1>4, <1>5, <1>7, <1>8, <1>9

\* The chunks of the first k entries, and a sequence of items that has them.
Covered(k) ==
    {x \in DOMAIN toc.chunks :
        \E i \in DOMAIN toc.entries : i <= k /\ x \in Owned(toc.entries[i])}

Covers(s, k) ==
    /\ s \in Seq([entry : DOMAIN toc.entries, local : Nat])
    /\ Len(s) = Cardinality(Covered(k))
    /\ \A j \in 1 .. Len(s) : s[j].local < Count(s[j].entry)
    /\ \A x \in Covered(k) : \E j \in 1 .. Len(s) : x = GlobalChunk(s[j])

LEMMA CoversNone ==
    ASSUME toc \in Layouts
    PROVE  Covers(<< >>, 0) /\ Covered(0) = {}
<1>1. Covered(0) = {}
  <2>1. ASSUME NEW i \in DOMAIN toc.entries
        PROVE  ~(i <= 0)
    <3>1. PICK s : s = toc.entries
      OBVIOUS
    <3>2. PICK E : s \in Seq(E)
      BY <3>1, ReaderAssumption DEF DecodedTable
    <3>3. i \in 1 .. Len(s)
      BY <3>1, <3>2
    <3> QED
      BY <3>3
  <2> QED
    BY <2>1 DEF Covered
<1>2. Cardinality({}) = 0
  BY FS_EmptySet
<1>3. Len(<< >>) = 0 /\ << >> \in Seq([entry : DOMAIN toc.entries, local : Nat])
  OBVIOUS
<1> QED
  BY <1>1, <1>2, <1>3 DEF Covers

LEMMA CoversNext ==
    ASSUME toc \in Layouts, NEW p \in Nat, NEW s, Covers(s, p),
           NEW k \in DOMAIN toc.entries, k = p + 1
    PROVE  Covers(s \o AllOf(k), k)
<1>1. PICK T : T = [entry : DOMAIN toc.entries, local : Nat]
  OBVIOUS
<1>2. PICK a : a = AllOf(k)
  OBVIOUS
<1>3. PICK n \in Nat : n = Count(k)
  BY EntryFacts
<1>4. /\ s \in Seq(T) /\ Len(s) \in Nat /\ Len(s) = Cardinality(Covered(p))
      /\ \A j \in 1 .. Len(s) : s[j].local < Count(s[j].entry)
      /\ \A x \in Covered(p) : \E j \in 1 .. Len(s) : x = GlobalChunk(s[j])
  BY <1>1 DEF Covers
<1>5. a \in Seq(T) /\ Len(a) = n /\ \A j \in 1 .. n : a[j] = [entry |-> k, local |-> j - 1]
  BY <1>1, <1>2, <1>3, AllOfFacts
<1>6. PICK t : t = s \o a
  OBVIOUS
<1>7. /\ t \in Seq(T) /\ Len(t) = Len(s) + n
      /\ \A j \in 1 .. Len(s) : t[j] = s[j]
      /\ \A j \in 1 .. n : Len(s) + j \in 1 .. Len(t) /\ t[Len(s) + j] = a[j]
      /\ \A j \in 1 .. Len(t) : j \in 1 .. Len(s) \/ \E h \in 1 .. n : j = Len(s) + h
  <2>a. s \in Seq(T) /\ a \in Seq(T) /\ Len(a) = n
    BY <1>4, <1>5
  <2>1. /\ t \in Seq(T) /\ Len(t) = Len(s) + n
    BY <1>6, <2>a, ConcatProperties
  <2>2. \A j \in 1 .. Len(s) : t[j] = s[j]
    BY <1>4, <1>5, <1>6
  <2>3. \A j \in 1 .. n : Len(s) + j \in 1 .. Len(t) /\ t[Len(s) + j] = a[j]
    BY <1>4, <1>5, <1>6, <2>1
  <2>4. ASSUME NEW j \in 1 .. Len(t), j \notin 1 .. Len(s)
        PROVE  \E h \in 1 .. n : j = Len(s) + h
    <3>1. j - Len(s) \in 1 .. n /\ j = Len(s) + (j - Len(s))
      BY <1>4, <2>1, <2>4
    <3> QED
      BY <3>1
  <2> QED
    BY <2>1, <2>2, <2>3, <2>4
<1>8. Covered(k) = Covered(p) \cup Owned(toc.entries[k])
  <2>1. ASSUME NEW i \in DOMAIN toc.entries
        PROVE  i <= k <=> i <= p \/ i = k
    <3>1. i \in Nat
      BY EntryFacts
    <3> QED
      BY <3>1
  <2>2. Owned(toc.entries[k]) \subseteq DOMAIN toc.chunks
    <3>1. PICK f \in Nat : f = First(k) /\ f + n <= Len(toc.chunks)
      BY <1>3, EntryFacts
    <3>2. Len(toc.chunks) \in Nat /\ DOMAIN toc.chunks = 1 .. Len(toc.chunks)
      BY EntryFacts
    <3>3. Owned(toc.entries[k]) = (f + 1) .. (f + n)
      BY <1>3, <3>1, AllOfFacts
    <3>4. (f + 1) .. (f + n) \subseteq 1 .. Len(toc.chunks)
      BY <3>1, <3>2
    <3> QED
      BY <3>2, <3>3, <3>4
  <2>3. ASSUME NEW x \in DOMAIN toc.chunks
        PROVE  x \in Covered(k) <=> x \in Covered(p) \/ x \in Owned(toc.entries[k])
    BY <2>1 DEF Covered
  <2>4. Covered(k) \subseteq DOMAIN toc.chunks /\ Covered(p) \subseteq DOMAIN toc.chunks
    BY DEF Covered
  <2> QED
    BY <2>2, <2>3, <2>4
<1>9. Covered(p) \cap Owned(toc.entries[k]) = {}
  <2>1. ASSUME NEW i \in DOMAIN toc.entries, i <= p
        PROVE  i # k
    <3>1. i \in Nat
      BY EntryFacts
    <3> QED
      BY <2>1, <3>1
  <2>2. EntriesDisjoint(toc)
    BY ReaderAssumption DEF WellFormed, EntryTableOk
  <2> QED
    BY <2>1, <2>2 DEF Covered, EntriesDisjoint
<1>10. Cardinality(Covered(k)) = Len(t)
  <2>1. IsFiniteSet(Owned(toc.entries[k])) /\ Cardinality(Owned(toc.entries[k])) = n
    BY <1>3, AllOfFacts
  <2>2. IsFiniteSet(Covered(p))
    <3>1. DOMAIN toc.chunks = 1 .. Len(toc.chunks) /\ Len(toc.chunks) \in Nat
      BY EntryFacts
    <3>2. IsFiniteSet(DOMAIN toc.chunks) /\ Covered(p) \in SUBSET (DOMAIN toc.chunks)
      BY <3>1, FS_Interval DEF Covered
    <3> QED
      BY <3>2, FS_Subset
  <2>3. Cardinality(Covered(p) \cup Owned(toc.entries[k]))
          = Cardinality(Covered(p)) + Cardinality(Owned(toc.entries[k])) - Cardinality({})
    BY <1>9, <2>1, <2>2, FS_Union
  <2>4. Cardinality({}) = 0
    BY FS_EmptySet
  <2>5. Cardinality(Covered(p) \cup Owned(toc.entries[k])) = Len(s) + n - 0
    BY <1>4, <2>1, <2>3, <2>4, Zenon
  <2>6. Len(s) + n - 0 = Len(t)
    BY <1>4, <1>7
  <2> QED
    BY <1>8, <2>5, <2>6, Zenon
<1>11. ASSUME NEW j \in 1 .. Len(t)
       PROVE  t[j].local < Count(t[j].entry)
  <2>1. CASE j \in 1 .. Len(s)
    BY <1>4, <1>7, <2>1
  <2>2. ASSUME NEW h \in 1 .. n, j = Len(s) + h
        PROVE  t[j].local < Count(t[j].entry)
    <3>1. t[j].local = h - 1 /\ t[j].entry = k
      <4>1. t[j] = [entry |-> k, local |-> h - 1]
        BY <1>5, <1>7, <2>2, Zenon
      <4> QED
        BY <4>1
    <3>2. h - 1 < n
      OBVIOUS
    <3> QED
      BY <1>3, <3>1, <3>2
  <2> QED
    BY <1>7, <2>1, <2>2
<1>12. ASSUME NEW x \in Covered(k)
       PROVE  \E j \in 1 .. Len(t) : x = GlobalChunk(t[j])
  <2>1. CASE x \in Covered(p)
    <3>1. PICK j \in 1 .. Len(s) : x = GlobalChunk(s[j])
      BY <1>4, <2>1
    <3>2. j \in 1 .. Len(t) /\ t[j] = s[j]
      BY <1>4, <1>7
    <3> QED
      BY <3>1, <3>2
  <2>2. CASE x \in Owned(toc.entries[k])
    <3>1. PICK f \in Nat : f = First(k)
      BY EntryFacts
    <3>2. x \in (f + 1) .. (f + n)
      BY <1>3, <2>2, <3>1, AllOfFacts
    <3>3. PICK h \in 1 .. n : h = x - f
      BY <3>2
    <3>4. t[Len(s) + h] = [entry |-> k, local |-> h - 1] /\ Len(s) + h \in 1 .. Len(t)
      BY <1>5, <1>7
    <3>5. GlobalChunk(t[Len(s) + h]) = f + (h - 1) + 1
      BY <3>1, <3>4 DEF GlobalChunk, First
    <3>6. f + (h - 1) + 1 = x
      BY <3>2, <3>3
    <3> QED
      BY <3>4, <3>5, <3>6
  <2> QED
    BY <1>8, <2>1, <2>2
<1> QED
  BY <1>1, <1>2, <1>6, <1>7, <1>10, <1>11, <1>12 DEF Covers

\* What verify reads: every chunk, each once.
LEMMA AllItems ==
    ASSUME toc \in Layouts,
           NEW s, s = FlattenSeq([i \in DOMAIN toc.entries |-> AllOf(i)])
    PROVE  /\ s \in Seq([entry : DOMAIN toc.entries, local : Nat])
           /\ Len(s) \in Nat /\ Len(s) <= Len(toc.chunks)
           /\ \A j \in DOMAIN s : s[j].local < Count(s[j].entry)
           /\ DOMAIN toc.chunks \subseteq {GlobalChunk(s[j]) : j \in DOMAIN s}
<1>1. PICK n \in Nat : n = Len(toc.entries) /\ DOMAIN toc.entries = 1 .. n
  <2>1. PICK e : e = toc.entries
    OBVIOUS
  <2>2. PICK E : e \in Seq(E)
    BY <2>1, ReaderAssumption DEF DecodedTable
  <2>3. Len(e) \in Nat /\ DOMAIN e = 1 .. Len(e)
    BY <2>2
  <2> QED
    BY <2>1, <2>3
<1>2. PICK q : q = [i \in DOMAIN toc.entries |-> AllOf(i)]
  OBVIOUS
<1>3. Len(q) = n /\ \A i \in 1 .. n : q[i] = AllOf(i)
  BY <1>1, <1>2
<1>4. Covers(s, n)
  <2>1. CASE n = 0
    <3>1. s = q /\ q = << >>
      <4>1. s = q
        BY <1>2, <1>3, <2>1 DEF FlattenSeq
      <4>2. q = << >>
        BY <1>1, <1>2, <2>1
      <4> QED
        BY <4>1, <4>2
    <3> QED
      BY <2>1, <3>1, CoversNone
  <2>2. CASE n # 0
    <3>1. PICK g : IsFlat(g, q, n) /\ s = g[n]
      BY <1>2, <1>3, <2>2, FlattenIs
    <3>2. \A i \in 1 .. n : g[i] = IF i = 1 THEN q[i] ELSE g[i - 1] \o q[i]
      BY <3>1, Zenon DEF IsFlat
    <3> DEFINE B == {b \in Nat : b \in 1 .. n /\ ~Covers(g[b], b)}
    <3>3. SUFFICES ASSUME B # {}
                   PROVE  FALSE
      <4>1. n \in 1 .. n
        BY <2>2
      <4> QED
        BY <3>1, <4>1
    <3>4. PICK b \in B : \A k \in B : b <= k
      <4>1. B \in SUBSET Nat
        OBVIOUS
      <4> HIDE DEF B
      <4> QED
        BY <3>3, <4>1, SmallestNat
    <3>5. b \in 1 .. n /\ ~Covers(g[b], b) /\ b \in DOMAIN toc.entries
      BY <1>1
    <3>6. CASE b = 1
      <4>1. g[b] = AllOf(b)
        BY <1>3, <3>2, <3>5, <3>6
      <4>2. << >> \o AllOf(b) = AllOf(b)
        BY <3>5, AllOfFacts
      <4>3. Covers(<< >> \o AllOf(b), b)
        <5>1. b = 0 + 1 /\ 0 \in Nat
          BY <3>6
        <5> QED
          BY <3>5, <5>1, CoversNone, CoversNext
      <4> QED
        BY <3>5, <4>1, <4>2, <4>3
    <3>7. CASE b # 1
      <4>1. PICK p \in Nat : b = p + 1 /\ p \in 1 .. n
        <5>1. b - 1 \in Nat /\ b = (b - 1) + 1 /\ b - 1 \in 1 .. n
          BY <3>5, <3>7
        <5> QED
          BY <5>1
      <4>2. Covers(g[p], p)
        <5>1. ~(b <= p)
          BY <4>1
        <5> QED
          BY <3>4, <4>1, <5>1
      <4>3. g[b] = g[p] \o AllOf(b)
        <5>1. b - 1 = p
          BY <4>1
        <5> QED
          BY <1>3, <3>2, <3>5, <3>7, <5>1
      <4>4. Covers(g[p] \o AllOf(b), b)
        BY <3>5, <4>1, <4>2, CoversNext
      <4> QED
        BY <3>5, <4>3, <4>4
    <3> QED
      BY <3>6, <3>7
  <2> QED
    BY <2>1, <2>2
<1>5. s \in Seq([entry : DOMAIN toc.entries, local : Nat]) /\ Len(s) \in Nat /\ DOMAIN s = 1 .. Len(s)
  <2>1. PICK T : T = [entry : DOMAIN toc.entries, local : Nat]
    OBVIOUS
  <2>2. s \in Seq(T)
    BY <1>4, <2>1 DEF Covers
  <2>3. Len(s) \in Nat /\ DOMAIN s = 1 .. Len(s)
    BY <2>2
  <2> QED
    BY <2>1, <2>2, <2>3
<1>6. DOMAIN toc.chunks \subseteq Covered(n)
  <2>1. \A i \in DOMAIN toc.entries : i <= n
    BY <1>1
  <2>2. NoOrphanChunk(toc)
    BY ReaderAssumption DEF WellFormed
  <2> QED
    BY <2>1, <2>2 DEF Covered, NoOrphanChunk
<1>7. Len(s) <= Len(toc.chunks)
  <2>1. PICK t \in Nat : t = Len(toc.chunks) /\ DOMAIN toc.chunks = 1 .. t
    <3>1. PICK e : e = toc.chunks
      OBVIOUS
    <3>2. PICK E : e \in Seq(E)
      BY <3>1, ReaderAssumption DEF DecodedTable
    <3>3. Len(e) \in Nat /\ DOMAIN e = 1 .. Len(e)
      BY <3>2
    <3> QED
      BY <3>1, <3>3
  <2>2. IsFiniteSet(1 .. t) /\ Cardinality(1 .. t) = t
    <3>1. /\ IsFiniteSet(1 .. t)
          /\ Cardinality(1 .. t) = IF 1 > t THEN 0 ELSE t - 1 + 1
      BY FS_Interval
    <3> QED
      BY <3>1
  <2>3. Covered(n) \in SUBSET (1 .. t)
    BY <2>1 DEF Covered
  <2>4. Cardinality(Covered(n)) <= t
    BY <2>2, <2>3, FS_Subset
  <2> QED
    BY <1>4, <2>1, <2>4 DEF Covers
<1> QED
  BY <1>4, <1>5, <1>6, <1>7 DEF Covers

-----------------------------------------------------------------------------
(* The loops.                                                              *)

LEMMA NeededIs ==
    ASSUME toc \in Layouts, NEW c, c.op \in Sized, NEW i \in DOMAIN toc.entries, i = c.entry
    PROVE  /\ \A l \in Nat : l < Count(i) =>
                 (First(i) + l + 1 \in NeededOf(c) <=>
                    /\ c.n > 0 /\ l * C < c.from + c.n /\ c.from < l * C + Sz(i, l))
           /\ \A k \in NeededOf(c) : \E l \in Nat : l < Count(i) /\ k = First(i) + l + 1
<1>1. PICK f \in Nat : f = First(i)
  BY EntryFacts
<1>2. PICK n \in Nat : n = Count(i)
  BY EntryFacts
<1>3. Owned(EntryAt(i)) = (f + 1) .. (f + n) /\ EntryAt(i).first_chunk = f
  BY <1>1, <1>2, AllOfFacts DEF EntryAt, First
<1>4. c.op # "verify"
  BY DEF Sized, Direct, RangeOps
<1>5. NeededOf(c) = {k \in (f + 1) .. (f + n) :
            /\ c.n > 0 /\ AssetStart([entry |-> i, local |-> k - f - 1]) < c.from + c.n
            /\ c.from < AssetStart([entry |-> i, local |-> k - f - 1])
                           + toc.chunks[k].original_size}
  BY <1>3, <1>4 DEF NeededOf
<1>6. ASSUME NEW l \in Nat, l < n
      PROVE  f + l + 1 \in NeededOf(c) <=>
                /\ c.n > 0 /\ l * C < c.from + c.n /\ c.from < l * C + Sz(i, l)
  <2>1. f + l + 1 \in (f + 1) .. (f + n) /\ (f + l + 1) - f - 1 = l
    BY <1>6
  <2>2. AssetStart([entry |-> i, local |-> l]) = l * C
    BY <1>2, <1>6, EntryFacts
  <2>3. toc.chunks[f + l + 1].original_size = Sz(i, l)
    BY <1>1 DEF Sz
  <2> QED
    BY <1>5, <2>1, <2>2, <2>3
<1>7. ASSUME NEW k \in NeededOf(c)
      PROVE  \E l \in Nat : l < n /\ k = f + l + 1
  <2>1. k \in (f + 1) .. (f + n)
    BY <1>5
  <2>2. k - f - 1 \in Nat /\ k - f - 1 < n /\ k = f + (k - f - 1) + 1
    BY <2>1
  <2> QED
    BY <2>2
<1> QED
  BY <1>1, <1>2, <1>6, <1>7

\* Where the loop stands before chunk m, which begins at a and has s bytes, of
\* a call for the bytes up to e; and where it will stand after it.
BeforeChunk(i, m, z, a, e, s) ==
    /\ todo # << >> /\ Item = [entry |-> i, local |-> m]
    /\ Tail(todo) = Items(i, m + 1, z - 1)
    /\ m \in Nat /\ z \in Nat /\ m < Count(i)
    /\ a \in Nat /\ e \in Nat /\ C \in Nat /\ s \in 1 .. C
    /\ a < e /\ a + s <= Size(i) /\ (m + 1) * C = a + C
    /\ call.from < e /\ call.from < a + s
    /\ call.from + written = MaxOf(call.from, a)
    /\ m + 1 < z => s = C /\ a + C < e
    /\ m + 1 = z => e <= a + s
    /\ MaxOf(call.from, MinOf(a + C, e)) = MinOf(a + s, e)
    /\ First(i) + m + 1 \in NeededOf(call)

LEMMA StepFacts ==
    ASSUME Typing, call.op \in Sized, NEW i \in DOMAIN toc.entries, i = call.entry,
           NEW m \in 0 .. Count(i), NEW z \in 0 .. Count(i), m < z,
           Progress(call, todo, written, dst, m, z),
           NEW a, a = m * C, NEW e, e = call.from + call.n, NEW s, s = Sz(i, m)
    PROVE  BeforeChunk(i, m, z, a, e, s)
<1>1. toc \in Layouts /\ call.from \in Nat /\ call.n \in Nat
  BY DEF Typing, Calls
<1>2. /\ Count(i) \in Nat /\ Size(i) \in Nat /\ C \in Nat /\ C >= 1
  BY <1>1, EntryFacts
<1>3. m \in Nat /\ z \in Nat /\ m < Count(i) /\ m <= z
  BY <1>2
<1>4. /\ s \in 1 .. C /\ a < Size(i)
      /\ m + 1 < Count(i) => s = C /\ a + C < Size(i)
      /\ m + 1 = Count(i) => a + s = Size(i)
  BY <1>1, <1>3, EntryFacts
<1>5. todo = Items(i, m, z - 1)
  BY DEF Progress
<1>6. /\ todo # << >> /\ Item = [entry |-> i, local |-> m]
      /\ Tail(todo) = Items(i, m + 1, z - 1)
  BY <1>3, <1>5, ItemsFacts DEF Item
<1>7. a \in Nat /\ (m + 1) * C = a + C
  BY <1>2, <1>3, Times
<1>8. /\ e <= Size(i) /\ e <= z * C
      /\ call.n > 0 /\ call.from < (m + 1) * C
      /\ call.from + written = MaxOf(call.from, MinOf(a, e))
      /\ \A l \in m .. (z - 1) : l * C < e
  BY DEF Progress
<1>9. a < e
  <2>1. m \in m .. (z - 1)
    BY <1>3
  <2> QED
    BY <1>8, <2>1
<1>10. m + 1 < z => s = C /\ a + C < e
  <2>1. SUFFICES ASSUME m + 1 < z
                 PROVE  s = C /\ a + C < e
    OBVIOUS
  <2>2. m + 1 \in m .. (z - 1) /\ m + 1 < Count(i)
    BY <1>2, <1>3, <2>1
  <2>3. (m + 1) * C < e
    BY <1>8, <2>2
  <2> QED
    BY <1>4, <1>7, <2>2, <2>3
<1>11. m + 1 = z => e <= a + s
  <2>1. SUFFICES ASSUME m + 1 = z
                 PROVE  e <= a + s
    OBVIOUS
  <2>2. e <= a + C
    BY <1>7, <1>8, <2>1
  <2>3. m + 1 < Count(i) \/ m + 1 = Count(i)
    BY <1>2, <1>3
  <2> QED
    BY <1>4, <1>8, <2>2, <2>3
<1>12. m + 1 < z \/ m + 1 = z
  BY <1>3
<1>13. e \in Nat /\ call.from < e
  BY <1>1, <1>8
<1>14. PICK x \in Nat : x = call.from
  BY <1>1
<1>15. x < a + C /\ x < e
  BY <1>7, <1>8, <1>13, <1>14
<1>16. x < a + s /\ a + s <= Size(i)
  <2>1. m + 1 < Count(i) \/ m + 1 = Count(i)
    BY <1>2, <1>3
  <2> QED
    BY <1>2, <1>4, <1>7, <1>8, <1>13, <1>15, <2>1
<1>17. MaxOf(x, MinOf(a + C, e)) = MinOf(a + s, e)
  BY <1>2, <1>4, <1>7, <1>10, <1>11, <1>12, <1>13, <1>15 DEF MaxOf, MinOf
<1>18. x + written = MaxOf(x, a)
  BY <1>7, <1>8, <1>9, <1>13, <1>14 DEF MinOf
<1>19. First(i) + m + 1 \in NeededOf(call)
  <2>1. call.n > 0 /\ m * C < call.from + call.n /\ call.from < m * C + Sz(i, m)
    BY <1>8, <1>9, <1>14, <1>16
  <2> QED
    BY <1>1, <1>3, <2>1, NeededIs
<1> QED
  BY <1>2, <1>3, <1>4, <1>6, <1>7, <1>9, <1>10, <1>11, <1>13, <1>14, <1>16, <1>17, <1>18, <1>19
  DEF BeforeChunk

\* A chunk that was read intact takes the loop one chunk further.
LEMMA ProgressNext ==
    ASSUME Typing, call.op \in Sized, NEW i \in DOMAIN toc.entries, i = call.entry,
           NEW m \in 0 .. Count(i), NEW z \in 0 .. Count(i), m < z,
           Progress(call, todo, written, dst, m, z),
           First(i) + m + 1 \notin damaged,
           NEW w, call.from + w = MinOf(m * C + Sz(i, m), call.from + call.n),
           NEW d, Len(d) = Len(dst)
    PROVE  m + 1 \in 0 .. Count(i) /\ Progress(call, Tail(todo), w, d, m + 1, z)
<1>1. PICK a : a = m * C
  OBVIOUS
<1>2. PICK e : e = call.from + call.n
  OBVIOUS
<1>3. PICK s : s = Sz(i, m)
  OBVIOUS
<1>4. /\ Tail(todo) = Items(i, m + 1, z - 1)
      /\ m \in Nat /\ z \in Nat /\ m < Count(i)
      /\ a \in Nat /\ e \in Nat /\ C \in Nat
      /\ (m + 1) * C = a + C
      /\ call.from < e
      /\ MaxOf(call.from, MinOf(a + C, e)) = MinOf(a + s, e)
  <2>1. BeforeChunk(i, m, z, a, e, s)
    BY <1>1, <1>2, <1>3, StepFacts
  <2> QED
    BY <2>1 DEF BeforeChunk
<1>5. toc \in Layouts /\ call.from \in Nat /\ call.n \in Nat
      /\ call.at_start \subseteq damaged
  BY DEF Typing, Calls
<1>6. Count(i) \in Nat /\ First(i) \in Nat /\ C >= 1
  BY <1>5, EntryFacts
<1>7. m + 1 \in 0 .. Count(i) /\ m + 1 <= z
  BY <1>4, <1>6
<1>8. /\ e <= Size(i) /\ e <= z * C
      /\ call.n > 0 /\ call.from < (m + 1) * C
      /\ \A l \in m .. (z - 1) : l * C < e
      /\ \A k \in NeededOf(call) \cap call.at_start : k > First(i) + m
      /\ call.op \in Direct =>
            /\ Len(dst) = call.n /\ call.from <= m * C
            /\ e = z * C \/ (z = Count(i) /\ e = Size(i))
  BY <1>2 DEF Progress
<1>9. \A l \in (m + 1) .. (z - 1) : l * C < e
  BY <1>4, <1>8
<1>10. call.from < (m + 1 + 1) * C /\ call.from <= (m + 1) * C
  <2>1. (m + 1 + 1) * C = (a + C) + C
    BY <1>4, Times
  <2> QED
    BY <1>4, <1>5, <1>8, <2>1
<1>11. call.from + w = MaxOf(call.from, MinOf((m + 1) * C, e))
  BY <1>1, <1>2, <1>3, <1>4
<1>12. ASSUME NEW k \in NeededOf(call) \cap call.at_start
       PROVE  k > First(i) + (m + 1)
  <2>1. PICK l \in Nat : k = First(i) + l + 1
    BY <1>5, NeededIs
  <2>2. k > First(i) + m /\ k # First(i) + m + 1
    BY <1>5, <1>8
  <2> QED
    BY <1>4, <1>6, <2>1, <2>2
<1> QED
  BY <1>2, <1>4, <1>7, <1>8, <1>9, <1>10, <1>11, <1>12 DEF Progress

LEMMA Bounds ==
    /\ MaxCalls \in Nat /\ max_chunks_per_operation \in Nat /\ U64_MAX \in Nat
    /\ Offsets \subseteq Nat /\ Lens \subseteq Nat
    /\ toc \in Layouts => C \in Nat /\ C >= 1
<1>1. MaxCalls \in Nat /\ max_chunks_per_operation \in Nat /\ U64_MAX \in Nat
  BY ReaderAssumption
<1>2. Offsets \subseteq Nat /\ Lens \subseteq Nat
  BY <1>1, ReaderAssumption
<1>3. ASSUME toc \in Layouts
      PROVE  C \in Nat /\ C >= 1
  <2>1. DecodedTable(toc)
    BY <1>3, ReaderAssumption
  <2> QED
    BY <2>1 DEF DecodedTable, C
<1> QED
  BY <1>1, <1>2, <1>3

\* What is said of a new call, said of the next state.
LEMMA NextProgress ==
    ASSUME toc' = toc, NEW m, NEW z, Progress(call', todo', written', dst', m, z)
    PROVE  Progress(call, todo, written, dst, m, z)'
  BY DEF Progress, Items, Size, C, NeededOf, First, Count, EntryAt, AssetStart, Owned, MaxOf, MinOf

LEMMA NextNeeded ==
    ASSUME toc' = toc
    PROVE  Needed' = NeededOf(call') /\ Needed = NeededOf(call)
<1>1. Needed = NeededOf(call)
  BY DEF Needed, NeededOf
<1>2. Needed' = NeededOf(call')
  BY DEF Needed, NeededOf, EntryAt, AssetStart
<1> QED
  BY <1>1, <1>2

LEMMA ScratchKept ==
    ASSUME Typing, decoded' \in {<< >>, decoded}
    PROVE  decoded' \in Seq(Bytes) /\ Len(decoded') <= C
<1>1. C \in Nat
  BY Bounds DEF Typing
<1>2. CASE decoded' = << >>
  <2>1. << >> \in Seq(Bytes) /\ Len(<< >>) = 0
    OBVIOUS
  <2> QED
    BY <1>1, <1>2, <2>1
<1>3. CASE decoded' = decoded
  BY <1>3 DEF Typing
<1> QED
  BY <1>2, <1>3

\* A call that is let in begins before the first of its chunks.
LEMMA BeginProgress ==
    ASSUME toc \in Layouts, NEW c \in Calls, c.op \in Sized,
           NEW i \in DOMAIN toc.entries, c.entry = i,
           NEW m \in 0 .. Count(i), NEW z \in 0 .. Count(i), m <= z,
           c.from + c.n <= Size(i), c.from + c.n <= z * C,
           \A l \in m .. (z - 1) : l * C < c.from + c.n,
           m < z => c.n > 0 /\ c.from < (m + 1) * C,
           c.n > 0 => m * C <= c.from,
           NEW d,
           c.op \in Direct =>
              /\ Len(d) = c.n
              /\ m < z => c.from <= m * C
              /\ c.from + c.n = z * C \/ (z = Count(i) /\ c.from + c.n = Size(i))
    PROVE  Progress(c, Items(i, m, z - 1), 0, d, m, z)
<1>1. c.from \in Nat /\ c.n \in Nat
  BY DEF Calls
<1>2. C \in Nat /\ C >= 1 /\ Count(i) \in Nat /\ First(i) \in Nat
  BY EntryFacts
<1>3. m \in Nat /\ z \in Nat /\ m * C \in Nat
  BY <1>2, Times
<1>4. c.from + 0 = MaxOf(c.from, MinOf(m * C, c.from + c.n))
  <2>1. PICK a \in Nat : a = m * C
    BY <1>3
  <2>2. PICK x \in Nat : x = c.from
    BY <1>1
  <2>3. PICK n \in Nat : n = c.n
    BY <1>1
  <2>4. n > 0 => a <= x
    BY <2>1, <2>2, <2>3
  <2>5. x + 0 = MaxOf(x, MinOf(a, x + n))
    BY <2>4 DEF MaxOf, MinOf
  <2> QED
    BY <2>1, <2>2, <2>3, <2>5
<1>5. ASSUME NEW k \in NeededOf(c) \cap c.at_start
      PROVE  k > First(i) + m
  <2>1. PICK l \in Nat : l < Count(i) /\ k = First(i) + l + 1
    BY NeededIs
  <2>2. c.n > 0 /\ c.from < l * C + Sz(i, l)
    BY <2>1, NeededIs
  <2>3. Sz(i, l) \in 1 .. C
    BY <2>1, EntryFacts
  <2>4. m * C < (l + 1) * C
    <3>1. (l + 1) * C = l * C + C /\ l * C \in Nat
      BY <1>2, Times
    <3>2. m * C <= c.from
      BY <2>2
    <3> QED
      BY <1>1, <1>2, <1>3, <2>2, <2>3, <3>1, <3>2
  <2>5. m < l + 1
    BY <1>2, <1>3, <2>4, Times
  <2> QED
    BY <1>2, <1>3, <2>1, <2>5
<1> QED
  BY <1>4, <1>5 DEF Progress

LEMMA BeginKeeps ==
    ASSUME IInv, Idle, NEW c \in Calls, c.op \in Sized, c.at_start = damaged,
           NEW i \in DOMAIN toc.entries, c.entry = i,
           NEW items, NEW n \in Nat, Begin(c, items, n), decoded' \in {<< >>, decoded},
           NEW m \in 0 .. Count(i), NEW z \in 0 .. Count(i), m <= z,
           items = Items(i, m, z - 1), z - m <= max_chunks_per_operation,
           c.from + c.n <= Size(i), c.from + c.n <= z * C,
           \A l \in m .. (z - 1) : l * C < c.from + c.n,
           m < z => c.n > 0 /\ c.from < (m + 1) * C,
           c.n > 0 => m * C <= c.from,
           c.n <= n, c.n = MinOf(c.from + c.len, Size(i)) - c.from,
           c.op \in Direct =>
              /\ n = c.n
              /\ m < z => c.from <= m * C
              /\ c.from + c.n = z * C \/ (z = Count(i) /\ c.from + c.n = Size(i))
    PROVE  IInv'
<1>1. /\ call' = c /\ todo' = items /\ dst' = Buffer(n, c.fill) /\ written' = 0
      /\ result' = "none" /\ calls' = calls + 1 /\ toc' = toc /\ damaged' = damaged
  BY DEF Begin
<1>2. /\ Typing
  BY DEF IInv
<1>3. c.from \in Nat /\ c.n \in Nat /\ c.fill \in Bytes /\ c.op \notin {"none", "verify"}
  BY DEF Calls, Sized, Direct, RangeOps
<1>4. dst' \in Seq(Bytes) /\ Len(dst') = n /\ \A j \in 1 .. n : dst'[j] = c.fill
  <2>1. PICK b \in Bytes : b = c.fill
    BY <1>3
  <2>2. dst' = Buffer(n, b)
    BY <1>1, <2>1
  <2>3. Buffer(n, b) \in Seq(Bytes) /\ Len(Buffer(n, b)) = n /\ \A j \in 1 .. n : Buffer(n, b)[j] = b
    BY BufferFacts
  <2> QED
    BY <2>1, <2>2, <2>3
<1>5. toc \in Layouts
  BY <1>2 DEF Typing
<1>6. C \in Nat /\ C >= 1 /\ Count(i) \in Nat
  BY <1>5, EntryFacts
<1>7. m \in Nat /\ z \in Nat
  BY <1>6
<1>8. items \in Seq([entry : {i}, local : Nat]) /\ Len(items) = z - m
  BY <1>7, ItemsFacts
<1>9. items \in Seq([entry : DOMAIN toc.entries, local : Nat])
  <2>1. PICK S : S = [entry : {i}, local : Nat]
    OBVIOUS
  <2>2. PICK T : T = [entry : DOMAIN toc.entries, local : Nat]
    OBVIOUS
  <2>3. S \subseteq T
    BY <2>1, <2>2
  <2>4. items \in Seq(S)
    BY <1>8, <2>1
  <2>5. items \in Seq(T)
    BY <2>3, <2>4
  <2> QED
    BY <2>2, <2>5
<1>10. Typing'
  <2>1. decoded' \in Seq(Bytes) /\ Len(decoded') <= C
    BY <1>2, ScratchKept DEF Typing
  <2>2. calls' \in 0 .. MaxCalls
    <3>1. calls \in 0 .. MaxCalls /\ calls < MaxCalls /\ MaxCalls \in Nat
      BY <1>2, Bounds DEF Typing, Idle
    <3> QED
      BY <1>1, <3>1
  <2>3. call' \in Calls /\ call'.at_start \subseteq damaged' /\ call'.op # "none"
    BY <1>1, <1>3
  <2>4. damaged' \subseteq DOMAIN toc'.chunks /\ toc' \in Layouts
    BY <1>1, <1>2 DEF Typing
  <2>5. todo' \in Seq([entry : DOMAIN toc'.entries, local : Nat])
    BY <1>1, <1>9
  <2>6. call'.entry \in DOMAIN toc'.entries
    BY <1>1
  <2>7. C' = C
    BY <1>1 DEF C
  <2>8. written' \in 0 .. Len(dst')
    BY <1>1, <1>4
  <2> QED
    BY <1>1, <1>4, <2>1, <2>2, <2>3, <2>4, <2>5, <2>6, <2>7, <2>8 DEF Typing
<1>11. LoopInv'
  <2>1. Progress(c, Items(i, m, z - 1), 0, dst', m, z)
    BY <1>4, <1>5, BeginProgress
  <2>2. Progress(call, todo, written, dst, m, z)'
    BY <1>1, <2>1, NextProgress
  <2>3. m \in 0 .. Count(call.entry)' /\ z \in 0 .. Count(call.entry)'
    BY <1>1 DEF Count, EntryAt
  <2> QED
    BY <2>2, <2>3 DEF LoopInv
<1>12. VerifyInv'
  BY <1>1, <1>3 DEF VerifyInv
<1>13. OutputInv'
  BY <1>1, <1>4 DEF OutputInv
<1>14. AnswerInv'
  <2>1. Clipped' = MinOf(c.from + c.len, Size(i)) - c.from
    BY <1>1 DEF Clipped, Size, EntryAt, MinOf
  <2> QED
    BY <1>1, <1>4, <2>1 DEF AnswerInv
<1>15. DamageIsLocal' /\ SoundTableNeverBlamed'
  BY <1>1 DEF DamageIsLocal, SoundTableNeverBlamed
<1>16. ChunkBudget'
  BY <1>1, <1>8 DEF ChunkBudget
<1> QED
  BY <1>10, <1>11, <1>12, <1>13, <1>14, <1>15, <1>16 DEF IInv

LEMMA RefuseKeeps ==
    ASSUME IInv, Idle, NEW c \in Calls, c.op # "none", c.at_start = damaged,
           c.op \in Sized => c.entry \in DOMAIN toc.entries,
           c.op = "verify" => c.n = 0,
           NEW error, NEW n \in Nat, Refuse(c, error, n), decoded' \in {<< >>, decoded},
           error \in {"TooManyChunks", "BufferSizeMismatch", "ChunkOutOfRange", "InvalidRange",
                      "TooLarge"}
    PROVE  IInv'
<1>1. /\ call' = c /\ todo' = << >> /\ dst' = Buffer(n, c.fill) /\ written' = 0
      /\ result' = error /\ calls' = calls + 1 /\ toc' = toc /\ damaged' = damaged
  BY DEF Refuse
<1>2. Typing
  BY DEF IInv
<1>3. c.fill \in Bytes /\ result' \notin {"none", "Ok", "Damage", "Corrupt"} /\ result' \in Errors
  BY <1>1 DEF Calls, Errors
<1>4. dst' \in Seq(Bytes) /\ Len(dst') = n /\ \A j \in 1 .. n : dst'[j] = c.fill
  <2>1. PICK b \in Bytes : b = c.fill
    BY <1>3
  <2>2. dst' = Buffer(n, b)
    BY <1>1, <2>1
  <2>3. Buffer(n, b) \in Seq(Bytes) /\ Len(Buffer(n, b)) = n /\ \A j \in 1 .. n : Buffer(n, b)[j] = b
    BY BufferFacts
  <2> QED
    BY <2>1, <2>2, <2>3
<1>5. Typing'
  <2>1. decoded' \in Seq(Bytes) /\ Len(decoded') <= C
    BY <1>2, ScratchKept DEF Typing
  <2>2. calls' \in 0 .. MaxCalls
    <3>1. calls \in 0 .. MaxCalls /\ calls < MaxCalls /\ MaxCalls \in Nat
      BY <1>2, Bounds DEF Typing, Idle
    <3> QED
      BY <1>1, <3>1
  <2>3. call' \in Calls /\ call'.at_start \subseteq damaged' /\ call'.op # "none"
    BY <1>1
  <2>4. damaged' \subseteq DOMAIN toc'.chunks /\ toc' \in Layouts
    BY <1>1, <1>2 DEF Typing
  <2>5. todo' \in Seq([entry : DOMAIN toc'.entries, local : Nat])
    BY <1>1
  <2>6. call'.op \in Sized => call'.entry \in DOMAIN toc'.entries
    BY <1>1
  <2>7. C' = C
    BY <1>1 DEF C
  <2>8. written' \in 0 .. Len(dst')
    BY <1>1, <1>4
  <2> QED
    BY <1>1, <1>3, <1>4, <2>1, <2>2, <2>3, <2>4, <2>5, <2>6, <2>7, <2>8 DEF Typing
<1>6. LoopInv' /\ AnswerInv'
  BY <1>3 DEF LoopInv, AnswerInv
<1>7. VerifyInv'
  BY <1>1, <1>3 DEF VerifyInv
<1>8. OutputInv'
  BY <1>1, <1>4 DEF OutputInv
<1>9. DamageIsLocal' /\ SoundTableNeverBlamed'
  BY <1>3 DEF DamageIsLocal, SoundTableNeverBlamed
<1>10. ChunkBudget'
  <2>1. Len(todo') = 0
    BY <1>1
  <2> QED
    BY <2>1, ReaderAssumption DEF ChunkBudget
<1> QED
  BY <1>5, <1>6, <1>7, <1>8, <1>9, <1>10 DEF IInv

-----------------------------------------------------------------------------
(* The methods up to their loops.                                          *)

LEMMA DamagedNumbers ==
    ASSUME Typing
    PROVE  damaged \in SUBSET Nat
<1>1. PICK s : s = toc.chunks
  OBVIOUS
<1>2. PICK E : s \in Seq(E)
  BY <1>1, ReaderAssumption DEF Typing, DecodedTable
<1>3. DOMAIN s \subseteq Nat
  BY <1>2
<1> QED
  BY <1>1, <1>3 DEF Typing

\* A read of a whole entry.
LEMMA BeginWhole ==
    ASSUME IInv, Idle, NEW c \in Calls, c.op \in {"read", "read_into"}, c.at_start = damaged,
           NEW i \in DOMAIN toc.entries, c.entry = i, NEW n, n = Size(i),
           c.from = 0, c.len = n, c.n = n,
           Begin(c, AllOf(i), n), decoded' \in {<< >>, decoded},
           WithinLimit(EntryAt(i).chunk_count)
    PROVE  IInv'
<1>1. toc \in Layouts
  BY DEF IInv, Typing
<1>2. PICK z \in Nat : z = Count(i)
  BY <1>1, EntryFacts
<1>3. n \in Nat /\ C \in Nat /\ C >= 1 /\ n <= z * C
  BY <1>1, <1>2, EntryFacts
<1>4. \A l \in Nat : l < z => l * C < n
  BY <1>1, <1>2, EntryFacts
<1>5. PICK m \in Nat : m = 0 /\ m * C = 0 /\ (m + 1) * C = C
  <2>1. 0 * C = 0 /\ (0 + 1) * C = C
    BY <1>3
  <2> QED
    BY <2>1
<1>6. m \in 0 .. Count(i) /\ z \in 0 .. Count(i) /\ m <= z
  BY <1>2, <1>5
<1>7. AllOf(i) = Items(i, m, z - 1)
  BY <1>2, <1>5 DEF AllOf, Count
<1>8. z - m <= max_chunks_per_operation
  <2>1. z <= max_chunks_per_operation
    BY <1>2 DEF WithinLimit, Count
  <2> QED
    BY <1>5, <2>1
<1>9. c.op \in Sized /\ c.op \in Direct
  BY DEF Sized, Direct
<1>10. c.from + c.n = n
  BY <1>3
<1>11. c.from + c.n <= Size(i) /\ c.from + c.n <= z * C
  BY <1>3, <1>10
<1>12. \A l \in m .. (z - 1) : l * C < c.from + c.n
  <2>1. \A l \in m .. (z - 1) : l \in Nat /\ l < z
    BY <1>2, <1>5
  <2> QED
    BY <1>4, <1>10, <2>1
<1>13. m < z => c.n > 0 /\ c.from < (m + 1) * C
  <2>1. m < z => m * C < n
    BY <1>4
  <2> QED
    BY <1>3, <1>5, <2>1
<1>14. c.n > 0 => m * C <= c.from
  BY <1>5
<1>15. c.n <= n /\ c.n = MinOf(c.from + c.len, Size(i)) - c.from
  <2>1. n = MinOf(0 + n, n) - 0 /\ n <= n
    BY <1>3 DEF MinOf
  <2> QED
    BY <2>1
<1>16. /\ n = c.n
       /\ m < z => c.from <= m * C
       /\ c.from + c.n = z * C \/ (z = Count(i) /\ c.from + c.n = Size(i))
  BY <1>2, <1>5, <1>10
<1>17. n \in Nat
  BY <1>3
<1> QED
  BY <1>6, <1>7, <1>8, <1>9, <1>11, <1>12, <1>13, <1>14, <1>15, <1>16, <1>17, BeginKeeps

\* A read of chunk l.
LEMMA BeginChunk ==
    ASSUME IInv, Idle, NEW c \in Calls, c.op \in {"read_chunk", "read_chunk_into"},
           c.at_start = damaged, NEW i \in DOMAIN toc.entries, c.entry = i,
           NEW l \in Nat, l < Count(i), NEW n, n = Sz(i, l),
           c.from = l * C, c.len = n, c.n = n,
           Begin(c, <<[entry |-> i, local |-> l]>>, n), decoded' \in {<< >>, decoded},
           WithinLimit(1)
    PROVE  IInv'
<1>1. toc \in Layouts
  BY DEF IInv, Typing
<1>2. PICK z \in Nat : z = l + 1
  OBVIOUS
<1>3. PICK a \in Nat : a = l * C /\ z * C = a + C
  BY <1>1, <1>2, Bounds, Times
<1>4. /\ n \in 1 .. C /\ C \in Nat /\ Size(i) \in Nat /\ Count(i) \in Nat
      /\ l + 1 < Count(i) => n = C /\ a + C < Size(i)
      /\ l + 1 = Count(i) => a + n = Size(i)
  BY <1>1, <1>3, EntryFacts
<1>5. l + 1 < Count(i) \/ l + 1 = Count(i)
  BY <1>4
<1>6. l \in 0 .. Count(i) /\ z \in 0 .. Count(i) /\ l <= z /\ l < z /\ z - l = 1
  BY <1>2, <1>4
<1>7. <<[entry |-> i, local |-> l]>> = Items(i, l, z - 1)
  <2>1. 1 .. (z - 1 + 1 - l) = 1 .. 1 /\ l + 1 - 1 = l
    BY <1>2
  <2>2. Items(i, l, z - 1) = [j \in 1 .. 1 |-> [entry |-> i, local |-> l + j - 1]]
    BY <2>1 DEF Items
  <2> QED
    BY <2>1, <2>2
<1>8. z - l <= max_chunks_per_operation
  BY <1>6 DEF WithinLimit
<1>9. c.op \in Sized /\ c.op \in Direct
  BY DEF Sized, Direct
<1>10. a + n <= Size(i) /\ a + n <= a + C /\ a < a + n
  BY <1>4, <1>5
<1>11. c.from + c.n <= Size(i) /\ c.from + c.n <= z * C
  BY <1>3, <1>10
<1>12. \A k \in l .. (z - 1) : k * C < c.from + c.n
  <2>1. \A k \in l .. (z - 1) : k = l
    BY <1>2
  <2> QED
    BY <1>3, <1>10, <2>1
<1>13. l < z => c.n > 0 /\ c.from < (l + 1) * C
  <2>1. (l + 1) * C = a + C /\ c.from = a /\ c.n = n
    BY <1>2, <1>3
  <2>2. n > 0 /\ a < a + C
    BY <1>4
  <2> QED
    BY <2>1, <2>2
<1>14. c.n > 0 => l * C <= c.from
  BY <1>3
<1>15. c.n <= n /\ c.n = MinOf(c.from + c.len, Size(i)) - c.from /\ n \in Nat
  <2>1. c.from = a /\ c.len = n /\ c.n = n
    BY <1>3
  <2>2. n \in Nat /\ Size(i) \in Nat
    BY <1>4
  <2>3. n = MinOf(a + n, Size(i)) - a
    BY <1>10, <2>2 DEF MinOf
  <2> QED
    BY <2>1, <2>2, <2>3
<1>16. /\ n = c.n
       /\ l < z => c.from <= l * C
       /\ c.from + c.n = z * C \/ (z = Count(i) /\ c.from + c.n = Size(i))
  BY <1>2, <1>3, <1>4, <1>5
<1> QED
  BY <1>6, <1>7, <1>8, <1>9, <1>11, <1>12, <1>13, <1>14, <1>15, <1>16, BeginKeeps

\* range_len answers with the clipped length, and only if the budget allows it.
LEMMA RangeLenFacts ==
    ASSUME toc \in Layouts, NEW i \in DOMAIN toc.entries, NEW x \in Nat, NEW len \in Nat,
           NEW exact \in BOOLEAN, NEW r, r = RangeLen(i, x, len, exact)
    PROVE  /\ r.error \in {"none", "InvalidRange", "TooManyChunks"}
           /\ r.n \in Nat
           /\ r.error = "none" =>
                 /\ r.n = MinOf(x + len, Size(i)) - x /\ r.n <= len /\ x + r.n <= Size(i)
                 /\ r.n > 0 => WithinLimit(LastLocal(x + r.n) - FirstLocal(x) + 1)
<1>1. PICK size \in Nat : size = Size(i) /\ size = EntryAt(i).original_size
  BY EntryFacts DEF Size
<1>2. PICK end : end = MinOf(x + len, size)
  OBVIOUS
<1>3. PICK fits : fits = WithinLimit(LastLocal(end) - FirstLocal(x) + 1)
  OBVIOUS
<1>4. r = IF x > size \/ (x = size /\ len > 0 /\ exact) THEN [error |-> "InvalidRange", n |-> 0]
          ELSE IF len = 0 \/ x = size THEN [error |-> "none", n |-> 0]
          ELSE IF x + len > U64_MAX THEN [error |-> "InvalidRange", n |-> 0]
          ELSE IF exact /\ x + len > size THEN [error |-> "InvalidRange", n |-> 0]
          ELSE IF fits THEN [error |-> "none", n |-> end - x]
          ELSE [error |-> "TooManyChunks", n |-> 0]
  BY <1>1, <1>2, <1>3 DEF RangeLen
<1>5. CASE r = [error |-> "InvalidRange", n |-> 0] \/ r = [error |-> "TooManyChunks", n |-> 0]
  BY <1>5
<1>6. CASE r = [error |-> "none", n |-> 0] /\ x <= size /\ (len = 0 \/ x = size)
  <2>1. 0 = MinOf(x + len, size) - x /\ 0 <= len /\ x + 0 <= size
    BY <1>6 DEF MinOf
  <2>2. r.error = "none" /\ r.n = 0
    BY <1>6
  <2> QED
    BY <1>1, <2>1, <2>2
<1>7. CASE r = [error |-> "none", n |-> end - x] /\ x < size /\ fits
  <2>1. end \in Nat /\ end - x \in Nat /\ end - x <= len /\ x + (end - x) = end /\ end <= size
    BY <1>2, <1>7 DEF MinOf
  <2>2. r.error = "none" /\ r.n = end - x
    BY <1>7
  <2> QED
    BY <1>1, <1>2, <1>3, <1>7, <2>1, <2>2
<1>8. x > size \/ x = size \/ x < size
  OBVIOUS
<1> QED
  BY <1>4, <1>5, <1>6, <1>7, <1>8

\* A read of a range.
LEMMA BeginRange ==
    ASSUME IInv, Idle, NEW c \in Calls, c.op \in RangeOps, c.at_start = damaged,
           NEW i \in DOMAIN toc.entries, c.entry = i, NEW x \in Nat, c.from = x,
           NEW n \in Nat, c.n = n, NEW b \in Nat, n <= b,
           n = MinOf(x + c.len, Size(i)) - x, x + n <= Size(i),
           n > 0 => WithinLimit(LastLocal(x + n) - FirstLocal(x) + 1),
           Begin(c, RangeItems(i, x, n), b), decoded' \in {<< >>, decoded}
    PROVE  IInv'
<1>1. toc \in Layouts
  BY DEF IInv, Typing
<1>2. c.op \in Sized /\ c.op \notin Direct
  BY DEF Sized, Direct, RangeOps
<1>3. PICK d \in Nat : d = C /\ d >= 1
  BY <1>1, Bounds
<1>4. PICK q \in Nat : q = Count(i) /\ Size(i) <= q * d
  BY <1>1, <1>3, EntryFacts
<1>5. Size(i) \in Nat /\ q * d \in Nat
  BY <1>1, <1>3, EntryFacts, Times
<1>6. CASE n = 0
  <2>1. RangeItems(i, x, n) = Items(i, q, q - 1)
    <3>1. Items(i, q, q - 1) = << >>
      <4>1. q <= q /\ q = q
        OBVIOUS
      <4> QED
        BY <4>1, ItemsFacts
    <3> QED
      BY <1>6, <3>1 DEF RangeItems
  <2>2. q - q <= max_chunks_per_operation /\ q \in 0 .. Count(i) /\ q <= q /\ ~(q < q)
    BY <1>4, Bounds
  <2>3. \A l \in q .. (q - 1) : l * C < c.from + c.n
    OBVIOUS
  <2>4. c.from + c.n <= Size(i) /\ c.from + c.n <= q * C /\ ~(c.n > 0) /\ c.n <= b
    BY <1>3, <1>4, <1>5, <1>6
  <2>5. c.n = MinOf(c.from + c.len, Size(i)) - c.from
    OBVIOUS
  <2> QED
    BY <1>2, <2>1, <2>2, <2>3, <2>4, <2>5, BeginKeeps
<1>7. CASE n > 0
  <2>1. PICK m \in Nat : m = FirstLocal(x) /\ m * d <= x /\ x < (m + 1) * d
    BY <1>3, Quotient DEF FirstLocal, C
  <2>2. PICK y \in Nat : y = x + n - 1 /\ x <= y /\ y < x + n /\ y < Size(i)
    BY <1>5, <1>7
  <2>3. PICK p \in Nat : p = LastLocal(x + n) /\ p * d <= y /\ y < (p + 1) * d
    <3>1. LastLocal(x + n) = y \div d
      BY <1>3, <2>2 DEF LastLocal, C
    <3>2. PICK p : p = y \div d
      OBVIOUS
    <3>3. p \in Nat /\ p * d <= y /\ y < (p + 1) * d
      BY <1>3, <3>2, Quotient
    <3> QED
      BY <3>1, <3>2, <3>3
  <2>4. /\ m * d \in Nat /\ p * d \in Nat /\ (m + 1) * d = m * d + d /\ (p + 1) * d = p * d + d
    BY Times
  <2>5. m < p + 1
    <3>1. m * d < (p + 1) * d
      <4>1. PICK u \in Nat : u = m * d /\ u <= x
        BY <2>1, <2>4
      <4>2. PICK v \in Nat : v = (p + 1) * d /\ y < v
        BY <2>3, <2>4
      <4>3. u < v
        BY <2>2, <4>1, <4>2
      <4> QED
        BY <4>1, <4>2, <4>3
    <3> QED
      BY <1>3, <3>1, Times
  <2>6. p < q
    <3>1. p * d < q * d
      <4>1. PICK u \in Nat : u = p * d /\ u <= y
        BY <2>3, <2>4
      <4>2. PICK v \in Nat : v = q * d /\ Size(i) <= v
        BY <1>4, <1>5
      <4>3. u < v
        BY <1>5, <2>2, <4>1, <4>2
      <4> QED
        BY <4>1, <4>2, <4>3
    <3> QED
      BY <1>3, <3>1, Times
  <2>7. ASSUME NEW l \in m .. (p + 1 - 1)
        PROVE  l * d < x + n
    <3>1. l \in Nat /\ l <= p
      BY <2>3
    <3>2. l * d \in Nat /\ l * d <= p * d
      BY <3>1, Times
    <3> QED
      BY <2>2, <2>3, <2>4, <3>2
  <2>8. PICK z \in Nat : z = p + 1
    OBVIOUS
  <2>9. m \in 0 .. Count(i) /\ z \in 0 .. Count(i) /\ m <= z
    BY <1>4, <2>5, <2>6, <2>8
  <2>10. z - m <= max_chunks_per_operation
    BY <1>7, <2>1, <2>3, <2>8 DEF WithinLimit
  <2>11. RangeItems(i, x, n) = Items(i, m, z - 1)
    <3>1. z - 1 = p /\ n # 0
      BY <1>7, <2>8
    <3> QED
      BY <2>1, <2>3, <3>1 DEF RangeItems
  <2>12. c.from + c.n <= Size(i) /\ c.from + c.n <= z * C /\ c.n <= b
    <3>1. PICK u \in Nat : u = z * C /\ y < u
      BY <1>3, <2>3, <2>4, <2>8
    <3>2. x + n <= u
      BY <2>2, <3>1
    <3> QED
      BY <3>1, <3>2
  <2>13. \A l \in m .. (z - 1) : l * C < c.from + c.n
    BY <1>3, <2>7, <2>8
  <2>14. c.n > 0 /\ c.from < (m + 1) * C /\ m * C <= c.from
    BY <1>3, <1>7, <2>1
  <2>15. c.n = MinOf(c.from + c.len, Size(i)) - c.from
    OBVIOUS
  <2> QED
    BY <1>2, <2>9, <2>10, <2>11, <2>12, <2>13, <2>14, <2>15, BeginKeeps
<1> QED
  BY <1>6, <1>7

LEMMA Literals ==
    /\ "read" \in Sized \cup {"verify"} /\ "read_into" \in Sized \cup {"verify"}
    /\ "read_chunk" \in Sized \cup {"verify"} /\ "read_chunk_into" \in Sized \cup {"verify"}
    /\ "read_range" \in Sized \cup {"verify"} /\ "read_range_into" \in Sized \cup {"verify"}
    /\ "verify" \in Sized \cup {"verify"}
    /\ Zero \in Bytes /\ Caller \in Bytes /\ 0 \in Nat /\ 1 \in Nat
    /\ TRUE \in BOOLEAN /\ FALSE \in BOOLEAN
  BY ByteFacts DEF Sized, Direct, RangeOps

LEMMA ReadKeeps ==
    ASSUME IInv, NEW i \in DOMAIN toc.entries, Read(i)
    PROVE  IInv'
<1>1. Typing /\ toc \in Layouts /\ i \in Nat
  BY EntryFacts DEF IInv, Typing
<1>2. PICK n \in Nat : n = Size(i) /\ n = EntryAt(i).original_size
  BY <1>1, EntryFacts DEF Size
<1>3. PICK c : c = Request("read", i, 0, n, TRUE, n, Zero)
  OBVIOUS
<1>4. /\ c \in Calls /\ c.op = "read" /\ c.entry = i /\ c.from = 0 /\ c.len = n /\ c.n = n
      /\ c.at_start = damaged /\ c.op # "none"
  BY <1>1, <1>3, Literals, DamagedNumbers DEF Request, Calls
<1>5. /\ Idle /\ decoded' \in {<< >>, decoded}
      /\ \/ WithinLimit(EntryAt(i).chunk_count) /\ Begin(c, AllOf(i), n)
         \/ Refuse(c, "TooManyChunks", 0)
         \/ Refuse(c, "TooLarge", 0)
  BY <1>2, <1>3 DEF Read, FreshScratch, Allocate
<1>6. CASE WithinLimit(EntryAt(i).chunk_count) /\ Begin(c, AllOf(i), n)
  BY <1>2, <1>4, <1>5, <1>6, BeginWhole
<1>7. CASE Refuse(c, "TooManyChunks", 0)
  BY <1>4, <1>5, <1>7, RefuseKeeps
<1>8. CASE Refuse(c, "TooLarge", 0)
  BY <1>4, <1>5, <1>8, RefuseKeeps
<1> QED
  BY <1>5, <1>6, <1>7, <1>8

LEMMA ReadIntoKeeps ==
    ASSUME IInv, NEW i \in DOMAIN toc.entries, NEW len \in Lens, ReadInto(i, len)
    PROVE  IInv'
<1>1. Typing /\ toc \in Layouts /\ len \in Nat /\ i \in Nat
  BY Bounds, EntryFacts DEF IInv, Typing
<1>2. PICK c : c = Request("read_into", i, 0, len, TRUE, len, Caller)
  OBVIOUS
<1>3. /\ c \in Calls /\ c.op = "read_into" /\ c.entry = i /\ c.from = 0 /\ c.len = len /\ c.n = len
      /\ c.at_start = damaged /\ c.op # "none"
  BY <1>1, <1>2, Literals, DamagedNumbers DEF Request, Calls
<1>4. /\ Idle /\ decoded' \in {<< >>, decoded}
      /\ \/ /\ WithinLimit(EntryAt(i).chunk_count) /\ len = Size(i)
            /\ Begin(c, AllOf(i), len)
         \/ Refuse(c, "TooManyChunks", len)
         \/ Refuse(c, "BufferSizeMismatch", len)
  BY <1>2 DEF ReadInto, CallersScratch, Size
<1>5. CASE WithinLimit(EntryAt(i).chunk_count) /\ len = Size(i) /\ Begin(c, AllOf(i), len)
  BY <1>3, <1>4, <1>5, BeginWhole
<1>6. CASE Refuse(c, "TooManyChunks", len)
  BY <1>1, <1>3, <1>4, <1>6, RefuseKeeps
<1>7. CASE Refuse(c, "BufferSizeMismatch", len)
  BY <1>1, <1>3, <1>4, <1>7, RefuseKeeps
<1> QED
  BY <1>4, <1>5, <1>6, <1>7

LEMMA ReadChunkKeeps ==
    ASSUME IInv, NEW i \in DOMAIN toc.entries, NEW k \in Lens, ReadChunk(i, k)
    PROVE  IInv'
<1>1. Typing /\ toc \in Layouts /\ k \in Nat /\ i \in Nat /\ Count(i) \in Nat
  BY Bounds, EntryFacts DEF IInv, Typing
<1>2. Idle /\ decoded' \in {<< >>, decoded} /\ Count(i) = EntryAt(i).chunk_count
  BY DEF ReadChunk, FreshScratch, Count
<1>3. CASE k >= Count(i)
  <2>1. PICK c : c = Request("read_chunk", i, 0, 0, TRUE, 0, Zero)
    OBVIOUS
  <2>2. /\ c \in Calls /\ c.op = "read_chunk" /\ c.entry = i
        /\ c.at_start = damaged /\ c.op # "none"
    BY <1>1, <2>1, Literals, DamagedNumbers DEF Request, Calls
  <2>3. Refuse(c, "ChunkOutOfRange", 0)
    BY <1>2, <1>3, <2>1 DEF ReadChunk
  <2> QED
    BY <1>2, <2>2, <2>3, RefuseKeeps
<1>4. CASE ~(k >= Count(i))
  <2>1. k < Count(i)
    BY <1>1, <1>4
  <2>2. PICK x : x = [entry |-> i, local |-> k]
    OBVIOUS
  <2>3. PICK n \in Nat : n = Sz(i, k) /\ n = ChunkOf(x).original_size
    <3>1. ChunkOf(x).original_size = Sz(i, k)
      BY <1>1, <2>1, <2>2, ItemFacts
    <3>2. Sz(i, k) \in 1 .. C /\ C \in Nat
      BY <1>1, <2>1, EntryFacts
    <3> QED
      BY <3>1, <3>2
  <2>4. PICK a \in Nat : a = k * C /\ a = AssetStart(x)
    BY <1>1, <2>1, <2>2, Bounds, Times, EntryFacts
  <2>5. PICK c : c = Request("read_chunk", i, a, n, TRUE, n, Zero)
    OBVIOUS
  <2>6. /\ c \in Calls /\ c.op = "read_chunk" /\ c.entry = i /\ c.from = a /\ c.len = n /\ c.n = n
        /\ c.at_start = damaged /\ c.op # "none"
    BY <1>1, <2>5, Literals, DamagedNumbers DEF Request, Calls
  <2>7. \/ WithinLimit(1) /\ Begin(c, <<x>>, n)
        \/ Refuse(c, "TooManyChunks", 0)
        \/ Refuse(c, "TooLarge", 0)
    BY <1>2, <1>4, <2>2, <2>3, <2>4, <2>5 DEF ReadChunk, Allocate
  <2>8. CASE WithinLimit(1) /\ Begin(c, <<x>>, n)
    <3>1. Begin(c, <<[entry |-> i, local |-> k]>>, n)
      BY <2>2, <2>8
    <3> QED
      BY <1>1, <1>2, <2>1, <2>3, <2>4, <2>6, <2>8, <3>1, BeginChunk
  <2>9. CASE Refuse(c, "TooManyChunks", 0)
    BY <1>2, <2>6, <2>9, RefuseKeeps
  <2>10. CASE Refuse(c, "TooLarge", 0)
    BY <1>2, <2>6, <2>10, RefuseKeeps
  <2> QED
    BY <2>7, <2>8, <2>9, <2>10
<1> QED
  BY <1>3, <1>4

LEMMA ReadChunkIntoKeeps ==
    ASSUME IInv, NEW i \in DOMAIN toc.entries, NEW k \in Lens, NEW len \in Lens,
           ReadChunkInto(i, k, len)
    PROVE  IInv'
<1>1. /\ Typing /\ toc \in Layouts /\ k \in Nat /\ len \in Nat
      /\ i \in Nat /\ Count(i) \in Nat
  BY Bounds, EntryFacts DEF IInv, Typing
<1>2. Idle /\ decoded' \in {<< >>, decoded} /\ Count(i) = EntryAt(i).chunk_count
  BY DEF ReadChunkInto, CallersScratch, Count
<1>3. ASSUME NEW error \in {"ChunkOutOfRange", "TooManyChunks", "BufferSizeMismatch"},
             Refuse(Request("read_chunk_into", i, 0, len, TRUE, len, Caller), error, len)
      PROVE  IInv'
  <2>1. PICK c : c = Request("read_chunk_into", i, 0, len, TRUE, len, Caller)
    OBVIOUS
  <2>2. /\ c \in Calls /\ c.op = "read_chunk_into" /\ c.entry = i
        /\ c.at_start = damaged /\ c.op # "none"
    BY <1>1, <2>1, Literals, DamagedNumbers DEF Request, Calls
  <2>3. Refuse(c, error, len)
    BY <1>3, <2>1
  <2> QED
    BY <1>1, <1>2, <2>2, <2>3, RefuseKeeps
<1>4. PICK x : x = [entry |-> i, local |-> k]
  OBVIOUS
<1>5. \/ \E error \in {"ChunkOutOfRange", "TooManyChunks", "BufferSizeMismatch"} :
            Refuse(Request("read_chunk_into", i, 0, len, TRUE, len, Caller), error, len)
      \/ /\ ~(k >= Count(i)) /\ WithinLimit(1) /\ len = ChunkOf(x).original_size
         /\ Begin(Request("read_chunk_into", i, AssetStart(x), len, TRUE, len, Caller), <<x>>, len)
  BY <1>2, <1>4 DEF ReadChunkInto
<1>6. CASE /\ ~(k >= Count(i)) /\ WithinLimit(1) /\ len = ChunkOf(x).original_size
           /\ Begin(Request("read_chunk_into", i, AssetStart(x), len, TRUE, len, Caller), <<x>>, len)
  <2>1. k < Count(i)
    BY <1>1, <1>6
  <2>2. len = Sz(i, k)
    BY <1>1, <1>4, <1>6, <2>1, ItemFacts
  <2>3. PICK a \in Nat : a = k * C /\ a = AssetStart(x)
    BY <1>1, <1>4, <2>1, Bounds, Times, EntryFacts
  <2>4. PICK c : c = Request("read_chunk_into", i, a, len, TRUE, len, Caller)
    OBVIOUS
  <2>5. /\ c \in Calls /\ c.op = "read_chunk_into" /\ c.entry = i /\ c.from = a
        /\ c.len = len /\ c.n = len
        /\ c.at_start = damaged /\ c.op # "none"
    BY <1>1, <2>4, Literals, DamagedNumbers DEF Request, Calls
  <2>6. Begin(c, <<[entry |-> i, local |-> k]>>, len)
    BY <1>4, <1>6, <2>3, <2>4
  <2> QED
    BY <1>1, <1>2, <1>6, <2>1, <2>2, <2>3, <2>5, <2>6, BeginChunk
<1> QED
  BY <1>3, <1>5, <1>6

LEMMA ReadRangeKeeps ==
    ASSUME IInv, NEW i \in DOMAIN toc.entries, NEW x \in Offsets, NEW len \in Lens,
           NEW exact \in BOOLEAN, ReadRange(i, x, len, exact)
    PROVE  IInv'
<1>1. Typing /\ toc \in Layouts /\ x \in Nat /\ len \in Nat /\ i \in Nat
  BY Bounds, EntryFacts DEF IInv, Typing
<1>2. PICK r : r = RangeLen(i, x, len, exact)
  OBVIOUS
<1>3. /\ r.error \in {"none", "InvalidRange", "TooManyChunks"} /\ r.n \in Nat
      /\ r.error = "none" =>
            /\ r.n = MinOf(x + len, Size(i)) - x /\ r.n <= len /\ x + r.n <= Size(i)
            /\ r.n > 0 => WithinLimit(LastLocal(x + r.n) - FirstLocal(x) + 1)
  BY <1>1, <1>2, RangeLenFacts
<1>4. PICK n \in Nat : n = r.n
  BY <1>3
<1>5. PICK c : c = Request("read_range", i, x, len, exact, n, Zero)
  OBVIOUS
<1>6. /\ c \in Calls /\ c.op = "read_range" /\ c.entry = i /\ c.from = x /\ c.len = len /\ c.n = n
      /\ c.at_start = damaged /\ c.op # "none"
  BY <1>1, <1>5, Literals, DamagedNumbers DEF Request, Calls
<1>7. /\ Idle /\ decoded' \in {<< >>, decoded}
      /\ \/ r.error = "none" /\ Begin(c, RangeItems(i, x, n), n)
         \/ r.error # "none" /\ Refuse(c, r.error, 0)
         \/ Refuse(c, "TooLarge", 0)
  BY <1>2, <1>4, <1>5 DEF ReadRange, FreshScratch, Allocate
<1>8. CASE r.error = "none" /\ Begin(c, RangeItems(i, x, n), n)
  <2>1. /\ n = MinOf(x + c.len, Size(i)) - x /\ x + n <= Size(i) /\ n <= n
        /\ n > 0 => WithinLimit(LastLocal(x + n) - FirstLocal(x) + 1)
    BY <1>3, <1>4, <1>6, <1>8
  <2>2. Begin(c, RangeItems(i, x, n), n) /\ c.op \in RangeOps
    BY <1>6, <1>7, <1>8 DEF RangeOps
  <2> QED
    BY <1>1, <1>6, <1>7, <2>1, <2>2, BeginRange
<1>9. CASE r.error # "none" /\ Refuse(c, r.error, 0)
  BY <1>3, <1>6, <1>7, <1>9, RefuseKeeps
<1>10. CASE Refuse(c, "TooLarge", 0)
  BY <1>6, <1>7, <1>10, RefuseKeeps
<1> QED
  BY <1>7, <1>8, <1>9, <1>10

LEMMA ReadRangeIntoKeeps ==
    ASSUME IInv, NEW i \in DOMAIN toc.entries, NEW x \in Offsets, NEW len \in Lens,
           ReadRangeInto(i, x, len)
    PROVE  IInv'
<1>1. Typing /\ toc \in Layouts /\ x \in Nat /\ len \in Nat /\ i \in Nat
  BY Bounds, EntryFacts DEF IInv, Typing
<1>2. PICK r : r = RangeLen(i, x, len, FALSE)
  OBVIOUS
<1>3. /\ r.error \in {"none", "InvalidRange", "TooManyChunks"} /\ r.n \in Nat
      /\ r.error = "none" =>
            /\ r.n = MinOf(x + len, Size(i)) - x /\ r.n <= len /\ x + r.n <= Size(i)
            /\ r.n > 0 => WithinLimit(LastLocal(x + r.n) - FirstLocal(x) + 1)
  BY <1>1, <1>2, RangeLenFacts
<1>4. PICK n \in Nat : n = r.n
  BY <1>3
<1>5. PICK c : c = Request("read_range_into", i, x, len, FALSE, n, Caller)
  OBVIOUS
<1>6. /\ c \in Calls /\ c.op = "read_range_into" /\ c.entry = i /\ c.from = x /\ c.len = len
      /\ c.n = n /\ c.at_start = damaged /\ c.op # "none"
  BY <1>1, <1>5, Literals, DamagedNumbers DEF Request, Calls
<1>7. /\ Idle /\ decoded' \in {<< >>, decoded}
      /\ IF r.error = "none" THEN Begin(c, RangeItems(i, x, n), len) ELSE Refuse(c, r.error, len)
  BY <1>2, <1>4, <1>5 DEF ReadRangeInto, CallersScratch
<1>8. CASE r.error = "none"
  <2>1. /\ n = MinOf(x + c.len, Size(i)) - x /\ x + n <= Size(i) /\ n <= len
        /\ n > 0 => WithinLimit(LastLocal(x + n) - FirstLocal(x) + 1)
    BY <1>3, <1>4, <1>6, <1>8
  <2>2. Begin(c, RangeItems(i, x, n), len) /\ c.op \in RangeOps
    BY <1>6, <1>7, <1>8 DEF RangeOps
  <2> QED
    BY <1>1, <1>6, <1>7, <2>1, <2>2, BeginRange
<1>9. CASE r.error # "none"
  BY <1>1, <1>3, <1>6, <1>7, <1>9, RefuseKeeps
<1> QED
  BY <1>8, <1>9

LEMMA VerifyKeeps ==
    ASSUME IInv, Verify
    PROVE  IInv'
<1>1. Typing /\ toc \in Layouts
  BY DEF IInv, Typing
<1>2. PICK c : c = Request("verify", 1, 0, 0, TRUE, 0, Zero)
  OBVIOUS
<1>3. /\ c \in Calls /\ c.op = "verify" /\ c.n = 0 /\ c.fill = Zero
      /\ c.at_start = damaged /\ c.op # "none"
  BY <1>1, <1>2, Literals, DamagedNumbers DEF Request, Calls
<1>4. c.op \notin Sized /\ c.op \notin Direct /\ c.op \notin RangeOps
  BY <1>3 DEF Sized, Direct, RangeOps
<1>5. PICK s : s = FlattenSeq([i \in DOMAIN toc.entries |-> AllOf(i)])
  OBVIOUS
<1>6. /\ Idle /\ decoded' \in {<< >>, decoded}
      /\ \/ WithinLimit(Len(toc.chunks)) /\ Begin(c, s, 0)
         \/ Refuse(c, "TooManyChunks", 0)
  BY <1>2, <1>5 DEF Verify, FreshScratch
<1>7. CASE Refuse(c, "TooManyChunks", 0)
  BY <1>3, <1>4, <1>6, <1>7, Literals, RefuseKeeps
<1>8. CASE WithinLimit(Len(toc.chunks)) /\ Begin(c, s, 0)
  <2>1. /\ s \in Seq([entry : DOMAIN toc.entries, local : Nat])
        /\ Len(s) \in Nat /\ Len(s) <= Len(toc.chunks)
        /\ \A j \in DOMAIN s : s[j].local < Count(s[j].entry)
        /\ DOMAIN toc.chunks \subseteq {GlobalChunk(s[j]) : j \in DOMAIN s}
    BY <1>1, <1>5, AllItems
  <2>2. /\ call' = c /\ todo' = s /\ dst' = Buffer(0, Zero) /\ written' = 0
        /\ result' = "none" /\ calls' = calls + 1 /\ toc' = toc /\ damaged' = damaged
    BY <1>3, <1>8 DEF Begin
  <2>3. dst' \in Seq(Bytes) /\ Len(dst') = 0
    BY <2>2, Literals, BufferFacts
  <2>4. Typing'
    <3>1. decoded' \in Seq(Bytes) /\ Len(decoded') <= C /\ C' = C
      BY <1>1, <1>6, <2>2, ScratchKept DEF C
    <3>2. calls' \in 0 .. MaxCalls
      <4>1. calls \in 0 .. MaxCalls /\ calls < MaxCalls /\ MaxCalls \in Nat
        BY <1>1, <1>6, Bounds DEF Typing, Idle
      <4> QED
        BY <2>2, <4>1
    <3>3. call' \in Calls /\ call'.at_start \subseteq damaged' /\ call'.op # "none"
          /\ call'.op \notin Sized
      BY <1>3, <1>4, <2>2
    <3>4. damaged' \subseteq DOMAIN toc'.chunks /\ toc' \in Layouts
      BY <1>1, <2>2 DEF Typing
    <3>5. todo' \in Seq([entry : DOMAIN toc'.entries, local : Nat])
      BY <2>1, <2>2
    <3>6. written' \in 0 .. Len(dst')
      BY <2>2, <2>3
    <3> QED
      BY <2>2, <2>3, <3>1, <3>2, <3>3, <3>4, <3>5, <3>6 DEF Typing
  <2>5. LoopInv' /\ AnswerInv' /\ OutputInv'
    BY <1>4, <2>2 DEF LoopInv, AnswerInv, OutputInv
  <2>6. VerifyInv'
    <3>1. \A j \in DOMAIN todo' : todo'[j].local < Count(todo[j].entry)'
      BY <2>1, <2>2 DEF Count, EntryAt
    <3>2. \A j \in DOMAIN todo' : GlobalChunk(todo[j])' = GlobalChunk(s[j])
      BY <2>2 DEF GlobalChunk, EntryAt
    <3>3. call'.at_start \subseteq DOMAIN toc.chunks
      BY <1>1, <1>3, <2>2 DEF Typing
    <3>4. call'.at_start \subseteq {GlobalChunk(todo[j])' : j \in DOMAIN todo'}
      BY <2>1, <2>2, <3>2, <3>3
    <3>5. written' = call'.n
      BY <1>3, <2>2
    <3> QED
      BY <3>1, <3>4, <3>5 DEF VerifyInv
  <2>7. DamageIsLocal' /\ SoundTableNeverBlamed'
    BY <2>2 DEF DamageIsLocal, SoundTableNeverBlamed
  <2>8. ChunkBudget'
    <3>1. Len(toc.chunks) <= max_chunks_per_operation
      BY <1>8 DEF WithinLimit
    <3>2. Len(toc.chunks) \in Nat
      <4>1. PICK t : t = toc.chunks
        OBVIOUS
      <4>2. PICK E : t \in Seq(E)
        BY <1>1, <4>1, ReaderAssumption DEF DecodedTable
      <4> QED
        BY <4>1, <4>2
    <3> QED
      BY <2>1, <2>2, <3>1, <3>2, Bounds DEF ChunkBudget
  <2> QED
    BY <2>4, <2>5, <2>6, <2>7, <2>8 DEF IInv
<1> QED
  BY <1>6, <1>7, <1>8

-----------------------------------------------------------------------------
(* The steps of the loops.                                                 *)

\* A chunk that cannot be read ends the call.
LEMMA StopKeeps ==
    ASSUME IInv, result = "none", toc' = toc, damaged' = damaged, call' = call, calls' = calls,
           dst' \in Seq(Bytes), Len(dst') = Len(dst), written' = written,
           decoded' \in Seq(Bytes), Len(decoded') <= C,
           call.op \notin Direct => dst' = dst,
           NEW error \in {"Io", "TooLarge", "Damage"}, Stop(error),
           error = "Damage" => NeededOf(call) \cap damaged # {}
    PROVE  IInv'
<1>1. Typing
  BY DEF IInv
<1>2. /\ result' = error /\ todo' = << >> /\ error \in Errors
      /\ error \notin {"none", "Ok", "Corrupt"}
  BY DEF Stop, Errors
<1>3. call.op # "none"
  BY <1>1 DEF Typing
<1>4. Typing'
  <2>1. C' = C
    BY DEF C
  <2>2. toc' \in Layouts /\ damaged' \subseteq DOMAIN toc'.chunks /\ call' \in Calls
        /\ call'.at_start \subseteq damaged' /\ calls' \in 0 .. MaxCalls
        /\ (call'.op \in Sized => call'.entry \in DOMAIN toc'.entries)
    BY <1>1 DEF Typing
  <2>3. todo' \in Seq([entry : DOMAIN toc'.entries, local : Nat])
    BY <1>2
  <2>4. written' \in 0 .. Len(dst')
    BY <1>1 DEF Typing
  <2> QED
    BY <1>2, <1>3, <2>1, <2>2, <2>3, <2>4 DEF Typing
<1>5. LoopInv' /\ AnswerInv'
  BY <1>2 DEF LoopInv, AnswerInv
<1>6. VerifyInv'
  <2>1. VerifyInv
    BY DEF IInv
  <2> QED
    BY <1>2, <2>1 DEF VerifyInv
<1>7. OutputInv'
  <2>1. OutputInv
    BY DEF IInv
  <2>2. CASE call.op \in RangeOps
    <3>1. call.op \notin Direct
      BY <2>2 DEF RangeOps, Direct
    <3> QED
      BY <2>1, <2>2, <3>1 DEF OutputInv, Byte
  <2>3. CASE call.op \notin RangeOps
    BY <1>2, <2>3 DEF OutputInv
  <2> QED
    BY <2>2, <2>3
<1>8. DamageIsLocal'
  <2>1. Needed' = NeededOf(call)
    BY NextNeeded
  <2> QED
    BY <1>2, <2>1 DEF DamageIsLocal
<1>9. SoundTableNeverBlamed'
  BY <1>2 DEF SoundTableNeverBlamed
<1>10. ChunkBudget'
  <2>1. Len(todo') = 0
    BY <1>2
  <2> QED
    BY <2>1, Bounds DEF ChunkBudget
<1> QED
  BY <1>4, <1>5, <1>6, <1>7, <1>8, <1>9, <1>10 DEF IInv

LEMMA TodoTail ==
    ASSUME Typing, todo # << >>
    PROVE  /\ Tail(todo) \in Seq([entry : DOMAIN toc.entries, local : Nat])
           /\ Len(todo) \in Nat /\ Len(todo) >= 1 /\ Len(Tail(todo)) = Len(todo) - 1
           /\ DOMAIN todo = 1 .. Len(todo) /\ DOMAIN Tail(todo) = 1 .. (Len(todo) - 1)
           /\ \A j \in 1 .. (Len(todo) - 1) : Tail(todo)[j] = todo[j + 1]
           /\ Item = todo[1]
           /\ Item.entry \in DOMAIN toc.entries /\ Item.local \in Nat
           /\ Item = [entry |-> Item.entry, local |-> Item.local]
<1>1. PICK T : T = [entry : DOMAIN toc.entries, local : Nat]
  OBVIOUS
<1>2. todo \in Seq(T)
  BY <1>1 DEF Typing
<1>3. /\ Tail(todo) \in Seq(T)
      /\ Len(todo) \in Nat /\ Len(todo) >= 1 /\ Len(Tail(todo)) = Len(todo) - 1
      /\ DOMAIN todo = 1 .. Len(todo) /\ DOMAIN Tail(todo) = 1 .. (Len(todo) - 1)
  BY <1>2
<1>4. ASSUME NEW j \in 1 .. (Len(todo) - 1)
      PROVE  Tail(todo)[j] = todo[j + 1]
  BY <1>2, <1>3
<1>5. Item = todo[1] /\ todo[1] \in T
  BY <1>2, <1>3 DEF Item
<1>6. /\ Item.entry \in DOMAIN toc.entries /\ Item.local \in Nat
      /\ Item = [entry |-> Item.entry, local |-> Item.local]
  BY <1>1, <1>5
<1> QED
  BY <1>1, <1>3, <1>4, <1>5, <1>6

\* A chunk that was read takes the call one chunk further.
LEMMA AdvanceKeeps ==
    ASSUME IInv, result = "none", todo # << >>, call.op \in Sized,
           toc' = toc, damaged' = damaged, call' = call, calls' = calls, result' = result,
           todo' = Tail(todo), dst' \in Seq(Bytes), Len(dst') = Len(dst),
           decoded' \in Seq(Bytes), Len(decoded') <= C,
           written' \in 0 .. Len(dst'),
           NEW m \in 0 .. Count(call.entry), NEW z \in 0 .. Count(call.entry),
           Progress(call, Tail(todo), written', dst', m, z),
           \A j \in DOMAIN dst' :
              dst'[j] = IF j <= written' THEN Byte(call.entry, call.from + j - 1) ELSE call.fill
    PROVE  IInv'
<1>1. Typing /\ AnswerInv /\ ChunkBudget
  BY DEF IInv
<1>2. call.op \notin {"none", "verify"}
  BY DEF Sized, Direct, RangeOps
<1>3. Typing'
  <2>1. C' = C
    BY DEF C
  <2>2. toc' \in Layouts /\ damaged' \subseteq DOMAIN toc'.chunks /\ call' \in Calls
        /\ call'.at_start \subseteq damaged' /\ calls' \in 0 .. MaxCalls
        /\ (call'.op \in Sized => call'.entry \in DOMAIN toc'.entries)
    BY <1>1 DEF Typing
  <2>3. todo' \in Seq([entry : DOMAIN toc'.entries, local : Nat])
    BY <1>1, TodoTail
  <2> QED
    BY <1>2, <2>1, <2>2, <2>3 DEF Typing
<1>4. LoopInv'
  <2>1. Progress(call, todo, written, dst, m, z)'
    BY NextProgress
  <2>2. m \in 0 .. Count(call.entry)' /\ z \in 0 .. Count(call.entry)'
    BY DEF Count, EntryAt
  <2> QED
    BY <2>1, <2>2 DEF LoopInv
<1>5. VerifyInv'
  BY <1>2 DEF VerifyInv
<1>6. OutputInv'
  BY DEF OutputInv, Byte
<1>7. AnswerInv'
  <2>1. Clipped' = Clipped
    BY DEF Clipped, EntryAt, MinOf
  <2> QED
    BY <1>1, <2>1 DEF AnswerInv
<1>8. DamageIsLocal' /\ SoundTableNeverBlamed'
  BY DEF DamageIsLocal, SoundTableNeverBlamed
<1>9. ChunkBudget'
  <2>1. Len(todo') \in Nat /\ Len(todo') <= Len(todo) /\ Len(todo) \in Nat
    BY <1>1, TodoTail
  <2> QED
    BY <1>1, <2>1, Bounds DEF ChunkBudget
<1> QED
  BY <1>3, <1>4, <1>5, <1>6, <1>7, <1>8, <1>9 DEF IInv

\* e is d with b copied over it from position w on.
IsSplice(e, d, w, b) ==
    /\ e \in Seq(Bytes) /\ Len(e) = Len(d) /\ DOMAIN e = 1 .. Len(d)
    /\ \A j \in 1 .. Len(d) :
          /\ j <= w \/ j > w + Len(b) => e[j] = d[j]
          /\ w < j /\ j <= w + Len(b) => j - w \in 1 .. Len(b) /\ e[j] = b[j - w]

LEMMA SplicedFacts ==
    ASSUME NEW d \in Seq(Bytes), NEW w \in 0 .. Len(d), NEW b \in Seq(Bytes),
           w + Len(b) <= Len(d), NEW e, e = Spliced(d, w, b)
    PROVE  IsSplice(e, d, w, b)
<1>1. PICK n \in Nat : n = Len(d) /\ DOMAIN d = 1 .. n /\ \A j \in 1 .. n : d[j] \in Bytes
  OBVIOUS
<1>2. PICK s \in Nat : s = Len(b) /\ DOMAIN b = 1 .. s /\ \A j \in 1 .. s : b[j] \in Bytes
  OBVIOUS
<1>3. e = [j \in 1 .. n |-> IF j - w \in 1 .. s THEN b[j - w] ELSE d[j]]
  BY <1>1, <1>2 DEF Spliced
<1>4. ASSUME NEW j \in 1 .. n
      PROVE  (IF j - w \in 1 .. s THEN b[j - w] ELSE d[j]) \in Bytes
  BY <1>1, <1>2
<1>5. e \in [1 .. n -> Bytes]
  BY <1>3, <1>4
<1>6. e \in Seq(Bytes) /\ Len(e) = n /\ DOMAIN e = 1 .. n
  <2>1. PICK B : B = Bytes
    OBVIOUS
  <2>2. e \in [1 .. n -> B]
    BY <1>5, <2>1
  <2>3. e \in Seq(B) /\ Len(e) = n /\ DOMAIN e = 1 .. n
    BY <2>2
  <2> QED
    BY <2>1, <2>3
<1>7. ASSUME NEW j \in 1 .. n
      PROVE  /\ j <= w \/ j > w + s => e[j] = d[j]
             /\ w < j /\ j <= w + s => j - w \in 1 .. s /\ e[j] = b[j - w]
  <2>1. w \in Nat
    BY <1>1
  <2>2. j - w \in 1 .. s <=> w < j /\ j <= w + s
    BY <2>1
  <2>3. e[j] = IF j - w \in 1 .. s THEN b[j - w] ELSE d[j]
    BY <1>3
  <2>4. j <= w \/ j > w + s => ~(w < j /\ j <= w + s)
    BY <2>1
  <2> QED
    BY <2>2, <2>3, <2>4
<1> QED
  BY <1>1, <1>2, <1>6, <1>7 DEF IsSplice

LEMMA ResizedFacts ==
    ASSUME NEW buf \in Seq(Bytes), NEW n \in Nat
    PROVE  Resized(buf, n) \in Seq(Bytes) /\ Len(Resized(buf, n)) = n
<1>1. PICK B : B = Bytes
  OBVIOUS
<1>2. buf \in Seq(B) /\ Zero \in B
  BY <1>1, Literals
<1>3. Len(buf) \in Nat /\ \A j \in 1 .. Len(buf) : buf[j] \in B
  BY <1>2
<1>4. \A j \in 1 .. n : (IF j <= Len(buf) THEN buf[j] ELSE Zero) \in B
  BY <1>2, <1>3
<1>5. PICK r : r = Resized(buf, n)
  OBVIOUS
<1>6. r \in [1 .. n -> B]
  BY <1>4, <1>5 DEF Resized
<1>7. r \in Seq(B) /\ Len(r) = n
  BY <1>6
<1> QED
  BY <1>1, <1>5, <1>7

LEMMA SliceFacts ==
    ASSUME NEW d \in Seq(Bytes), NEW a \in Nat, NEW b \in Nat, a <= b, b <= Len(d)
    PROVE  /\ SubSeq(d, a + 1, b) \in Seq(Bytes) /\ Len(SubSeq(d, a + 1, b)) = b - a
           /\ \A j \in 1 .. (b - a) : SubSeq(d, a + 1, b)[j] = d[a + j]
<1>1. PICK B : B = Bytes
  OBVIOUS
<1>2. d \in Seq(B)
  BY <1>1
<1>3. Len(d) \in Nat /\ \A j \in 1 .. Len(d) : d[j] \in B
  BY <1>2
<1>4. PICK e : e = SubSeq(d, a + 1, b)
  OBVIOUS
<1>5. e = [j \in 1 .. (b - a) |-> d[a + j]]
  <2>1. SubSeq(d, a + 1, b) = [j \in 1 .. (1 + b - (a + 1)) |-> d[j + (a + 1) - 1]]
    BY <1>2, <1>3
  <2>2. 1 + b - (a + 1) = b - a
    OBVIOUS
  <2>3. \A j \in 1 .. (b - a) : j + (a + 1) - 1 = a + j
    OBVIOUS
  <2> QED
    BY <1>4, <2>1, <2>2, <2>3
<1>6. \A j \in 1 .. (b - a) : a + j \in 1 .. Len(d)
  BY <1>3
<1>7. e \in [1 .. (b - a) -> B]
  BY <1>3, <1>5, <1>6
<1>8. b - a \in Nat
  OBVIOUS
<1>9. e \in Seq(B) /\ Len(e) = b - a
  BY <1>7, <1>8
<1> QED
  BY <1>1, <1>4, <1>5, <1>9

\* A loop that has a chunk to read.
LEMMA RunningFacts ==
    ASSUME IInv, result = "none", todo # << >>, call.op \in Sized
    PROVE  /\ call.entry \in DOMAIN toc.entries
           /\ \E m, z \in 0 .. Count(call.entry) :
                 m < z /\ Progress(call, todo, written, dst, m, z)
<1>1. Typing /\ LoopInv /\ toc \in Layouts
  BY DEF IInv, Typing
<1>2. PICK i \in DOMAIN toc.entries : i = call.entry
  BY <1>1 DEF Typing
<1>3. PICK m \in 0 .. Count(i), z \in 0 .. Count(i) : Progress(call, todo, written, dst, m, z)
  BY <1>1, <1>2 DEF LoopInv
<1>4. m \in Nat /\ z \in Nat /\ m <= z /\ todo = Items(i, m, z - 1)
  <2>1. Count(i) \in Nat
    BY <1>1, EntryFacts
  <2> QED
    BY <1>2, <1>3, <2>1 DEF Progress
<1>5. m # z
  <2>1. m = z => Items(i, m, z - 1) = << >>
    BY <1>4, ItemsFacts
  <2> QED
    BY <1>4, <2>1
<1>6. m < z
  BY <1>4, <1>5
<1> QED
  BY <1>2, <1>3, <1>6

LEMMA ReadToOutputKeeps ==
    ASSUME IInv, ReadToOutput
    PROVE  IInv'
<1>1. /\ result = "none" /\ todo # << >> /\ call.op \in Direct /\ call.op \in Sized
      /\ toc' = toc /\ damaged' = damaged /\ call' = call /\ decoded' = decoded /\ calls' = calls
  BY DEF ReadToOutput, Running, Direct, Sized
<1>2. Typing /\ OutputInv /\ AnswerInv /\ toc \in Layouts
  BY DEF IInv, Typing
<1>3. PICK i \in DOMAIN toc.entries : i = call.entry
  BY <1>1, RunningFacts
<1>4. PICK m \in 0 .. Count(i), z \in 0 .. Count(i) :
         m < z /\ Progress(call, todo, written, dst, m, z)
  BY <1>1, <1>3, RunningFacts
<1>5. PICK a : a = m * C
  OBVIOUS
<1>6. PICK s : s = Sz(i, m)
  OBVIOUS
<1>7. PICK x \in Nat : x = call.from
  BY <1>2 DEF Typing, Calls
<1>8. PICK n \in Nat : n = call.n
  BY <1>2 DEF Typing, Calls
<1>9. PICK e : e = call.from + call.n
  OBVIOUS
<1>10. /\ Item = [entry |-> i, local |-> m]
       /\ m \in Nat /\ z \in Nat /\ m < Count(i) /\ a \in Nat /\ e \in Nat /\ C \in Nat /\ s \in 1 .. C
       /\ (m + 1) * C = a + C
       /\ call.from + written = MaxOf(call.from, a)
       /\ m + 1 < z => s = C /\ a + C < e
       /\ m + 1 = z => e <= a + s
       /\ First(i) + m + 1 \in NeededOf(call)
  <2>1. BeforeChunk(i, m, z, a, e, s)
    BY <1>1, <1>2, <1>3, <1>4, <1>5, <1>6, <1>9, StepFacts
  <2> QED
    BY <2>1 DEF BeforeChunk
<1>11. Len(dst) = n /\ x <= a /\ (e = z * C \/ (z = Count(i) /\ e = Size(i)))
  BY <1>1, <1>3, <1>4, <1>5, <1>7, <1>8, <1>9 DEF Progress
<1>12. a + s <= e
  <2>1. m + 1 < z \/ m + 1 = z
    BY <1>4, <1>10
  <2>2. CASE m + 1 < z
    BY <1>10, <2>2
  <2>3. CASE m + 1 = z
    <3>1. m + 1 = Count(i) => a + s = Size(i)
      BY <1>2, <1>5, <1>6, <1>10, EntryFacts
    <3> QED
      BY <1>10, <1>11, <2>3, <3>1
  <2> QED
    BY <2>1, <2>2, <2>3
<1>13. PICK w \in Nat : w = written
  BY <1>2 DEF Typing
<1>14. x + w = a /\ e = x + n
  BY <1>7, <1>8, <1>9, <1>10, <1>11, <1>13 DEF MaxOf
<1>15. PICK end \in Nat : end = w + s /\ end <= n /\ x + end = a + s
  <2>1. w + s \in Nat /\ w + s <= n /\ x + (w + s) = a + s
    BY <1>10, <1>12, <1>14
  <2> QED
    BY <2>1
<1>16. ChunkOf(Item).original_size = s /\ EndAfter(Item) = end /\ ~(end > Len(dst))
  <2>1. ChunkOf(Item).original_size = s
    BY <1>2, <1>6, <1>10, ItemFacts
  <2> QED
    BY <1>11, <1>13, <1>15, <2>1 DEF EndAfter
<1>17. PICK buf : buf = SubSeq(dst, written + 1, end)
  OBVIOUS
<1>18. buf \in Seq(Bytes) /\ Len(buf) = s
  <2>1. dst \in Seq(Bytes)
    BY <1>2 DEF Typing
  <2>2. w <= end /\ end <= Len(dst) /\ end - w = s
    BY <1>10, <1>11, <1>15
  <2>3. buf = SubSeq(dst, w + 1, end)
    BY <1>13, <1>17
  <2>4. /\ SubSeq(dst, w + 1, end) \in Seq(Bytes)
        /\ Len(SubSeq(dst, w + 1, end)) = end - w
    BY <2>1, <2>2, SliceFacts
  <2> QED
    BY <2>2, <2>3, <2>4
<1>19. PICK g \in ChunkReads(Item, buf) :
          /\ dst' = Spliced(dst, written, g.bytes)
          /\ IF g.error = "none"
             THEN written' = end /\ todo' = Tail(todo) /\ result' = result
             ELSE Stop(g.error) /\ written' = written
  BY <1>16, <1>17 DEF ReadToOutput
<1>20. /\ g.bytes \in Seq(Bytes) /\ Len(g.bytes) = s
       /\ g.error \in {"none", "Io", "TooLarge", "Damage"}
       /\ g.error = "none" => g.bytes = Packed(Item) /\ First(i) + m + 1 \notin damaged
       /\ g.error = "Damage" => First(i) + m + 1 \in damaged
  BY <1>2, <1>6, <1>10, <1>18, <1>19, ChunkReadFacts
<1>21. PICK b : b = g.bytes
  OBVIOUS
<1>22. /\ dst' \in Seq(Bytes) /\ Len(dst') = n /\ DOMAIN dst' = 1 .. n
       /\ \A j \in 1 .. n :
             /\ j <= w \/ j > w + s => dst'[j] = dst[j]
             /\ w < j /\ j <= w + s => j - w \in 1 .. s /\ dst'[j] = b[j - w]
  <2>1. dst \in Seq(Bytes) /\ w \in 0 .. Len(dst)
    BY <1>2, <1>13 DEF Typing
  <2>2. b \in Seq(Bytes) /\ Len(b) = s /\ w + Len(b) <= Len(dst)
    BY <1>11, <1>15, <1>20, <1>21
  <2>3. PICK q : q = dst' /\ q = Spliced(dst, w, b)
    BY <1>13, <1>19, <1>21
  <2>4. IsSplice(q, dst, w, b)
    BY <2>1, <2>2, <2>3, SplicedFacts
  <2> QED
    BY <1>11, <2>2, <2>3, <2>4 DEF IsSplice
<1>23. decoded' \in Seq(Bytes) /\ Len(decoded') <= C
  BY <1>1, <1>2 DEF Typing
<1>24. CASE g.error = "none"
  <2>1. written' = end /\ todo' = Tail(todo) /\ result' = result
    BY <1>19, <1>24
  <2>2. m + 1 \in 0 .. Count(i) /\ Progress(call, Tail(todo), end, dst', m + 1, z)
    <3>1. call.from + end = MinOf(m * C + Sz(i, m), call.from + call.n)
      <4>1. MinOf(a + s, e) = a + s
        BY <1>10, <1>12 DEF MinOf
      <4> QED
        BY <1>5, <1>6, <1>7, <1>9, <1>15, <4>1
    <3>2. Len(dst') = Len(dst) /\ First(i) + m + 1 \notin damaged
      BY <1>11, <1>20, <1>22, <1>24
    <3> QED
      BY <1>1, <1>2, <1>3, <1>4, <3>1, <3>2, ProgressNext
  <2>3. ASSUME NEW j \in DOMAIN dst'
        PROVE  dst'[j] = IF j <= end THEN Byte(i, x + j - 1) ELSE call.fill
    <3>1. j \in 1 .. n /\ j \in DOMAIN dst
      <4>1. DOMAIN dst = 1 .. n
        BY <1>2, <1>11 DEF Typing
      <4> QED
        BY <1>22, <4>1
    <3>2. dst[j] = IF j <= w THEN Byte(i, x + j - 1) ELSE call.fill
      BY <1>1, <1>2, <1>3, <1>7, <1>13, <3>1 DEF OutputInv
    <3>3. CASE j <= w
      <4>1. j <= end
        BY <1>10, <1>15, <3>1, <3>3
      <4> QED
        BY <1>22, <3>1, <3>2, <3>3, <4>1
    <3>4. CASE w < j /\ j <= w + s
      <4>1. PICK k \in 1 .. s : k = j - w /\ dst'[j] = b[k]
        BY <1>22, <3>1, <3>4
      <4>2. b[k] = Byte(i, a + k - 1)
        <5>1. Packed(Item)[k] = Byte(i, m * C + k - 1)
          BY <1>2, <1>6, <1>10, ItemFacts
        <5> QED
          BY <1>5, <1>20, <1>21, <1>24, <5>1
      <4>3. a + k - 1 = x + j - 1
        BY <1>14, <3>1, <4>1
      <4> QED
        BY <1>15, <3>4, <4>1, <4>2, <4>3
    <3>5. CASE j > w + s
      <4>1. ~(j <= end) /\ ~(j <= w)
        BY <1>10, <1>15, <3>1, <3>5
      <4> QED
        BY <1>22, <3>1, <3>2, <3>5, <4>1
    <3>6. j <= w \/ (w < j /\ j <= w + s) \/ j > w + s
      BY <1>10, <3>1
    <3> QED
      BY <3>3, <3>4, <3>5, <3>6
  <2>4. written' \in 0 .. Len(dst') /\ Len(dst') = Len(dst)
    BY <1>11, <1>15, <1>22, <2>1
  <2>5. \A j \in DOMAIN dst' :
           dst'[j] = IF j <= written' THEN Byte(call.entry, call.from + j - 1) ELSE call.fill
    BY <1>3, <1>7, <2>1, <2>3
  <2>6. Progress(call, Tail(todo), written', dst', m + 1, z)
    BY <2>1, <2>2
  <2>7. m + 1 \in 0 .. Count(call.entry) /\ z \in 0 .. Count(call.entry)
    BY <1>3, <1>4, <2>2
  <2> QED
    BY <1>1, <1>22, <1>23, <2>1, <2>4, <2>5, <2>6, <2>7, AdvanceKeeps
<1>25. CASE g.error # "none"
  <2>1. PICK error \in {"Io", "TooLarge", "Damage"} : error = g.error
    BY <1>20, <1>25
  <2>2. Stop(error) /\ written' = written
    BY <1>19, <1>25, <2>1
  <2>3. error = "Damage" => NeededOf(call) \cap damaged # {}
    BY <1>10, <1>20, <2>1
  <2>4. Len(dst') = Len(dst)
    BY <1>11, <1>22
  <2> QED
    BY <1>1, <1>22, <1>23, <2>2, <2>3, <2>4, StopKeeps
<1> QED
  BY <1>24, <1>25

\* There was no memory for the scratch.
LEMMA NoRoomKeeps ==
    ASSUME IInv, result = "none", toc' = toc, damaged' = damaged, call' = call, calls' = calls,
           NoRoom
    PROVE  IInv'
<1>1. Typing
  BY DEF IInv
<1>2. Stop("TooLarge") /\ dst' = dst /\ written' = written /\ decoded' = decoded
  BY DEF NoRoom
<1>3. /\ dst' \in Seq(Bytes) /\ Len(dst') = Len(dst)
      /\ decoded' \in Seq(Bytes) /\ Len(decoded') <= C
  BY <1>1, <1>2 DEF Typing
<1>4. PICK error \in {"Io", "TooLarge", "Damage"} : error = "TooLarge"
  OBVIOUS
<1>5. Stop(error) /\ error # "Damage"
  BY <1>2, <1>4
<1> QED
  BY <1>2, <1>3, <1>5, StopKeeps

LEMMA ReadToScratchKeeps ==
    ASSUME IInv, ReadToScratch
    PROVE  IInv'
<1>1. /\ result = "none" /\ todo # << >> /\ call.op \in RangeOps /\ call.op \in Sized
      /\ call.op \notin Direct
      /\ toc' = toc /\ damaged' = damaged /\ call' = call /\ calls' = calls
  BY DEF ReadToScratch, Running, RangeOps, Sized, Direct
<1>2. Typing /\ OutputInv /\ AnswerInv /\ toc \in Layouts
  BY DEF IInv, Typing
<1>3. PICK i \in DOMAIN toc.entries : i = call.entry
  BY <1>1, RunningFacts
<1>4. PICK m \in 0 .. Count(i), z \in 0 .. Count(i) :
         m < z /\ Progress(call, todo, written, dst, m, z)
  BY <1>1, <1>3, RunningFacts
<1>5. PICK a : a = m * C
  OBVIOUS
<1>6. PICK s : s = Sz(i, m)
  OBVIOUS
<1>7. PICK x \in Nat : x = call.from
  BY <1>2 DEF Typing, Calls
<1>8. PICK n \in Nat : n = call.n
  BY <1>2 DEF Typing, Calls
<1>9. PICK e : e = call.from + call.n
  OBVIOUS
<1>10. /\ Item = [entry |-> i, local |-> m]
       /\ m \in Nat /\ m < Count(i) /\ a \in Nat /\ e \in Nat /\ C \in Nat /\ s \in 1 .. C
       /\ a < e /\ call.from < e /\ call.from < a + s
       /\ call.from + written = MaxOf(call.from, a)
       /\ First(i) + m + 1 \in NeededOf(call)
  <2>1. BeforeChunk(i, m, z, a, e, s)
    BY <1>1, <1>2, <1>3, <1>4, <1>5, <1>6, <1>9, StepFacts
  <2> QED
    BY <2>1 DEF BeforeChunk
<1>11. PICK w \in Nat : w = written
  BY <1>2 DEF Typing
<1>12. ChunkOf(Item).original_size = s /\ Item.local = m /\ Item.entry = i
  BY <1>2, <1>6, <1>10, ItemFacts
<1>13. PICK lo \in Nat : /\ lo = TakeStart /\ lo <= s
                         /\ a + lo = x + w /\ a + lo <= e /\ a + lo < a + s
  <2>1. TakeStart = MaxOf(x, a) - a
    BY <1>5, <1>7, <1>12 DEF TakeStart, C
  <2>2. MaxOf(x, a) = x + w /\ MaxOf(x, a) <= e /\ MaxOf(x, a) < a + s /\ a <= MaxOf(x, a)
    BY <1>7, <1>10, <1>11 DEF MaxOf
  <2>3. PICK y \in Nat : y = MaxOf(x, a)
    BY <1>11, <2>2
  <2>4. y - a \in Nat /\ y - a <= s /\ a + (y - a) = y
    BY <1>10, <2>2, <2>3
  <2> QED
    BY <2>1, <2>2, <2>3, <2>4
<1>14. PICK hi \in Nat : /\ hi = TakeEnd /\ hi <= s /\ lo <= hi
                         /\ a + hi = MinOf(a + s, e) /\ a + hi <= e
  <2>1. TakeEnd = MinOf(e, a + s) - a
    BY <1>5, <1>9, <1>12 DEF TakeEnd, C
  <2>2. MinOf(e, a + s) = MinOf(a + s, e)
    BY <1>10 DEF MinOf
  <2>3. PICK y \in Nat : y = MinOf(a + s, e)
    BY <1>10 DEF MinOf
  <2>4. y <= e /\ y <= a + s /\ a + lo <= y /\ a <= y
    BY <1>10, <1>13, <2>3 DEF MinOf
  <2>5. y - a \in Nat /\ y - a <= s /\ lo <= y - a /\ a + (y - a) = y
    BY <1>10, <1>13, <2>4
  <2> QED
    BY <2>1, <2>2, <2>3, <2>4, <2>5
<1>15. PICK v \in Nat : v = w + hi - lo /\ w <= v /\ x + v = a + hi /\ v <= n /\ v - w = hi - lo
  <2>1. e = x + n
    BY <1>7, <1>8, <1>9
  <2>2. w + hi - lo \in Nat /\ w <= w + hi - lo /\ (w + hi - lo) - w = hi - lo
    BY <1>13, <1>14
  <2>3. x + (w + hi - lo) = a + hi
    BY <1>10, <1>13, <1>14
  <2>4. w + hi - lo <= n
    BY <1>10, <1>14, <2>1, <2>2, <2>3
  <2> QED
    BY <2>2, <2>3, <2>4
<1>16. n <= Len(dst)
  BY <1>1, <1>2, <1>8 DEF AnswerInv
<1>17. PICK buf : buf = Resized(decoded, ChunkOf(Item).original_size)
  OBVIOUS
<1>18. buf \in Seq(Bytes) /\ Len(buf) = s
  <2>1. decoded \in Seq(Bytes) /\ s \in Nat
    BY <1>2, <1>10 DEF Typing
  <2> QED
    BY <1>12, <1>17, <2>1, ResizedFacts
<1>19. ~(Item.local >= EntryAt(Item.entry).chunk_count)
  <2>1. Count(i) \in Nat /\ EntryAt(i).chunk_count = Count(i)
    BY <1>2, EntryFacts DEF Count
  <2> QED
    BY <1>10, <1>12, <2>1
<1>25. CASE NoRoom
  BY <1>1, <1>25, NoRoomKeeps
<1> SUFFICES ASSUME ~NoRoom PROVE IInv'
  BY <1>25
<1>20. PICK g \in ChunkReads(Item, buf) :
          /\ decoded' = g.bytes
          /\ IF g.error # "none" THEN Stop(g.error) /\ dst' = dst /\ written' = written
             ELSE IF \/ TakeStart > TakeEnd
                     \/ written + TakeEnd - TakeStart > call.n
                     \/ TakeEnd > Len(decoded')
             THEN Stop("Corrupt") /\ dst' = dst /\ written' = written
             ELSE /\ dst' = Spliced(dst, written, SubSeq(decoded', TakeStart + 1, TakeEnd))
                  /\ written' = written + TakeEnd - TakeStart
                  /\ todo' = Tail(todo) /\ result' = result
  BY <1>17, <1>19 DEF ReadToScratch
<1>21. /\ g.bytes \in Seq(Bytes) /\ Len(g.bytes) = s
       /\ g.error \in {"none", "Io", "TooLarge", "Damage"}
       /\ g.error = "none" => g.bytes = Packed(Item) /\ First(i) + m + 1 \notin damaged
       /\ g.error = "Damage" => First(i) + m + 1 \in damaged
  BY <1>2, <1>6, <1>10, <1>18, <1>20, ChunkReadFacts
<1>22. decoded' \in Seq(Bytes) /\ Len(decoded') <= C
  BY <1>10, <1>20, <1>21
<1>23. CASE g.error = "none"
  <2>1. ~(\/ TakeStart > TakeEnd
          \/ written + TakeEnd - TakeStart > call.n
          \/ TakeEnd > Len(decoded'))
    <3>1. ~(lo > hi)
      BY <1>14
    <3>2. ~(w + hi - lo > n)
      BY <1>15
    <3>3. ~(hi > s)
      BY <1>10, <1>14
    <3>4. Len(decoded') = s
      BY <1>20, <1>21
    <3> QED
      BY <1>8, <1>11, <1>13, <1>14, <3>1, <3>2, <3>3, <3>4
  <2>2. PICK f : f = g.bytes /\ f = decoded'
    BY <1>20
  <2>3. PICK b : b = SubSeq(f, lo + 1, hi)
    OBVIOUS
  <2>4. /\ dst' = Spliced(dst, w, b) /\ written' = v
        /\ todo' = Tail(todo) /\ result' = result
    BY <1>11, <1>13, <1>14, <1>15, <1>20, <1>23, <2>1, <2>2, <2>3
  <2>5. /\ b \in Seq(Bytes) /\ Len(b) = hi - lo
        /\ \A j \in 1 .. (hi - lo) : b[j] = f[lo + j]
    <3>1. f \in Seq(Bytes) /\ Len(f) = s
      BY <1>21, <2>2
    <3>2. /\ SubSeq(f, lo + 1, hi) \in Seq(Bytes) /\ Len(SubSeq(f, lo + 1, hi)) = hi - lo
          /\ \A j \in 1 .. (hi - lo) : SubSeq(f, lo + 1, hi)[j] = f[lo + j]
      <4>1. lo <= hi /\ hi <= Len(f)
        BY <1>14, <3>1
      <4> QED
        BY <3>1, <4>1, SliceFacts
    <3> QED
      BY <2>3, <3>2
  <2>6. PICK q : q = dst' /\ q = Spliced(dst, w, b)
    BY <2>4
  <2>7. IsSplice(q, dst, w, b)
    <3>1. dst \in Seq(Bytes) /\ w \in 0 .. Len(dst)
      BY <1>2, <1>11 DEF Typing
    <3>2. w + Len(b) <= Len(dst)
      <4>1. Len(dst) \in Nat
        BY <3>1
      <4> QED
        BY <1>13, <1>14, <1>15, <1>16, <2>5, <4>1
    <3> QED
      BY <2>5, <2>6, <3>1, <3>2, SplicedFacts
  <2>8. w + Len(b) = v
    BY <1>13, <1>14, <1>15, <2>5
  <2>9. /\ q \in Seq(Bytes) /\ Len(q) = Len(dst) /\ DOMAIN q = 1 .. Len(dst)
        /\ \A j \in 1 .. Len(dst) :
              /\ j <= w \/ j > v => q[j] = dst[j]
              /\ w < j /\ j <= v => j - w \in 1 .. Len(b) /\ q[j] = b[j - w]
    BY <2>7, <2>8 DEF IsSplice
  <2>10. m + 1 \in 0 .. Count(i) /\ Progress(call, Tail(todo), v, q, m + 1, z)
    <3>1. call.from + v = MinOf(m * C + Sz(i, m), call.from + call.n)
      BY <1>5, <1>6, <1>7, <1>9, <1>14, <1>15
    <3>2. First(i) + m + 1 \notin damaged
      BY <1>21, <1>23
    <3> QED
      BY <1>1, <1>2, <1>3, <1>4, <2>9, <3>1, <3>2, ProgressNext
  <2>11. ASSUME NEW j \in DOMAIN q
         PROVE  q[j] = IF j <= v THEN Byte(i, x + j - 1) ELSE call.fill
    <3>1. j \in 1 .. Len(dst) /\ j \in DOMAIN dst /\ j \in Nat
      <4>1. DOMAIN dst = 1 .. Len(dst)
        BY <1>2 DEF Typing
      <4> QED
        BY <2>9, <4>1
    <3>2. dst[j] = IF j <= w THEN Byte(i, x + j - 1) ELSE call.fill
      BY <1>1, <1>2, <1>3, <1>7, <1>11, <3>1 DEF OutputInv
    <3>3. CASE j <= w
      <4>1. j <= v
        BY <1>15, <3>1, <3>3
      <4> QED
        BY <2>9, <3>1, <3>2, <3>3, <4>1
    <3>4. CASE w < j /\ j <= v
      <4>1. PICK k \in 1 .. (hi - lo) : k = j - w /\ q[j] = b[k]
        BY <2>5, <2>9, <3>1, <3>4
      <4>2. lo + k \in 1 .. s
        BY <1>10, <1>13, <1>14
      <4>3. f[lo + k] = Byte(i, a + (lo + k) - 1)
        <5>1. Packed(Item)[lo + k] = Byte(i, m * C + (lo + k) - 1)
          BY <1>2, <1>6, <1>10, <4>2, ItemFacts
        <5> QED
          BY <1>5, <1>21, <1>23, <2>2, <5>1
      <4>4. a + (lo + k) - 1 = x + j - 1
        <5>1. a \in Nat /\ k \in Nat /\ k + w = j
          BY <1>10, <3>1, <4>1
        <5>2. a + lo = x + w
          BY <1>13
        <5> QED
          BY <5>1, <5>2
      <4> QED
        BY <2>5, <3>4, <4>1, <4>3, <4>4
    <3>5. CASE j > v
      <4>1. ~(j <= v) /\ ~(j <= w)
        BY <1>15, <3>1, <3>5
      <4> QED
        BY <2>9, <3>1, <3>2, <3>5, <4>1
    <3>6. j <= w \/ (w < j /\ j <= v) \/ j > v
      BY <3>1
    <3> QED
      BY <3>3, <3>4, <3>5, <3>6
  <2>12. written' \in 0 .. Len(dst') /\ dst' \in Seq(Bytes) /\ Len(dst') = Len(dst)
    <3>1. Len(dst) \in Nat
      BY <1>2 DEF Typing
    <3> QED
      BY <1>15, <1>16, <2>4, <2>6, <2>9, <3>1
  <2>13. \A j \in DOMAIN dst' :
           dst'[j] = IF j <= written' THEN Byte(call.entry, call.from + j - 1) ELSE call.fill
    BY <1>3, <1>7, <2>4, <2>6, <2>11
  <2>14. Progress(call, Tail(todo), written', dst', m + 1, z)
    BY <2>4, <2>6, <2>10
  <2>15. m + 1 \in 0 .. Count(call.entry) /\ z \in 0 .. Count(call.entry)
    BY <1>3, <1>4, <2>10
  <2> QED
    BY <1>1, <1>22, <2>4, <2>12, <2>13, <2>14, <2>15, AdvanceKeeps
<1>24. CASE g.error # "none"
  <2>1. PICK error \in {"Io", "TooLarge", "Damage"} : error = g.error
    BY <1>21, <1>24
  <2>2. Stop(error) /\ written' = written /\ dst' = dst
    BY <1>20, <1>24, <2>1
  <2>3. error = "Damage" => NeededOf(call) \cap damaged # {}
    BY <1>10, <1>21, <2>1
  <2>4. dst' \in Seq(Bytes) /\ Len(dst') = Len(dst)
    BY <1>2, <2>2 DEF Typing
  <2> QED
    BY <1>1, <1>22, <2>2, <2>3, <2>4, StopKeeps
<1> QED
  BY <1>23, <1>24

LEMMA VerifyChunkKeeps ==
    ASSUME IInv, VerifyChunk
    PROVE  IInv'
<1>1. /\ result = "none" /\ todo # << >> /\ call.op = "verify"
      /\ toc' = toc /\ damaged' = damaged /\ call' = call /\ calls' = calls
      /\ dst' = dst /\ written' = written
  BY DEF VerifyChunk, Running, NoRoom
<1>2. Typing /\ VerifyInv /\ ChunkBudget /\ toc \in Layouts
  BY DEF IInv, Typing
<1>3. /\ \A j \in DOMAIN todo : todo[j].local < Count(todo[j].entry)
      /\ call.at_start \subseteq {GlobalChunk(todo[j]) : j \in DOMAIN todo}
      /\ written = call.n
  BY <1>1, <1>2 DEF VerifyInv
<1>4. /\ todo' \in Seq([entry : DOMAIN toc.entries, local : Nat]) \/ todo' # Tail(todo)
      /\ Len(todo) \in Nat /\ Len(todo) >= 1 /\ Len(Tail(todo)) = Len(todo) - 1
      /\ DOMAIN todo = 1 .. Len(todo) /\ DOMAIN Tail(todo) = 1 .. (Len(todo) - 1)
      /\ \A j \in 1 .. (Len(todo) - 1) : Tail(todo)[j] = todo[j + 1]
      /\ Item = todo[1]
      /\ Item.entry \in DOMAIN toc.entries /\ Item.local \in Nat
      /\ Item = [entry |-> Item.entry, local |-> Item.local]
  BY <1>1, <1>2, TodoTail
<1>5. PICK i \in DOMAIN toc.entries : i = Item.entry
  BY <1>4
<1>6. PICK l \in Nat : l = Item.local
  BY <1>4
<1>7. l < Count(i) /\ Item = [entry |-> i, local |-> l]
  <2>1. 1 \in DOMAIN todo
    BY <1>4
  <2> QED
    BY <1>3, <1>4, <1>5, <1>6, <2>1
<1>8. PICK s \in Nat : s = Sz(i, l) /\ s <= C /\ C \in Nat
  <2>1. Sz(i, l) \in 1 .. C /\ C \in Nat
    BY <1>2, <1>7, EntryFacts
  <2> QED
    BY <2>1
<1>9. ChunkOf(Item).original_size = s /\ GlobalChunk(Item) = First(i) + l + 1
  BY <1>2, <1>7, <1>8, ItemFacts
<1>10. PICK buf : buf = Resized(decoded, s)
  OBVIOUS
<1>11. buf \in Seq(Bytes) /\ Len(buf) = s
  <2>1. decoded \in Seq(Bytes)
    BY <1>2 DEF Typing
  <2> QED
    BY <1>10, <2>1, ResizedFacts
<1>18. CASE NoRoom
  BY <1>1, <1>18, NoRoomKeeps
<1> SUFFICES ASSUME ~NoRoom PROVE IInv'
  BY <1>18
<1>12. PICK g \in ChunkReads(Item, buf) :
          /\ decoded' = g.bytes
          /\ IF g.error = "none" THEN todo' = Tail(todo) /\ result' = result ELSE Stop(g.error)
  BY <1>9, <1>10 DEF VerifyChunk
<1>13. /\ g.bytes \in Seq(Bytes) /\ Len(g.bytes) = s
       /\ g.error \in {"none", "Io", "TooLarge", "Damage"}
       /\ g.error = "none" => First(i) + l + 1 \notin damaged
       /\ g.error = "Damage" => First(i) + l + 1 \in damaged
  BY <1>2, <1>7, <1>8, <1>11, <1>12, ChunkReadFacts
<1>14. decoded' \in Seq(Bytes) /\ Len(decoded') <= C
  BY <1>8, <1>12, <1>13
<1>15. call.op \notin Sized /\ call.op \notin Direct /\ call.op \notin RangeOps
  BY <1>1 DEF Sized, Direct, RangeOps
<1>16. CASE g.error = "none"
  <2>1. todo' = Tail(todo) /\ result' = "none"
    BY <1>1, <1>12, <1>16
  <2>2. Typing'
    <3>1. C' = C
      BY <1>1 DEF C
    <3>2. todo' \in Seq([entry : DOMAIN toc'.entries, local : Nat])
      BY <1>1, <1>4, <2>1
    <3> QED
      BY <1>1, <1>2, <1>14, <2>1, <3>1, <3>2 DEF Typing
  <2>3. LoopInv' /\ OutputInv' /\ AnswerInv'
    BY <1>1, <1>15 DEF LoopInv, OutputInv, AnswerInv
  <2>4. VerifyInv'
    <3>1. \A j \in DOMAIN todo' : j + 1 \in DOMAIN todo /\ todo'[j] = todo[j + 1]
      BY <1>4, <2>1
    <3>2. \A j \in DOMAIN todo' : todo'[j].local < Count(todo[j].entry)'
      <4>1. TAKE j \in DOMAIN todo'
      <4>2. PICK t : t = todo[j + 1] /\ t = todo'[j]
        BY <3>1
      <4>3. t.local < Count(t.entry)
        BY <1>3, <3>1, <4>2
      <4>4. Count(todo[j].entry)' = Count(t.entry)
        BY <1>1, <4>2 DEF Count, EntryAt
      <4> QED
        BY <4>2, <4>3, <4>4
    <3>3. \A j \in DOMAIN todo' : GlobalChunk(todo[j])' = GlobalChunk(todo[j + 1])
      BY <1>1, <3>1 DEF GlobalChunk, EntryAt
    <3>4. ASSUME NEW k \in call.at_start
          PROVE  \E j \in DOMAIN todo' : k = GlobalChunk(todo[j])'
      <4>1. PICK j \in DOMAIN todo : k = GlobalChunk(todo[j])
        BY <1>3
      <4>2. j # 1
        <5>1. k \in damaged
          BY <1>2 DEF Typing
        <5> QED
          BY <1>4, <1>9, <1>13, <1>16, <4>1, <5>1
      <4>3. PICK h \in DOMAIN todo' : h + 1 = j
        <5>1. j - 1 \in 1 .. (Len(todo) - 1) /\ (j - 1) + 1 = j
          BY <1>4, <4>2
        <5> QED
          BY <1>4, <2>1, <5>1
      <4> QED
        BY <3>3, <4>1, <4>3
    <3>5. call'.at_start \subseteq {GlobalChunk(todo[j])' : j \in DOMAIN todo'}
      BY <1>1, <3>4
    <3>6. written' = call'.n
      BY <1>1, <1>3
    <3> QED
      BY <3>2, <3>5, <3>6 DEF VerifyInv
  <2>5. DamageIsLocal' /\ SoundTableNeverBlamed'
    BY <2>1 DEF DamageIsLocal, SoundTableNeverBlamed
  <2>6. ChunkBudget'
    <3>1. Len(todo') = Len(todo) - 1
      BY <1>4, <2>1
    <3> QED
      BY <1>2, <1>4, <3>1, Bounds DEF ChunkBudget
  <2> QED
    BY <2>2, <2>3, <2>4, <2>5, <2>6 DEF IInv
<1>17. CASE g.error # "none"
  <2>1. PICK error \in {"Io", "TooLarge", "Damage"} : error = g.error
    BY <1>13, <1>17
  <2>2. Stop(error)
    BY <1>12, <1>17, <2>1
  <2>3. error = "Damage" => NeededOf(call) \cap damaged # {}
    <3>1. First(i) + l + 1 \in DOMAIN toc.chunks
      BY <1>2, <1>7, EntryFacts
    <3>2. NeededOf(call) = DOMAIN toc.chunks
      BY <1>1 DEF NeededOf
    <3> QED
      BY <1>13, <2>1, <3>1, <3>2
  <2>4. dst' \in Seq(Bytes) /\ Len(dst') = Len(dst)
    BY <1>1, <1>2 DEF Typing
  <2> QED
    BY <1>1, <1>14, <2>2, <2>3, <2>4, StopKeeps
<1> QED
  BY <1>16, <1>17

LEMMA ReturnKeeps ==
    ASSUME IInv, Return
    PROVE  IInv'
<1>1. /\ result = "none" /\ todo = << >>
      /\ result' = IF written = call.n THEN "Ok" ELSE "Corrupt"
      /\ toc' = toc /\ damaged' = damaged /\ call' = call /\ todo' = todo /\ dst' = dst
      /\ written' = written /\ decoded' = decoded /\ calls' = calls
  BY DEF Return
<1>2. /\ Typing /\ LoopInv /\ VerifyInv /\ OutputInv /\ AnswerInv /\ ChunkBudget
      /\ toc \in Layouts
  BY DEF IInv, Typing
<1>3. call.op \in Sized \/ call.op = "verify"
  BY <1>1, <1>2 DEF Typing, Calls
<1>4. written = call.n /\ NeededOf(call) \cap call.at_start = {}
  <2>1. CASE call.op = "verify"
    <3>1. call.at_start \subseteq {GlobalChunk(todo[j]) : j \in DOMAIN todo} /\ written = call.n
      BY <1>1, <1>2, <2>1 DEF VerifyInv
    <3>2. DOMAIN todo = {}
      BY <1>1
    <3> QED
      BY <3>1, <3>2
  <2>2. CASE call.op \in Sized
    <3>1. PICK i \in DOMAIN toc.entries : i = call.entry
      BY <1>2, <2>2 DEF Typing
    <3>2. PICK m \in 0 .. Count(i), z \in 0 .. Count(i) : Progress(call, todo, written, dst, m, z)
      BY <1>1, <1>2, <2>2, <3>1 DEF LoopInv
    <3>3. m \in Nat /\ z \in Nat /\ m <= z /\ todo = Items(i, m, z - 1)
      <4>1. Count(i) \in Nat
        BY <1>2, EntryFacts
      <4> QED
        BY <3>1, <3>2, <4>1 DEF Progress
    <3>4. m = z
      <4>1. m < z => Items(i, m, z - 1) # << >>
        BY <3>3, ItemsFacts
      <4> QED
        BY <1>1, <3>3, <4>1
    <3>5. PICK x \in Nat : x = call.from
      BY <1>2 DEF Typing, Calls
    <3>6. PICK n \in Nat : n = call.n
      BY <1>2 DEF Typing, Calls
    <3>7. PICK w \in Nat : w = written
      BY <1>2 DEF Typing
    <3>8. PICK a \in Nat : a = m * C
      BY <1>2, <3>3, Bounds, Times
    <3>9. /\ x + n <= a /\ x + w = MaxOf(x, MinOf(a, x + n))
          /\ \A k \in NeededOf(call) \cap call.at_start : k > First(i) + m
      BY <3>1, <3>2, <3>4, <3>5, <3>6, <3>7, <3>8 DEF Progress
    <3>10. w = n
      BY <3>9 DEF MaxOf, MinOf
    <3>11. ASSUME NEW k \in NeededOf(call) \cap call.at_start
           PROVE  FALSE
      <4>1. PICK l \in Nat : l < Count(i) /\ k = First(i) + l + 1
        BY <1>2, <2>2, <3>1, NeededIs
      <4>2. l * C < x + n
        BY <1>2, <2>2, <3>1, <3>5, <3>6, <4>1, NeededIs
      <4>3. m <= l
        <5>1. First(i) \in Nat /\ k > First(i) + m
          BY <1>2, <3>9, EntryFacts
        <5> QED
          BY <3>3, <4>1, <5>1
      <4>4. a <= l * C /\ l * C \in Nat
        BY <1>2, <3>3, <3>8, <4>3, Bounds, Times
      <4> QED
        BY <3>9, <4>2, <4>4
    <3> QED
      BY <3>6, <3>7, <3>10, <3>11
  <2> QED
    BY <1>3, <2>1, <2>2
<1>5. result' = "Ok"
  BY <1>1, <1>4
<1>6. Typing'
  <2>1. C' = C
    BY <1>1 DEF C
  <2> QED
    BY <1>1, <1>2, <1>5, <2>1 DEF Typing
<1>7. LoopInv' /\ VerifyInv'
  BY <1>1, <1>4, <1>5 DEF LoopInv, VerifyInv
<1>8. OutputInv'
  BY <1>1, <1>2, <1>5 DEF OutputInv, Byte
<1>9. AnswerInv'
  <2>1. Clipped' = Clipped
    BY <1>1 DEF Clipped, EntryAt, MinOf
  <2> QED
    BY <1>1, <1>2, <1>4, <2>1 DEF AnswerInv
<1>10. DamageIsLocal'
  <2>1. Needed' = NeededOf(call)
    BY <1>1, NextNeeded
  <2> QED
    BY <1>1, <1>4, <1>5, <2>1 DEF DamageIsLocal
<1>11. SoundTableNeverBlamed' /\ ChunkBudget'
  BY <1>1, <1>2, <1>5 DEF SoundTableNeverBlamed, ChunkBudget
<1> QED
  BY <1>6, <1>7, <1>8, <1>9, <1>10, <1>11 DEF IInv

\* Damage changes neither the call nor what it still has to read.
LEMMA DamageKeeps ==
    ASSUME IInv, NEW k \in DOMAIN toc.chunks, Damage(k)
    PROVE  IInv'
<1>1. /\ toc' = toc /\ damaged' = damaged \cup {k} /\ call' = call /\ todo' = todo /\ dst' = dst
      /\ written' = written /\ decoded' = decoded /\ result' = result /\ calls' = calls
  BY DEF Damage, callVars
<1>2. /\ Typing /\ LoopInv /\ VerifyInv /\ OutputInv /\ AnswerInv /\ DamageIsLocal
      /\ SoundTableNeverBlamed /\ ChunkBudget
  BY DEF IInv
<1>3. Typing'
  <2>1. C' = C
    BY <1>1 DEF C
  <2> QED
    BY <1>1, <1>2, <2>1 DEF Typing
<1>4. LoopInv'
  <2>1. SUFFICES ASSUME result = "none", call.op \in Sized
                 PROVE  \E m, z \in 0 .. Count(call.entry)' :
                           Progress(call, todo, written, dst, m, z)'
    BY <1>1 DEF LoopInv
  <2>2. PICK m \in 0 .. Count(call.entry), z \in 0 .. Count(call.entry) :
           Progress(call, todo, written, dst, m, z)
    BY <1>2, <2>1 DEF LoopInv
  <2>3. Progress(call, todo, written, dst, m, z)'
    BY <1>1, <2>2, NextProgress
  <2>4. Count(call.entry)' = Count(call.entry)
    BY <1>1 DEF Count, EntryAt
  <2> QED
    BY <2>3, <2>4
<1>5. VerifyInv'
  BY <1>1, <1>2 DEF VerifyInv, Count, EntryAt, GlobalChunk
<1>6. OutputInv'
  BY <1>1, <1>2 DEF OutputInv, Byte
<1>7. AnswerInv'
  <2>1. Clipped' = Clipped
    BY <1>1 DEF Clipped, EntryAt, MinOf
  <2> QED
    BY <1>1, <1>2, <2>1 DEF AnswerInv
<1>8. DamageIsLocal'
  <2>1. Needed' = Needed
    BY <1>1, NextNeeded
  <2> QED
    BY <1>1, <1>2, <2>1 DEF DamageIsLocal
<1>9. SoundTableNeverBlamed' /\ ChunkBudget'
  BY <1>1, <1>2 DEF SoundTableNeverBlamed, ChunkBudget
<1> QED
  BY <1>3, <1>4, <1>5, <1>6, <1>7, <1>8, <1>9 DEF IInv

LEMMA StutterKeeps ==
    ASSUME IInv, UNCHANGED vars
    PROVE  IInv'
<1>1. /\ toc' = toc /\ damaged' = damaged /\ call' = call /\ todo' = todo /\ dst' = dst
      /\ written' = written /\ decoded' = decoded /\ result' = result /\ calls' = calls
  BY DEF vars, callVars
<1>2. /\ Typing /\ LoopInv /\ VerifyInv /\ OutputInv /\ AnswerInv /\ DamageIsLocal
      /\ SoundTableNeverBlamed /\ ChunkBudget
  BY DEF IInv
<1>3. Typing'
  <2>1. C' = C
    BY <1>1 DEF C
  <2> QED
    BY <1>1, <1>2, <2>1 DEF Typing
<1>4. LoopInv'
  <2>1. SUFFICES ASSUME result = "none", call.op \in Sized
                 PROVE  \E m, z \in 0 .. Count(call.entry)' :
                           Progress(call, todo, written, dst, m, z)'
    BY <1>1 DEF LoopInv
  <2>2. PICK m \in 0 .. Count(call.entry), z \in 0 .. Count(call.entry) :
           Progress(call, todo, written, dst, m, z)
    BY <1>2, <2>1 DEF LoopInv
  <2>3. Progress(call, todo, written, dst, m, z)'
    BY <1>1, <2>2, NextProgress
  <2>4. Count(call.entry)' = Count(call.entry)
    BY <1>1 DEF Count, EntryAt
  <2> QED
    BY <2>3, <2>4
<1>5. VerifyInv' /\ OutputInv'
  BY <1>1, <1>2 DEF VerifyInv, OutputInv, Count, EntryAt, GlobalChunk, Byte
<1>6. AnswerInv'
  <2>1. Clipped' = Clipped
    BY <1>1 DEF Clipped, EntryAt, MinOf
  <2> QED
    BY <1>1, <1>2, <2>1 DEF AnswerInv
<1>7. DamageIsLocal'
  <2>1. Needed' = Needed
    BY <1>1, NextNeeded
  <2> QED
    BY <1>1, <1>2, <2>1 DEF DamageIsLocal
<1>8. SoundTableNeverBlamed' /\ ChunkBudget'
  BY <1>1, <1>2 DEF SoundTableNeverBlamed, ChunkBudget
<1> QED
  BY <1>3, <1>4, <1>5, <1>6, <1>7, <1>8 DEF IInv

-----------------------------------------------------------------------------
(* The theorems.                                                           *)

LEMMA InitIInv ==
    ASSUME Init
    PROVE  IInv
<1>1. /\ toc \in Layouts /\ damaged = {} /\ call = NoCall /\ todo = << >> /\ dst = << >>
      /\ written = 0 /\ decoded = << >> /\ result = "Ok" /\ calls = 0
  BY DEF Init
<1>2. /\ call \in Calls /\ call.op = "none" /\ call.at_start = {} /\ call.op \notin Sized
      /\ call.op \notin Direct /\ call.op \notin RangeOps
  BY <1>1, Literals DEF NoCall, Calls, Sized, Direct, RangeOps
<1>3. Typing
  <2>1. dst \in Seq(Bytes) /\ Len(dst) = 0 /\ decoded \in Seq(Bytes) /\ Len(decoded) = 0
    BY <1>1
  <2>2. C \in Nat /\ MaxCalls \in Nat
    BY <1>1, Bounds
  <2>3. todo \in Seq([entry : DOMAIN toc.entries, local : Nat])
    BY <1>1
  <2> QED
    BY <1>1, <1>2, <2>1, <2>2, <2>3 DEF Typing
<1>4. LoopInv /\ VerifyInv /\ OutputInv /\ AnswerInv
  BY <1>1, <1>2 DEF LoopInv, VerifyInv, OutputInv, AnswerInv
<1>5. DamageIsLocal /\ SoundTableNeverBlamed
  BY <1>1, <1>2 DEF DamageIsLocal, SoundTableNeverBlamed
<1>6. ChunkBudget
  <2>1. Len(todo) = 0
    BY <1>1
  <2> QED
    BY <2>1, Bounds DEF ChunkBudget
<1> QED
  BY <1>3, <1>4, <1>5, <1>6 DEF IInv

LEMMA StepIInv ==
    ASSUME IInv, [Next]_vars
    PROVE  IInv'
<1>1. ASSUME NEW i \in DOMAIN toc.entries, Read(i)
      PROVE  IInv'
  BY <1>1, ReadKeeps
<1>2. ASSUME NEW i \in DOMAIN toc.entries, NEW len \in Lens, ReadInto(i, len)
      PROVE  IInv'
  BY <1>2, ReadIntoKeeps
<1>3. ASSUME NEW i \in DOMAIN toc.entries, NEW k \in Lens, ReadChunk(i, k)
      PROVE  IInv'
  BY <1>3, ReadChunkKeeps
<1>4. ASSUME NEW i \in DOMAIN toc.entries, NEW k \in Lens, NEW len \in Lens,
             ReadChunkInto(i, k, len)
      PROVE  IInv'
  BY <1>4, ReadChunkIntoKeeps
<1>5. ASSUME NEW i \in DOMAIN toc.entries, NEW x \in Offsets, NEW len \in Lens,
             NEW exact \in BOOLEAN, ReadRange(i, x, len, exact)
      PROVE  IInv'
  BY <1>5, ReadRangeKeeps
<1>6. ASSUME NEW i \in DOMAIN toc.entries, NEW x \in Offsets, NEW len \in Lens,
             ReadRangeInto(i, x, len)
      PROVE  IInv'
  BY <1>6, ReadRangeIntoKeeps
<1>7. CASE Verify
  BY <1>7, VerifyKeeps
<1>8. CASE ReadToOutput
  BY <1>8, ReadToOutputKeeps
<1>9. CASE ReadToScratch
  BY <1>9, ReadToScratchKeeps
<1>10. CASE VerifyChunk
  BY <1>10, VerifyChunkKeeps
<1>11. CASE Return
  BY <1>11, ReturnKeeps
<1>12. ASSUME NEW k \in DOMAIN toc.chunks, Damage(k)
       PROVE  IInv'
  BY <1>12, DamageKeeps
<1>13. CASE NoMoreCalls \/ UNCHANGED vars
  BY <1>13, StutterKeeps DEF NoMoreCalls
<1> QED
  BY <1>1, <1>2, <1>3, <1>4, <1>5, <1>6, <1>7, <1>8, <1>9, <1>10, <1>11, <1>12, <1>13
  DEF Next, CallStep

LEMMA Invariance == Spec => []IInv
<1>1. Init => IInv
  BY InitIInv
<1>2. IInv /\ [Next]_vars => IInv'
  BY StepIInv
<1> QED
  BY <1>1, <1>2, PTL DEF Spec

\* No loop of reader.rs writes past its output or leaves its scratch longer
\* than a chunk, and a call that has ended has nothing left to read.
THEOREM ReaderTypes == Spec => []TypeOK
<1>1. IInv => TypeOK
  BY DEF IInv, Typing, TypeOK, C
<1> QED
  BY <1>1, Invariance, PTL

\* Whatever happens to the stored bytes and whatever the scratch held, a read
\* that returns Ok returns the asset's own bytes, as many as were asked for or
\* as there are, and leaves the rest of the caller's buffer as it was.
THEOREM ReadsAreTheAsset == Spec => []ReadsReturnTheAsset
<1>1. IInv => ReadsReturnTheAsset
  <2>1. SUFFICES ASSUME IInv, result = "Ok", call.op \notin {"none", "verify"}
                 PROVE  /\ call.n = Clipped
                        /\ \A j \in DOMAIN dst :
                              dst[j] = IF j <= call.n THEN Byte(call.entry, call.from + j - 1)
                                       ELSE call.fill
    BY DEF ReadsReturnTheAsset
  <2>2. call.op \in Sized
    BY <2>1 DEF IInv, Typing, Calls
  <2>3. call.n = Clipped /\ written = call.n
    BY <2>1, <2>2 DEF IInv, AnswerInv
  <2>4. call.op \in RangeOps \/ call.op \in Direct
    BY <2>2 DEF Sized
  <2> QED
    BY <2>1, <2>3, <2>4 DEF IInv, OutputInv
<1> QED
  BY <1>1, Invariance, PTL

\* read_range_index_into lets no byte into the output before the checksum of
\* its chunk was checked, also when the range read ends in an error.
THEOREM RangeOutputIsVerified == Spec => []RangeWritesVerified
<1>1. IInv => RangeWritesVerified
  BY DEF IInv, OutputInv, RangeWritesVerified
<1> QED
  BY <1>1, Invariance, PTL

\* A call fails for damage only where a chunk it needs is damaged, and returns
\* Ok only if none was when it began: verify misses no chunk and a range read
\* looks at no chunk it does not need.
THEOREM DamageIsReportedWhereItIs == Spec => []DamageIsLocal
<1>1. IInv => DamageIsLocal
  BY DEF IInv
<1> QED
  BY <1>1, Invariance, PTL

\* For a table validate_layout accepted, the loops' own checks for a corrupt
\* table never fire.
THEOREM AcceptedTablesAreNeverBlamed == Spec => []SoundTableNeverBlamed
<1>1. IInv => SoundTableNeverBlamed
  BY DEF IInv
<1> QED
  BY <1>1, Invariance, PTL

\* No call takes on more chunks than max_chunks_per_operation, verify, which
\* walks the chunks of every entry, included.
THEOREM CallsKeepTheirBudget == Spec => []ChunkBudget
<1>1. IInv => ChunkBudget
  BY DEF IInv
<1> QED
  BY <1>1, Invariance, PTL
=============================================================================
