-------------------------- MODULE OpenArchiveProofs --------------------------
(***************************************************************************)
(* Theorems about opening an archive, for every file, caller and limit.    *)
(* First what normalize_path computes: its loop, turn by turn, against the *)
(* names a path goes through.  Then the invariant of open_with_limits: the *)
(* decoder's accounts, and the part of the index that has been checked.    *)
(***************************************************************************)
EXTENDS OpenArchive, SumTheorems, SequenceTheorems

-----------------------------------------------------------------------------
(* The loop of normalize_path.                                             *)

\* after is what the loop has made of the path after each of n turns.
Turns(after, path, n) ==
    after = [i \in 0 .. n |-> IF i = 0 THEN << >> ELSE Turn(after[i - 1], i, path[i])]

LEMMA LoopIs ==
    ASSUME NEW path
    PROVE  Loop(path) = (CHOOSE after : Turns(after, path, Len(path)))[Len(path)]
  BY Zenon DEF Loop, Turns

LEMMA TurnsFacts ==
    ASSUME NEW path, NEW n \in Nat, NEW after, Turns(after, path, n)
    PROVE  /\ DOMAIN after = 0 .. n
           /\ after[0] = << >>
           /\ \A i \in 1 .. n : after[i] = Turn(after[i - 1], i, path[i])
<1> DEFINE T == [i \in 0 .. n |-> IF i = 0 THEN << >> ELSE Turn(after[i - 1], i, path[i])]
<1>1. after = T
  BY DEF Turns
<1>2. DOMAIN T = 0 .. n
  OBVIOUS
<1>3. T[0] = << >>
  OBVIOUS
<1>4. \A i \in 1 .. n : T[i] = Turn(after[i - 1], i, path[i])
  OBVIOUS
<1> HIDE DEF T
<1> QED
  BY <1>1, <1>2, <1>3, <1>4

LEMMA TurnsExist ==
    ASSUME NEW path, NEW n \in Nat
    PROVE  \E after : Turns(after, path, n)
<1> DEFINE B == {m \in Nat : ~ \E after : Turns(after, path, m)}
<1>1. SUFFICES ASSUME B # {} PROVE FALSE
  OBVIOUS
<1>2. PICK m \in B : \A k \in B : m <= k
  <2>1. B \in SUBSET Nat
    OBVIOUS
  <2> HIDE DEF B
  <2> QED
    BY <1>1, <2>1, SmallestNat
<1>3. m \in Nat /\ ~ \E after : Turns(after, path, m)
  BY <1>2
<1>4. m # 0
  <2> DEFINE g == [i \in 0 .. 0 |-> << >>]
  <2>1. g = [i \in 0 .. 0 |-> IF i = 0 THEN << >> ELSE Turn(g[i - 1], i, path[i])]
    OBVIOUS
  <2>2. Turns(g, path, 0)
    BY <2>1 DEF Turns
  <2> QED
    BY <1>3, <2>2
<1>5. PICK f : Turns(f, path, m - 1)
  <2>1. m - 1 \in Nat /\ ~ (m <= m - 1)
    BY <1>3, <1>4
  <2>2. m - 1 \notin B
    BY <1>2, <2>1
  <2> QED
    BY <2>1, <2>2
<1>6. /\ f[0] = << >>
      /\ \A i \in 1 .. (m - 1) : f[i] = Turn(f[i - 1], i, path[i])
  BY <1>3, <1>4, <1>5, TurnsFacts
<1> DEFINE g == [i \in 0 .. m |-> IF i = m THEN Turn(f[m - 1], m, path[m]) ELSE f[i]]
<1>7. /\ g[0] = << >> /\ DOMAIN g = 0 .. m
      /\ \A i \in 1 .. m : g[i] = Turn(g[i - 1], i, path[i])
  <2>1. g[0] = << >>
    BY <1>3, <1>4, <1>6
  <2>2. ASSUME NEW i \in 1 .. m PROVE g[i] = Turn(g[i - 1], i, path[i])
    <3>1. i \in 0 .. m /\ i - 1 \in 0 .. m /\ i - 1 # m
      BY <1>3
    <3>2. g[i - 1] = f[i - 1]
      BY <3>1
    <3>3. CASE i = m
      BY <3>1, <3>2, <3>3
    <3>4. CASE i # m
      <4>1. i \in 1 .. (m - 1)
        BY <1>3, <3>4
      <4>2. g[i] = f[i]
        BY <3>1, <3>4
      <4> QED
        BY <4>1, <4>2, <3>2, <1>6
    <3> QED
      BY <3>3, <3>4
  <2> QED
    BY <2>1, <2>2
<1>8. Turns(g, path, m)
  <2> DEFINE T == [i \in 0 .. m |-> IF i = 0 THEN << >> ELSE Turn(g[i - 1], i, path[i])]
  <2>1. \A i \in 0 .. m : g[i] = T[i]
    BY <1>7
  <2>2. g = T
    <3>1. DOMAIN T = 0 .. m
      OBVIOUS
    <3>2. g = [i \in 0 .. m |-> g[i]] /\ T = [i \in 0 .. m |-> T[i]]
      OBVIOUS
    <3> HIDE DEF T, g
    <3> QED
      BY <2>1, <3>2
  <2> HIDE DEF g
  <2> QED
    BY <2>2 DEF Turns
<1> QED
  BY <1>3, <1>8

\* The loop's turns, and that it returns what the last one left.
LEMMA LoopTurns ==
    ASSUME NEW path \in Seq(Parts)
    PROVE  \E after : /\ after[0] = << >>
                      /\ \A i \in 1 .. Len(path) : after[i] = Turn(after[i - 1], i, path[i])
                      /\ Loop(path) = after[Len(path)]
<1>1. Len(path) \in Nat
  OBVIOUS
<1> DEFINE after == CHOOSE g : Turns(g, path, Len(path))
<1>2. Turns(after, path, Len(path))
  BY <1>1, TurnsExist
<1>3. Loop(path) = after[Len(path)]
  BY LoopIs
<1> HIDE DEF after
<1> QED
  BY <1>1, <1>2, <1>3, TurnsFacts

-----------------------------------------------------------------------------
(* Counting the names of a path.                                           *)

LEMMA PathConstants ==
    /\ MAX_PATH_LEN \in Nat /\ MAX_PATH_SEGMENTS \in Nat
    /\ Rejected \notin Seq(Parts)
    /\ PartLen \in [Parts -> Nat]
<1>1. {MAX_PATH_LEN, MAX_PATH_SEGMENTS} \subseteq Nat
  BY NormalizePathAssumption, Zenon
<1>2. Rejected \notin Seq(Parts) /\ PartLen \in [Parts -> Nat]
  BY NormalizePathAssumption, Zenon
<1> QED
  BY <1>1, <1>2

LEMMA FirstNumbers ==
    ASSUME NEW n \in Nat
    PROVE  IsFiniteSet(1 .. n) /\ Cardinality(1 .. n) = n
<1>1. 1 \in Int /\ n \in Int
  OBVIOUS
<1>2. /\ IsFiniteSet(1 .. n)
      /\ Cardinality(1 .. n) = IF 1 > n THEN 0 ELSE n - 1 + 1
  BY <1>1, FS_Interval
<1> QED
  BY <1>2

LEMMA NamesFacts ==
    ASSUME NEW s \in Seq(Parts)
    PROVE  /\ Len(s) \in Nat /\ DOMAIN s = 1 .. Len(s)
           /\ Names(s) \subseteq 1 .. Len(s)
           /\ \A i \in Nat : /\ IsFiniteSet({j \in Names(s) : j <= i})
                             /\ NamesUpTo(s, i) \in Nat
           /\ NamesUpTo(s, 0) = 0
           /\ NamesUpTo(s, Len(s)) = Cardinality(Names(s))
<1>1. Len(s) \in Nat /\ DOMAIN s = 1 .. Len(s)
  OBVIOUS
<1>2. Names(s) \subseteq 1 .. Len(s)
  BY <1>1 DEF Names
<1>3. IsFiniteSet(Names(s))
  BY <1>1, <1>2, FirstNumbers, FS_Subset
<1>4. ASSUME NEW i \in Nat
      PROVE  /\ IsFiniteSet({j \in Names(s) : j <= i})
             /\ NamesUpTo(s, i) \in Nat
  <2>1. {j \in Names(s) : j <= i} \in SUBSET Names(s)
    OBVIOUS
  <2>2. IsFiniteSet({j \in Names(s) : j <= i})
    BY <1>3, <2>1, FS_Subset
  <2> QED
    BY <2>2, FS_CardinalityType DEF NamesUpTo
<1>5. {j \in Names(s) : j <= 0} = {} /\ {j \in Names(s) : j <= Len(s)} = Names(s)
  BY <1>1, <1>2
<1>6. NamesUpTo(s, 0) = 0
  BY <1>5, FS_EmptySet DEF NamesUpTo
<1> QED
  BY <1>1, <1>2, <1>4, <1>5, <1>6 DEF NamesUpTo

LEMMA NamesStep ==
    ASSUME NEW s \in Seq(Parts), NEW i \in 1 .. Len(s)
    PROVE  /\ i \in Names(s) => NamesUpTo(s, i) = NamesUpTo(s, i - 1) + 1
           /\ i \notin Names(s) => NamesUpTo(s, i) = NamesUpTo(s, i - 1)
<1> DEFINE before == {j \in Names(s) : j <= i - 1}
           upto == {j \in Names(s) : j <= i}
<1>1. i - 1 \in Nat /\ IsFiniteSet(before) /\ \A j \in Names(s) : j \in Nat
  BY NamesFacts
<1>2. i \notin before
  BY <1>1
<1>3. \A j \in Nat : j <= i <=> j <= i - 1 \/ j = i
  OBVIOUS
<1>4. i \in Names(s) => upto = before \cup {i}
  BY <1>1, <1>3
<1>5. i \notin Names(s) => upto = before
  BY <1>1, <1>3
<1>6. Cardinality(before \cup {i}) = Cardinality(before) + 1
  BY <1>1, <1>2, FS_AddElement
<1>7. NamesUpTo(s, i) = Cardinality(upto) /\ NamesUpTo(s, i - 1) = Cardinality(before)
  BY DEF NamesUpTo
<1> HIDE DEF before, upto
<1> QED
  BY <1>4, <1>5, <1>6, <1>7

LEMMA NamesOrdered ==
    ASSUME NEW s \in Seq(Parts), NEW j \in Names(s), NEW i \in Names(s), j < i
    PROVE  NamesUpTo(s, j) < NamesUpTo(s, i)
<1> DEFINE first == {k \in Names(s) : k <= j}
           more == {k \in Names(s) : k <= i - 1}
<1>1. i \in 1 .. Len(s) /\ j \in Nat /\ i - 1 \in Nat /\ j <= i - 1
      /\ \A k \in Names(s) : k \in Nat
  BY NamesFacts
<1>2. first \in SUBSET more
  <2>1. ASSUME NEW k \in first PROVE k \in more
    <3>1. k \in Names(s) /\ k <= j /\ k \in Nat
      BY <1>1
    <3>2. k <= i - 1
      BY <1>1, <3>1
    <3> QED
      BY <3>1, <3>2
  <2> QED
    BY <2>1
<1>3. IsFiniteSet(more) /\ NamesUpTo(s, j) \in Nat /\ NamesUpTo(s, i - 1) \in Nat
  BY <1>1, NamesFacts
<1>4. Cardinality(first) <= Cardinality(more)
  BY <1>2, <1>3, FS_Subset
<1>5. NamesUpTo(s, j) = Cardinality(first) /\ NamesUpTo(s, i - 1) = Cardinality(more)
  BY DEF NamesUpTo
<1>6. NamesUpTo(s, i) = NamesUpTo(s, i - 1) + 1
  BY <1>1, NamesStep
<1> HIDE DEF first, more
<1> QED
  BY <1>3, <1>4, <1>5, <1>6

-----------------------------------------------------------------------------
(* The bytes of a path.                                                    *)

PartBytes(s) == [i \in DOMAIN s |-> PartLen[s[i]]]

LEMMA PartBytesFacts ==
    ASSUME NEW s \in Seq(Parts)
    PROVE  /\ PartBytes(s) \in [1 .. Len(s) -> Nat]
           /\ SumFunction(PartBytes(s)) \in Nat
           /\ SumFunction(PartBytes(s)) = SumFunctionOnSet(PartBytes(s), 1 .. Len(s))
           /\ ByteLen(s) \in Nat
           /\ s # << >> => Len(s) >= 1 /\ ByteLen(s) = SumFunction(PartBytes(s)) + (Len(s) - 1)
<1>1. Len(s) \in Nat /\ DOMAIN s = 1 .. Len(s) /\ \A i \in 1 .. Len(s) : s[i] \in Parts
  OBVIOUS
<1>2. PartBytes(s) \in [1 .. Len(s) -> Nat]
  BY <1>1, NormalizePathAssumption DEF PartBytes
<1>3. IsFiniteSet(1 .. Len(s)) /\ \A i \in 1 .. Len(s) : PartBytes(s)[i] \in Nat
  BY <1>1, <1>2, FirstNumbers
<1>4. SumFunctionOnSet(PartBytes(s), 1 .. Len(s)) \in Nat
  BY <1>3, SumType
<1>5. SumFunction(PartBytes(s)) = SumFunctionOnSet(PartBytes(s), 1 .. Len(s))
  BY <1>2 DEF SumFunction
<1>6. s # << >> => Len(s) >= 1
  BY <1>1, EmptySeq
<1>7. ByteLen(s) = SumFunction(PartBytes(s)) + IF s = << >> THEN 0 ELSE Len(s) - 1
  BY DEF ByteLen, PartBytes
<1> QED
  BY <1>1, <1>2, <1>4, <1>5, <1>6, <1>7

LEMMA PartBytesAppend ==
    ASSUME NEW s \in Seq(Parts), NEW p \in Parts
    PROVE  SumFunction(PartBytes(Append(s, p))) = SumFunction(PartBytes(s)) + PartLen[p]
<1> DEFINE t == Append(s, p)
<1>1. /\ t \in Seq(Parts) /\ Len(s) \in Nat /\ Len(t) = Len(s) + 1
      /\ \A i \in 1 .. Len(s) : t[i] = s[i]
      /\ t[Len(s) + 1] = p
      /\ DOMAIN s = 1 .. Len(s) /\ DOMAIN t = 1 .. Len(s) + 1
  OBVIOUS
<1> HIDE DEF t
<1>2. PartBytes(s) \in [1 .. Len(s) -> Nat] /\ PartBytes(t) \in [1 .. Len(s) + 1 -> Nat]
  BY <1>1, PartBytesFacts
<1>3. /\ \A i \in 1 .. Len(s) : PartBytes(t)[i] = PartBytes(s)[i]
      /\ PartBytes(t)[Len(s) + 1] = PartLen[p]
  BY <1>1 DEF PartBytes
<1>4. SumFunction(PartBytes(t)) = SumFunction(PartBytes(s)) + PartBytes(t)[Len(s) + 1]
  BY <1>1, <1>2, <1>3, SumOneMore
<1> QED
  BY <1>3, <1>4 DEF t

-----------------------------------------------------------------------------
(* What the loop has kept after i turns: the names up to there, in order.  *)

NoWay(path, i) == \E j \in 1 .. i : j > MAX_PATH_SEGMENTS \/ path[j] = ".."

Kept(a, path, i) ==
    /\ a \in Seq(Parts)
    /\ Len(a) = NamesUpTo(path, i)
    /\ \A j \in Names(path) : j <= i => /\ NamesUpTo(path, j) \in 1 .. Len(a)
                                        /\ a[NamesUpTo(path, j)] = path[j]
    /\ \A k \in 1 .. Len(a) : \E j \in Names(path) : j <= i /\ NamesUpTo(path, j) = k
    /\ Len(a) <= i
    /\ SumFunction(PartBytes(a)) <= SumFunctionOnSet(PartBytes(path), 1 .. i)

LEMMA KeptNothing ==
    ASSUME NEW path \in Seq(Parts)
    PROVE  Kept(<< >>, path, 0)
<1>1. << >> \in Seq(Parts) /\ Len(<< >>) = 0
  OBVIOUS
<1>2. NamesUpTo(path, 0) = 0 /\ \A j \in Names(path) : ~ (j <= 0)
  BY NamesFacts
<1>3. DOMAIN PartBytes(<< >>) = {} /\ 1 .. 0 = {}
  BY DEF PartBytes
<1>4. SumFunction(PartBytes(<< >>)) = 0 /\ SumFunctionOnSet(PartBytes(path), 1 .. 0) = 0
  BY <1>3, SumEmpty DEF SumFunction
<1> QED
  BY <1>1, <1>2, <1>4 DEF Kept

LEMMA PrefixBytes ==
    ASSUME NEW path \in Seq(Parts), NEW i \in 1 .. Len(path)
    PROVE  /\ PartLen[path[i]] \in Nat
           /\ SumFunctionOnSet(PartBytes(path), 1 .. (i - 1)) \in Nat
           /\ SumFunctionOnSet(PartBytes(path), 1 .. i)
                 = SumFunctionOnSet(PartBytes(path), 1 .. (i - 1)) + PartLen[path[i]]
<1> DEFINE f == PartBytes(path)
<1>1. f \in [1 .. Len(path) -> Nat] /\ f[i] = PartLen[path[i]] /\ Len(path) \in Nat
  <2>1. Len(path) \in Nat /\ DOMAIN path = 1 .. Len(path)
    OBVIOUS
  <2>2. f \in [1 .. Len(path) -> Nat]
    BY PartBytesFacts
  <2>3. f[i] = PartLen[path[i]]
    BY <2>1 DEF PartBytes
  <2> QED
    BY <2>1, <2>2, <2>3
<1> HIDE DEF f
<1>2. i - 1 \in Nat /\ i \notin 1 .. (i - 1) /\ 1 .. i = (1 .. (i - 1)) \cup {i}
  OBVIOUS
<1>3. f[i] \in Nat /\ \A x \in 1 .. (i - 1) : f[x] \in Nat
  BY <1>1
<1>4. IsFiniteSet(1 .. (i - 1))
  BY <1>2, FirstNumbers
<1>5. SumFunctionOnSet(f, (1 .. (i - 1)) \cup {i}) = SumFunctionOnSet(f, 1 .. (i - 1)) + f[i]
  BY <1>2, <1>3, <1>4, SumAdd
<1>6. SumFunctionOnSet(f, 1 .. (i - 1)) \in Nat
  BY <1>3, <1>4, SumType
<1> QED
  BY <1>1, <1>2, <1>3, <1>5, <1>6 DEF f

LEMMA KeptTurn ==
    ASSUME NEW path \in Seq(Parts), NEW i \in 1 .. Len(path), NEW a,
           Kept(a, path, i - 1), i <= MAX_PATH_SEGMENTS, path[i] # ".."
    PROVE  Kept(Turn(a, i, path[i]), path, i)
<1>1. /\ i \in Nat /\ i - 1 \in Nat /\ path[i] \in Parts
      /\ Len(path) \in Nat /\ DOMAIN path = 1 .. Len(path) /\ MAX_PATH_SEGMENTS \in Nat
  <2>1. Len(path) \in Nat /\ DOMAIN path = 1 .. Len(path) /\ path[i] \in Parts
    OBVIOUS
  <2> QED
    BY <2>1, PathConstants
<1>2. a \in Seq(Parts) /\ a # Rejected /\ Len(a) \in Nat
  BY PathConstants DEF Kept
<1>3. /\ Len(a) = NamesUpTo(path, i - 1) /\ Len(a) <= i - 1
      /\ \A j \in Names(path) : j <= i - 1 => /\ NamesUpTo(path, j) \in 1 .. Len(a)
                                              /\ a[NamesUpTo(path, j)] = path[j]
      /\ \A k \in 1 .. Len(a) : \E j \in Names(path) : j <= i - 1 /\ NamesUpTo(path, j) = k
      /\ SumFunction(PartBytes(a)) <= SumFunctionOnSet(PartBytes(path), 1 .. (i - 1))
  BY DEF Kept
<1>4. \A j \in Names(path) : j \in Nat
  BY NamesFacts
<1>5. \A j \in Names(path) : j <= i <=> j <= i - 1 \/ j = i
  BY <1>1, <1>4
<1>6. /\ SumFunctionOnSet(PartBytes(path), 1 .. (i - 1)) \in Nat /\ PartLen[path[i]] \in Nat
      /\ SumFunctionOnSet(PartBytes(path), 1 .. i)
            = SumFunctionOnSet(PartBytes(path), 1 .. (i - 1)) + PartLen[path[i]]
      /\ SumFunction(PartBytes(a)) \in Nat
  BY <1>2, PrefixBytes, PartBytesFacts
<1>7. CASE path[i] \in Dropped
  <2>1. i \notin Names(path)
    BY <1>7 DEF Dropped, Names
  <2>2. NamesUpTo(path, i) = NamesUpTo(path, i - 1)
    BY <2>1, NamesStep
  <2>3. Turn(a, i, path[i]) = a
    BY <1>1, <1>2, <1>7 DEF Turn
  <2>4. \A j \in Names(path) : j <= i => j <= i - 1
    BY <1>5, <2>1
  <2>5. /\ Len(a) <= i
        /\ SumFunction(PartBytes(a)) <= SumFunctionOnSet(PartBytes(path), 1 .. i)
    BY <1>1, <1>2, <1>3, <1>6
  <2>6. \A k \in 1 .. Len(a) : \E j \in Names(path) : j <= i /\ NamesUpTo(path, j) = k
    BY <1>3, <1>5
  <2>7. \A j \in Names(path) : j <= i => /\ NamesUpTo(path, j) \in 1 .. Len(a)
                                         /\ a[NamesUpTo(path, j)] = path[j]
    BY <1>3, <2>4
  <2> QED
    BY <1>2, <1>3, <2>2, <2>3, <2>5, <2>6, <2>7 DEF Kept
<1>8. CASE path[i] \notin Dropped
  <2> DEFINE b == Append(a, path[i])
  <2>1. i \in Names(path)
    BY <1>1, <1>8 DEF Dropped, Names
  <2>2. NamesUpTo(path, i) = NamesUpTo(path, i - 1) + 1
    BY <2>1, NamesStep
  <2>3. Turn(a, i, path[i]) = b
    BY <1>1, <1>2, <1>8 DEF Turn
  <2>4. /\ b \in Seq(Parts) /\ Len(b) = Len(a) + 1 /\ b[Len(a) + 1] = path[i]
        /\ \A k \in 1 .. Len(a) : b[k] = a[k]
    BY <1>1, <1>2
  <2>5. SumFunction(PartBytes(b)) = SumFunction(PartBytes(a)) + PartLen[path[i]]
    BY <1>1, <1>2, PartBytesAppend
  <2> HIDE DEF b
  <2>6. /\ Len(b) <= i
        /\ SumFunction(PartBytes(b)) <= SumFunctionOnSet(PartBytes(path), 1 .. i)
    BY <1>1, <1>2, <1>3, <1>6, <2>4, <2>5
  <2>7. ASSUME NEW j \in Names(path), j <= i
        PROVE  /\ NamesUpTo(path, j) \in 1 .. Len(b)
               /\ b[NamesUpTo(path, j)] = path[j]
    <3>1. CASE j = i
      BY <1>2, <1>3, <2>2, <2>4, <3>1
    <3>2. CASE j <= i - 1
      <4>1. NamesUpTo(path, j) \in 1 .. Len(a) /\ a[NamesUpTo(path, j)] = path[j]
        BY <1>3, <3>2
      <4> QED
        BY <1>2, <2>4, <4>1
    <3> QED
      BY <1>5, <2>7, <3>1, <3>2
  <2>8. ASSUME NEW k \in 1 .. Len(b)
        PROVE  \E j \in Names(path) : j <= i /\ NamesUpTo(path, j) = k
    <3>1. CASE k \in 1 .. Len(a)
      BY <1>3, <1>5, <3>1
    <3>2. CASE k = Len(a) + 1
      BY <1>1, <1>3, <2>1, <2>2, <3>2
    <3> QED
      BY <1>2, <2>4, <3>1, <3>2
  <2>9. Len(b) = NamesUpTo(path, i)
    BY <1>3, <2>2, <2>4
  <2> QED
    BY <2>3, <2>4, <2>6, <2>7, <2>8, <2>9 DEF Kept
<1> QED
  BY <1>7, <1>8

LEMMA LoopKeeps ==
    ASSUME NEW path \in Seq(Parts), NEW after, after[0] = << >>,
           \A i \in 1 .. Len(path) : after[i] = Turn(after[i - 1], i, path[i])
    PROVE  \A i \in 0 .. Len(path) :
              IF NoWay(path, i) THEN after[i] = Rejected ELSE Kept(after[i], path, i)
<1> DEFINE Good(i) == IF NoWay(path, i) THEN after[i] = Rejected ELSE Kept(after[i], path, i)
           B == {i \in 0 .. Len(path) : ~ Good(i)}
<1>1. SUFFICES ASSUME B # {} PROVE FALSE
  OBVIOUS
<1>2. PICK i \in B : \A k \in B : i <= k
  <2>1. B \in SUBSET Nat
    OBVIOUS
  <2> HIDE DEF B
  <2> QED
    BY <1>1, <2>1, SmallestNat
<1>3. i \in 0 .. Len(path) /\ ~ Good(i) /\ Len(path) \in Nat
  BY <1>2
<1>4. i # 0
  <2>1. ~ NoWay(path, 0)
    BY DEF NoWay
  <2>2. Kept(after[0], path, 0)
    BY KeptNothing
  <2> QED
    BY <1>3, <2>1, <2>2
<1>5. i \in 1 .. Len(path) /\ i - 1 \in 0 .. Len(path) /\ ~ (i <= i - 1)
  BY <1>3, <1>4
<1>6. Good(i - 1)
  <2>1. i - 1 \notin B
    BY <1>2, <1>5
  <2> QED
    BY <1>5, <2>1
<1>7. after[i] = Turn(after[i - 1], i, path[i])
  BY <1>5
<1>8. 1 .. i = (1 .. (i - 1)) \cup {i} /\ MAX_PATH_SEGMENTS \in Nat
  <2>1. 1 .. i = (1 .. (i - 1)) \cup {i}
    BY <1>3, <1>5
  <2> QED
    BY <2>1, PathConstants
<1>9. NoWay(path, i) <=> NoWay(path, i - 1) \/ i > MAX_PATH_SEGMENTS \/ path[i] = ".."
  BY <1>8 DEF NoWay
<1>10. CASE NoWay(path, i - 1)
  <2>1. after[i - 1] = Rejected /\ NoWay(path, i)
    BY <1>6, <1>9, <1>10
  <2>2. after[i] = Rejected
    BY <1>7, <2>1 DEF Turn
  <2> QED
    BY <1>3, <2>1, <2>2
<1>11. CASE ~ NoWay(path, i - 1) /\ NoWay(path, i)
  <2>1. after[i] = Rejected
    BY <1>7, <1>9, <1>11 DEF Turn
  <2> QED
    BY <1>3, <1>11, <2>1
<1>12. CASE ~ NoWay(path, i)
  <2>1. Kept(after[i - 1], path, i - 1)
    BY <1>6, <1>9, <1>12
  <2>2. i <= MAX_PATH_SEGMENTS /\ path[i] # ".."
    BY <1>5, <1>8, <1>9, <1>12
  <2>3. Kept(after[i], path, i)
    BY <1>5, <1>7, <2>1, <2>2, KeptTurn
  <2> QED
    BY <1>3, <1>12, <2>3
<1> QED
  BY <1>10, <1>11, <1>12

\* normalize_path, which walks over the parts and gives up at "..", at too
\* many parts and at an empty or too long result, returns exactly the names the
\* path goes through, and refuses exactly the paths that leave their root, name
\* nothing, hold a NUL, start with a separator or are too long; what it returns
\* is no longer than what it was given.
THEOREM NormalizationIsExact ==
    ASSUME NEW s \in Seq(Parts)
    PROVE  /\ normalize_path(s) = IF Accepted(s) THEN Reference(s) ELSE Rejected
           /\ Accepted(s) => /\ Reference(s) \in Seq(Parts)
                             /\ ByteLen(Reference(s)) <= ByteLen(s)
<1>1. PICK after : /\ after[0] = << >>
                   /\ \A i \in 1 .. Len(s) : after[i] = Turn(after[i - 1], i, s[i])
                   /\ Loop(s) = after[Len(s)]
  BY LoopTurns
<1>2. Len(s) \in Nat /\ DOMAIN s = 1 .. Len(s) /\ Len(s) \in 0 .. Len(s)
  OBVIOUS
<1>3. IF NoWay(s, Len(s)) THEN Loop(s) = Rejected ELSE Kept(Loop(s), s, Len(s))
  <2>1. IF NoWay(s, Len(s)) THEN after[Len(s)] = Rejected
                            ELSE Kept(after[Len(s)], s, Len(s))
    BY <1>1, <1>2, LoopKeeps
  <2> QED
    BY <1>1, <2>1
<1>4. NoWay(s, Len(s)) <=> ".." \in Range(s) \/ ~ (Len(s) <= MAX_PATH_SEGMENTS)
  <2>1. MAX_PATH_SEGMENTS \in Nat
    BY PathConstants
  <2>2. ".." \in Range(s) <=> \E j \in 1 .. Len(s) : s[j] = ".."
    BY <1>2 DEF Range
  <2>3. (\E j \in 1 .. Len(s) : j > MAX_PATH_SEGMENTS) <=> ~ (Len(s) <= MAX_PATH_SEGMENTS)
    <3>1. ~ (Len(s) <= MAX_PATH_SEGMENTS) => Len(s) \in 1 .. Len(s) /\ Len(s) > MAX_PATH_SEGMENTS
      BY <1>2, <2>1
    <3>2. \A j \in 1 .. Len(s) : j > MAX_PATH_SEGMENTS => ~ (Len(s) <= MAX_PATH_SEGMENTS)
      BY <1>2, <2>1
    <3> QED
      BY <3>1, <3>2
  <2> QED
    BY <2>2, <2>3 DEF NoWay
<1>5. CASE NoWay(s, Len(s))
  <2>1. ~ Accepted(s)
    BY <1>4, <1>5 DEF Accepted
  <2>2. normalize_path(s) = Rejected
    BY <1>3, <1>5 DEF normalize_path
  <2> QED
    BY <2>1, <2>2
<1>6. CASE ~ NoWay(s, Len(s))
  <2> DEFINE a == Loop(s)
             n == Cardinality(Names(s))
  <2>1. Kept(a, s, Len(s))
    BY <1>3, <1>6
  <2> HIDE DEF a
  <2>2. /\ a \in Seq(Parts) /\ a # Rejected /\ Len(a) = n /\ n \in Nat
        /\ \A j \in Names(s) : j <= Len(s)
    <3>1. a \in Seq(Parts) /\ Len(a) = NamesUpTo(s, Len(s))
      BY <2>1 DEF Kept
    <3>2. /\ NamesUpTo(s, Len(s)) = n /\ n \in Nat
          /\ Names(s) \subseteq 1 .. Len(s)
      BY <1>2, NamesFacts
    <3> QED
      BY <1>2, <3>1, <3>2, PathConstants
  <2>3. a = Reference(s)
    <3>1. ASSUME NEW k \in 1 .. n
          PROVE  a[k] = s[CHOOSE i \in Names(s) : NamesUpTo(s, i) = k]
      <4>1. \E i \in Names(s) : NamesUpTo(s, i) = k
        BY <2>1, <2>2 DEF Kept
      <4> DEFINE i == CHOOSE i \in Names(s) : NamesUpTo(s, i) = k
      <4>2. i \in Names(s) /\ NamesUpTo(s, i) = k
        BY <4>1
      <4> HIDE DEF i
      <4>3. a[NamesUpTo(s, i)] = s[i]
        BY <2>1, <2>2, <4>2 DEF Kept
      <4>4. a[k] = s[i]
        BY <4>2, <4>3
      <4> QED
        BY <4>4 DEF i
    <3>2. a = [k \in 1 .. n |-> a[k]]
      BY <2>2
    <3> HIDE DEF n
    <3>3. a = [k \in 1 .. n |-> s[CHOOSE i \in Names(s) : NamesUpTo(s, i) = k]]
      BY <3>1, <3>2
    <3> QED
      BY <3>3 DEF Reference, n
  <2>4. a # << >> /\ Acceptable(s) => ResultOk(a) /\ ByteLen(a) <= ByteLen(s)
    <3>1. SUFFICES ASSUME a # << >>, Acceptable(s)
                   PROVE  ResultOk(a) /\ ByteLen(a) <= ByteLen(s)
      OBVIOUS
    <3>2. Len(a) >= 1 /\ ByteLen(a) = SumFunction(PartBytes(a)) + (Len(a) - 1)
          /\ SumFunction(PartBytes(a)) \in Nat /\ ByteLen(a) \in Nat
      BY <2>2, <3>1, PartBytesFacts
    <3>3. Len(a) <= Len(s) /\ SumFunction(PartBytes(a)) <= SumFunctionOnSet(PartBytes(s), 1 .. Len(s))
      BY <2>1 DEF Kept
    <3>4. s # << >>
      BY <1>2, <2>2, <3>2, <3>3
    <3>5. /\ ByteLen(s) = SumFunction(PartBytes(s)) + (Len(s) - 1)
          /\ SumFunction(PartBytes(s)) = SumFunctionOnSet(PartBytes(s), 1 .. Len(s))
          /\ SumFunction(PartBytes(s)) \in Nat /\ ByteLen(s) \in Nat
      BY <3>4, PartBytesFacts
    <3>6. ByteLen(a) <= ByteLen(s)
      BY <1>2, <2>2, <3>2, <3>3, <3>5
    <3>7. ByteLen(s) <= MAX_PATH_LEN /\ MAX_PATH_LEN \in Nat
      BY <3>1, PathConstants DEF Acceptable
    <3> QED
      BY <3>1, <3>2, <3>5, <3>6, <3>7 DEF ResultOk
  <2>5. Accepted(s) <=> Acceptable(s) /\ a # << >>
    BY <1>4, <1>6, <2>3 DEF Accepted
  <2>6. normalize_path(s) = IF Acceptable(s) /\ a # Rejected /\ ResultOk(a) THEN a ELSE Rejected
    BY DEF normalize_path, a
  <2>7. ResultOk(a) => a # << >>
    BY DEF ResultOk
  <2>8. CASE Accepted(s)
    BY <2>2, <2>3, <2>4, <2>5, <2>6, <2>8
  <2>9. CASE ~ Accepted(s)
    BY <2>2, <2>5, <2>6, <2>7, <2>9
  <2> QED
    BY <2>8, <2>9
<1> QED
  BY <1>5, <1>6

-----------------------------------------------------------------------------
(* Types of the constants.                                                 *)

LEMMA ClampedLimits ==
    ASSUME NEW l \in CallerLimits
    PROVE  /\ Clamped(l) \in ArchiveLimits
           /\ HARD \in ArchiveLimits
           /\ Clamped(l).max_entries <= HARD.max_entries
<1>1. l \in ArchiveLimits /\ HARD \in ArchiveLimits
  BY OpenAssumption, Zenon
<1>2. \A x, y \in Nat : MinOf(x, y) \in Nat /\ MinOf(x, y) <= y
  BY DEF MinOf
<1>3. DOMAIN l = {"max_toc_stored_bytes", "max_toc_raw_bytes", "max_entries", "max_chunks",
                  "max_path_bytes", "max_total_path_bytes", "max_single_asset_bytes",
                  "max_metadata_bytes"}
  BY <1>1 DEF ArchiveLimits
<1>4. \A f \in DOMAIN l : l[f] \in Nat /\ HARD[f] \in Nat
  BY <1>1, <1>3 DEF ArchiveLimits
<1>5. DOMAIN Clamped(l) = DOMAIN l /\ \A f \in DOMAIN l : Clamped(l)[f] = MinOf(l[f], HARD[f])
  BY DEF Clamped
<1>6. \A f \in DOMAIN l : Clamped(l)[f] \in Nat /\ Clamped(l)[f] <= HARD[f]
  BY <1>2, <1>4, <1>5
<1>7. Clamped(l) \in ArchiveLimits
  BY <1>3, <1>5, <1>6 DEF ArchiveLimits, Clamped
<1> QED
  BY <1>1, <1>3, <1>6, <1>7

LEMMA HeaderTypes ==
    ASSUME NEW h \in Headers
    PROVE  /\ h.entry_count \in Nat /\ h.chunk_count \in Nat
           /\ h.toc_size \in Nat /\ h.toc_raw_size \in Nat
<1>1. h \in DecodedHeader
  BY OpenAssumption, Zenon
<1> QED
  BY <1>1 DEF DecodedHeader

LEMMA LimitTypes ==
    ASSUME NEW l \in ArchiveLimits
    PROVE  /\ l.max_toc_raw_bytes \in Nat /\ l.max_entries \in Nat
           /\ l.max_total_path_bytes \in Nat /\ l.max_metadata_bytes \in Nat
  BY DEF ArchiveLimits

LEMMA PathSets ==
    /\ RawPaths \subseteq Seq(Parts) /\ Paths \subseteq RawPaths
    /\ Empty \in RawPaths /\ StoredPaths \subseteq RawPaths
    /\ PathHash \in [Paths -> Hashes] /\ Hashes \subseteq Nat
<1>1. RawPaths \subseteq Seq(Parts) /\ StoredPaths \cup Paths \cup {Empty} \subseteq RawPaths
      /\ PathHash \in [Paths -> Hashes] /\ Hashes \subseteq Nat
  BY OpenAssumption, Zenon
<1> QED
  BY <1>1, Zenon

LEMMA RawFacts ==
    ASSUME NEW p \in RawPaths
    PROVE  /\ RawLen[p] \in Nat
           /\ Normalized[p] = IF Accepted(p) THEN Reference(p) ELSE Rejected
           /\ Accepted(p) => Reference(p) # Rejected
           /\ Normalized[p] # Rejected =>
                 /\ Normalized[p] \in Paths
                 /\ RawLen[Normalized[p]] \in Nat
                 /\ RawLen[Normalized[p]] <= RawLen[p]
<1>1. p \in Seq(Parts)
  BY PathSets
<1>2. RawLen[p] = ByteLen(p) /\ Normalized[p] = normalize_path(p)
  BY DEF RawLen, Normalized
<1>3. RawLen[p] \in Nat
  BY <1>1, <1>2, PartBytesFacts
<1>4. /\ normalize_path(p) = IF Accepted(p) THEN Reference(p) ELSE Rejected
      /\ Accepted(p) => /\ Reference(p) \in Seq(Parts)
                        /\ ByteLen(Reference(p)) <= ByteLen(p)
  BY <1>1, NormalizationIsExact
<1>5. Accepted(p) => Reference(p) # Rejected
  BY <1>4, PathConstants
<1>6. ASSUME Normalized[p] # Rejected
      PROVE  /\ Normalized[p] \in Paths
             /\ RawLen[Normalized[p]] \in Nat
             /\ RawLen[Normalized[p]] <= RawLen[p]
  <2>1. Normalized[p] \in Paths
    BY <1>6 DEF Paths
  <2>2. Normalized[p] \in RawPaths /\ Normalized[p] \in Seq(Parts)
    BY <2>1, PathSets
  <2>3. RawLen[Normalized[p]] = ByteLen(Normalized[p])
    BY <2>2 DEF RawLen
  <2>4. Accepted(p) /\ Normalized[p] = Reference(p)
    BY <1>2, <1>4, <1>6
  <2> QED
    BY <1>2, <1>4, <2>1, <2>2, <2>3, <2>4, PartBytesFacts
<1> QED
  BY <1>2, <1>3, <1>4, <1>5, <1>6

-----------------------------------------------------------------------------
(* The invariant.                                                          *)

EntryRecords == [path : Paths \cup {Empty}, path_hash : Hashes]

Typing ==
    /\ TypeOK
    /\ limits \in ArchiveLimits
    /\ limits.max_entries <= HARD.max_entries

PathBytes == [i \in DOMAIN entries |-> RawLen[entries[i].path]]

\* The decoder's accounts: the header's promises were compared with the limits
\* before a record was read, and what is kept is no more than what was read.
DecodeInv ==
    /\ pc \notin {"header", "rejected"} => WithinLimits(header)
    /\ pc \in {"header", "toc"} => cursor = 0 /\ total_path_bytes = 0
    /\ Len(entries) <= header.entry_count
    /\ pc \in {"header", "rejected"} \/ Len(entries) <= limits.max_entries
    /\ SumFunction(PathBytes) <= total_path_bytes
    /\ total_path_bytes <= limits.max_total_path_bytes

\* What a lookup may rely on in a record: without paths there are none, with
\* paths the id is the path's hash.
EntryOk(e) ==
    IF paths_stripped THEN e.path = Empty
    ELSE e.path \in Paths /\ e.path_hash = PathHash[e.path]

EntriesInv == \A i \in DOMAIN entries : EntryOk(entries[i])

\* Two entries that answer to one lookup.
Ambiguous(j, k) ==
    /\ Id(j) = Id(k)
    /\ paths_stripped \/ entries[EntryOf(j)].path = entries[EntryOf(k)].path

\* The index is the entries, sorted; the buckets before start are disjoint
\* from the rest and have nothing ambiguous.
IndexInv ==
    pc \in {"buckets", "open"} =>
        /\ index \in SortedIndexes
        /\ \A j \in 1 .. (start - 1), k \in start .. Len(index) : Id(j) < Id(k)
        /\ \A j, k \in 1 .. (start - 1) : j # k => ~ Ambiguous(j, k)

OutcomeInv ==
    /\ pc = "open" => start = Len(index) + 1
    /\ pc # "rejected" => err = "none"
    /\ RefusedIndexIsAmbiguous

IInv == Typing /\ DecodeInv /\ EntriesInv /\ IndexInv /\ OutcomeInv

LEMMA Facts ==
    ASSUME Typing
    PROVE  /\ header \in Headers /\ limits \in ArchiveLimits
           /\ header.entry_count \in Nat /\ header.chunk_count \in Nat
           /\ header.toc_size \in Nat /\ header.toc_raw_size \in Nat
           /\ limits.max_entries \in Nat /\ limits.max_metadata_bytes \in Nat
           /\ limits.max_total_path_bytes \in Nat
           /\ HARD.max_entries \in Nat
           /\ cursor \in Nat /\ total_path_bytes \in Nat /\ chunk_count \in Nat
           /\ entries \in Seq(EntryRecords)
           /\ Len(entries) \in Nat /\ DOMAIN entries = 1 .. Len(entries)
           /\ Len(index) \in Nat /\ DOMAIN index = 1 .. Len(index)
           /\ start \in Nat
<1>1. header \in Headers /\ limits \in ArchiveLimits
  BY DEF Typing, TypeOK
<1>2. HARD \in ArchiveLimits
  BY OpenAssumption, Zenon
<1>3. /\ cursor \in 0 .. header.toc_raw_size /\ total_path_bytes \in 0 .. cursor
      /\ chunk_count \in 0 .. header.chunk_count
      /\ entries \in Seq(EntryRecords)
      /\ index \in Seq(Hashes \X (1 .. Len(entries)))
      /\ start \in 1 .. (Len(index) + 1)
  BY DEF Typing, TypeOK, EntryRecords
<1>4. HARD.max_entries \in Nat
  BY <1>2, LimitTypes
<1>5. /\ Len(entries) \in Nat /\ DOMAIN entries = 1 .. Len(entries)
      /\ Len(index) \in Nat /\ DOMAIN index = 1 .. Len(index)
  BY <1>3
<1>6. start \in Nat /\ cursor \in Nat /\ chunk_count \in Nat
  BY <1>3
<1>7. total_path_bytes \in Nat
  BY <1>3, <1>6
<1> QED
  BY <1>1, <1>3, <1>4, <1>5, <1>6, <1>7, HeaderTypes, LimitTypes

LEMMA PathBytesFacts ==
    ASSUME Typing
    PROVE  /\ PathBytes \in [1 .. Len(entries) -> Nat]
           /\ SumFunction(PathBytes) \in Nat
<1>1. /\ entries \in Seq(EntryRecords)
      /\ Len(entries) \in Nat /\ DOMAIN entries = 1 .. Len(entries)
  BY Facts
<1>2. ASSUME NEW i \in 1 .. Len(entries) PROVE RawLen[entries[i].path] \in Nat
  <2>1. entries[i] \in EntryRecords
    BY <1>1, ElementOfSeq
  <2>2. entries[i].path \in Paths \cup {Empty}
    BY <2>1 DEF EntryRecords
  <2>3. entries[i].path \in RawPaths
    BY <2>2, PathSets, Zenon
  <2> QED
    BY <2>3, RawFacts
<1>3. PathBytes \in [1 .. Len(entries) -> Nat]
  BY <1>1, <1>2 DEF PathBytes
<1>4. IsFiniteSet(1 .. Len(entries)) /\ \A i \in 1 .. Len(entries) : PathBytes[i] \in Nat
  BY <1>1, <1>3, FirstNumbers
<1>5. SumFunctionOnSet(PathBytes, 1 .. Len(entries)) \in Nat
  BY <1>4, SumType
<1>6. DOMAIN PathBytes = 1 .. Len(entries)
  BY <1>3
<1> QED
  BY <1>3, <1>5, <1>6 DEF SumFunction

LEMMA InitIInv == Init => IInv
<1> SUFFICES ASSUME Init PROVE IInv
  OBVIOUS
<1>1. PICK l \in CallerLimits : limits = Clamped(l)
  BY DEF Init
<1>2. limits \in ArchiveLimits /\ limits.max_entries <= HARD.max_entries
  BY <1>1, ClampedLimits
<1>3. /\ pc = "header" /\ header \in Headers /\ cursor = 0 /\ total_path_bytes = 0
      /\ entries = << >> /\ chunk_count = 0 /\ index = << >> /\ start = 1 /\ err = "none"
  BY DEF Init
<1>4. header.toc_raw_size \in Nat /\ header.chunk_count \in Nat /\ header.entry_count \in Nat
  BY <1>3, HeaderTypes
<1>5. /\ entries \in Seq(EntryRecords)
      /\ index \in Seq(Hashes \X (1 .. Len(entries)))
      /\ Len(index) = 0 /\ Len(entries) = 0
  BY <1>3
<1>6. TypeOK
  BY <1>3, <1>4, <1>5 DEF TypeOK, EntryRecords
<1>7. DOMAIN entries = {}
  BY <1>3
<1>8. SumFunction(PathBytes) = 0
  <2>1. DOMAIN PathBytes = {}
    BY <1>7 DEF PathBytes
  <2> QED
    BY <2>1, SumEmpty DEF SumFunction
<1>9. limits.max_total_path_bytes \in Nat
  BY <1>2, LimitTypes
<1>10. DecodeInv
  BY <1>3, <1>4, <1>5, <1>8, <1>9 DEF DecodeInv
<1> QED
  BY <1>2, <1>3, <1>6, <1>7, <1>10
     DEF IInv, Typing, EntriesInv, IndexInv, OutcomeInv, RefusedIndexIsAmbiguous

\* Steps that leave the tables and the index as they are and only go on to the
\* next phase, or give up.
LEMMA PhaseStep ==
    ASSUME IInv, pc # "rejected",
           UNCHANGED <<header, limits, total_path_bytes, entries, indexVars>>,
           cursor' \in 0 .. header.toc_raw_size, total_path_bytes <= cursor',
           chunk_count' \in 0 .. header.chunk_count,
           pc' \in {"toc", "entries", "chunks", "index", "rejected"},
           pc' # "rejected" => WithinLimits(header) /\ err' = "none"
                               /\ (pc # "header" \/ Len(entries) <= limits.max_entries),
           err' # "index",
           pc' = "toc" => cursor' = 0 /\ total_path_bytes = 0
    PROVE  IInv'
<1>1. Typing /\ DecodeInv /\ EntriesInv
  BY DEF IInv
<1>2. Typing'
  <2>1. cursor' \in Nat
    BY <1>1, Facts
  <2>2. total_path_bytes' \in 0 .. cursor'
    BY <1>1, <2>1, Facts
  <2> QED
    BY <1>1, <2>2 DEF Typing, TypeOK, indexVars
<1>3. PathBytes' = PathBytes
  BY DEF PathBytes
<1>4. WithinLimits(header)' <=> WithinLimits(header)
  BY DEF WithinLimits, MinimumRaw, EstimatedMetadata
<1>5. pc' # "rejected" => Len(entries) <= limits.max_entries
  BY <1>1 DEF DecodeInv
<1>6. DecodeInv'
  BY <1>1, <1>3, <1>4, <1>5 DEF DecodeInv
<1>7. EntriesInv'
  BY <1>1 DEF EntriesInv, EntryOk, paths_stripped
<1>8. IndexInv' /\ OutcomeInv'
  BY DEF IndexInv, OutcomeInv, RefusedIndexIsAmbiguous
<1> QED
  BY <1>2, <1>6, <1>7, <1>8 DEF IInv

LEMMA CheckHeaderStep ==
    ASSUME IInv, CheckHeader
    PROVE  IInv'
<1>1. Typing /\ DecodeInv /\ OutcomeInv /\ pc = "header"
  BY DEF IInv, CheckHeader
<1>2. /\ UNCHANGED <<header, limits, total_path_bytes, entries, indexVars>>
      /\ cursor' = cursor /\ chunk_count' = chunk_count
  BY DEF CheckHeader, decodeVars
<1>3. /\ cursor' \in 0 .. header.toc_raw_size /\ chunk_count' \in 0 .. header.chunk_count
      /\ cursor' = 0 /\ total_path_bytes = 0 /\ total_path_bytes <= cursor'
  BY <1>1, <1>2 DEF Typing, TypeOK, DecodeInv
<1>4. \/ pc' = "toc" /\ err' = "none" /\ WithinLimits(header)
      \/ pc' = "rejected" /\ err' \in {"header", "source"}
  BY <1>1 DEF CheckHeader, Reject, OutcomeInv
<1>5. WithinLimits(header) => Len(entries) <= limits.max_entries
  <2>1. WithinLimits(header) => header.entry_count <= limits.max_entries
    BY DEF WithinLimits
  <2> QED
    BY <1>1, <2>1, Facts DEF DecodeInv
<1> QED
  BY <1>1, <1>2, <1>3, <1>4, <1>5, PhaseStep

LEMMA ReadTocStep ==
    ASSUME IInv, ReadToc
    PROVE  IInv'
<1>1. Typing /\ DecodeInv /\ OutcomeInv /\ pc = "toc"
  BY DEF IInv, ReadToc
<1>2. /\ UNCHANGED <<header, limits, total_path_bytes, entries, indexVars>>
      /\ chunk_count' = chunk_count
  BY DEF ReadToc
<1>3. /\ chunk_count' \in 0 .. header.chunk_count /\ cursor = 0 /\ total_path_bytes = 0
      /\ WithinLimits(header) /\ err = "none" /\ header.toc_raw_size \in Nat
  BY <1>1, <1>2, Facts DEF Typing, TypeOK, DecodeInv, OutcomeInv
<1>4. 4 \in 0 .. header.toc_raw_size
  <2>1. MinimumRaw(header) <= header.toc_raw_size
    BY <1>3 DEF WithinLimits
  <2>2. MinimumRaw(header) \in Nat /\ 4 <= MinimumRaw(header)
    <3>1. header.entry_count \in Nat /\ header.chunk_count \in Nat
      BY <1>1, Facts
    <3> QED
      BY <3>1 DEF MinimumRaw
  <2> QED
    BY <1>3, <2>1, <2>2
<1>5. \/ pc' = "entries" /\ err' = "none" /\ cursor' = 4
      \/ pc' = "rejected" /\ err' = "toc" /\ cursor' = 0
  BY <1>3 DEF ReadToc, Reject
<1>6. cursor' \in 0 .. header.toc_raw_size /\ total_path_bytes <= cursor'
  BY <1>3, <1>4, <1>5
<1> QED
  BY <1>1, <1>2, <1>3, <1>5, <1>6, PhaseStep

LEMMA DecodeChunkStep ==
    ASSUME IInv, NEW known \in BOOLEAN, DecodeChunk(known)
    PROVE  IInv'
<1>1. Typing /\ DecodeInv /\ OutcomeInv /\ pc = "chunks"
  BY DEF IInv, DecodeChunk
<1>2. UNCHANGED <<header, limits, total_path_bytes, entries, indexVars>>
  BY DEF DecodeChunk
<1>3. /\ cursor \in 0 .. header.toc_raw_size /\ total_path_bytes \in 0 .. cursor
      /\ chunk_count \in 0 .. header.chunk_count
      /\ header.toc_raw_size \in Nat /\ header.chunk_count \in Nat
      /\ cursor \in Nat /\ total_path_bytes \in Nat /\ chunk_count \in Nat
      /\ WithinLimits(header) /\ err = "none"
  BY <1>1, Facts DEF Typing, TypeOK, DecodeInv, OutcomeInv
<1>4. CASE known /\ cursor + 36 <= header.toc_raw_size
  <2>1. /\ cursor' = cursor + 36 /\ chunk_count' = chunk_count + 1 /\ pc' = "chunks"
        /\ err' = "none" /\ chunk_count < header.chunk_count
    BY <1>1, <1>3, <1>4 DEF DecodeChunk
  <2>2. /\ cursor' \in 0 .. header.toc_raw_size /\ total_path_bytes <= cursor'
        /\ chunk_count' \in 0 .. header.chunk_count
    BY <1>3, <1>4, <2>1
  <2> QED
    BY <1>1, <1>2, <1>3, <2>1, <2>2, PhaseStep
<1>5. CASE ~(known /\ cursor + 36 <= header.toc_raw_size)
  <2>1. /\ cursor' = cursor /\ chunk_count' = chunk_count /\ pc' = "rejected"
        /\ err' = "chunk"
    BY <1>1, <1>5 DEF DecodeChunk, Reject
  <2>2. /\ cursor' \in 0 .. header.toc_raw_size /\ total_path_bytes <= cursor'
        /\ chunk_count' \in 0 .. header.chunk_count
    BY <1>3, <2>1
  <2> QED
    BY <1>1, <1>2, <2>1, <2>2, PhaseStep
<1> QED
  BY <1>4, <1>5

LEMMA EndOfTableStep ==
    ASSUME IInv, EndOfEntries \/ EndOfToc
    PROVE  IInv'
<1>1. Typing /\ DecodeInv /\ OutcomeInv /\ pc \in {"entries", "chunks"}
  BY DEF IInv, EndOfEntries, EndOfToc
<1>2. /\ UNCHANGED <<header, limits, total_path_bytes, entries, indexVars>>
      /\ cursor' = cursor /\ chunk_count' = chunk_count
  BY DEF EndOfEntries, EndOfToc, decodeVars
<1>3. /\ cursor' \in 0 .. header.toc_raw_size /\ total_path_bytes <= cursor'
      /\ chunk_count' \in 0 .. header.chunk_count
      /\ WithinLimits(header) /\ err = "none"
  BY <1>1, <1>2, Facts DEF Typing, TypeOK, DecodeInv, OutcomeInv
<1>4. \/ pc' \in {"chunks", "index"} /\ err' = "none"
      \/ pc' = "rejected" /\ err' \in {"memory", "toc"}
  BY <1>3 DEF EndOfEntries, EndOfToc, Reject
<1> QED
  BY <1>1, <1>2, <1>3, <1>4, PhaseStep

LEMMA DecodeEntryStep ==
    ASSUME IInv, NEW r \in [path : StoredPaths \cup {Empty}, path_hash : Hashes,
                            original_size : Sizes, reserved : {0, 1}],
           DecodeEntry(r)
    PROVE  IInv'
<1>1. Typing /\ DecodeInv /\ EntriesInv /\ OutcomeInv /\ pc = "entries"
  BY DEF IInv, DecodeEntry
<1>2. UNCHANGED <<header, limits, chunk_count, indexVars>>
  BY DEF DecodeEntry
<1>3. /\ cursor \in 0 .. header.toc_raw_size /\ total_path_bytes \in 0 .. cursor
      /\ header.toc_raw_size \in Nat /\ cursor \in Nat /\ total_path_bytes \in Nat
      /\ chunk_count \in 0 .. header.chunk_count
      /\ WithinLimits(header) /\ err = "none"
      /\ header.entry_count \in Nat /\ limits.max_entries \in Nat
      /\ limits.max_total_path_bytes \in Nat
      /\ entries \in Seq(EntryRecords) /\ Len(entries) \in Nat
      /\ DOMAIN entries = 1 .. Len(entries)
      /\ Len(index) \in Nat
  BY <1>1, Facts DEF Typing, TypeOK, DecodeInv, OutcomeInv
<1>4. r.path \in RawPaths /\ r.path_hash \in Hashes
  <2>1. r.path \in StoredPaths \cup {Empty} /\ r.path_hash \in Hashes
    OBVIOUS
  <2> QED
    BY <2>1, PathSets, Zenon
<1>5. CASE ~ EntryDecodes(r)
  <2>1. /\ UNCHANGED <<total_path_bytes, entries>> /\ cursor' = cursor
        /\ pc' = "rejected" /\ err' = "entry" /\ chunk_count' = chunk_count
    BY <1>2, <1>5 DEF DecodeEntry, Reject
  <2>2. total_path_bytes <= cursor'
    BY <1>3, <2>1
  <2> QED
    BY <1>1, <1>2, <1>3, <2>1, <2>2, PhaseStep
<1>6. CASE EntryDecodes(r)
  <2> DEFINE q == IF paths_stripped THEN Empty ELSE Normalized[r.path]
             e == [path |-> q, path_hash |-> r.path_hash]
             L == RawLen[r.path]
  <2>1. /\ cursor' = cursor + 36 + L /\ total_path_bytes' = total_path_bytes + L
        /\ entries' = Append(entries, e) /\ pc' = "entries" /\ err' = "none"
        /\ Len(entries) < header.entry_count
    BY <1>1, <1>3, <1>6 DEF DecodeEntry
  <2>2. /\ L \in Nat /\ cursor + 36 + L <= header.toc_raw_size
        /\ total_path_bytes + L <= limits.max_total_path_bytes
    BY <1>4, <1>6, RawFacts DEF EntryDecodes
  <2>3. /\ q \in Paths \cup {Empty} /\ RawLen[q] \in Nat /\ RawLen[q] <= L
        /\ EntryOk(e)
    <3>1. CASE paths_stripped
      <4>1. q = Empty /\ r.path = Empty
        BY <1>6, <3>1 DEF EntryDecodes
      <4> QED
        BY <2>2, <3>1, <4>1 DEF EntryOk
    <3>2. CASE ~ paths_stripped
      <4>1. /\ q = Normalized[r.path] /\ q # Rejected /\ PathHash[q] = r.path_hash
        BY <1>6, <3>2 DEF EntryDecodes
      <4>2. q \in Paths /\ RawLen[q] \in Nat /\ RawLen[q] <= L
        BY <1>4, <4>1, RawFacts
      <4> QED
        BY <3>2, <4>1, <4>2 DEF EntryOk
    <3> QED
      BY <3>1, <3>2
  <2>4. e \in EntryRecords
    BY <1>4, <2>3 DEF EntryRecords
  <2>5. e.path = q
    OBVIOUS
  <2> HIDE DEF e, q, L
  <2>6. /\ entries' \in Seq(EntryRecords) /\ Len(entries') = Len(entries) + 1
        /\ DOMAIN entries' = 1 .. Len(entries) + 1
        /\ entries'[Len(entries) + 1] = e
        /\ \A i \in 1 .. Len(entries) : entries'[i] = entries[i]
    <3>1. /\ Append(entries, e) \in Seq(EntryRecords) /\ Len(Append(entries, e)) = Len(entries) + 1
          /\ Append(entries, e)[Len(entries) + 1] = e
          /\ \A i \in 1 .. Len(entries) : Append(entries, e)[i] = entries[i]
      BY <1>3, <2>4, AppendProperties
    <3>2. \A s \in Seq(EntryRecords) : DOMAIN s = 1 .. Len(s)
      OBVIOUS
    <3> QED
      BY <2>1, <3>1, <3>2
  <2>7. Typing'
    <3>1. cursor' \in 0 .. header.toc_raw_size /\ total_path_bytes' \in 0 .. cursor'
      BY <1>3, <2>1, <2>2
    <3>2. index' \in Seq(Hashes \X (1 .. Len(entries')))
      <4>1. index \in Seq(Hashes \X (1 .. Len(entries)))
        BY <1>1 DEF Typing, TypeOK
      <4>2. Hashes \X (1 .. Len(entries)) \subseteq Hashes \X (1 .. Len(entries'))
        BY <1>3, <2>6
      <4>3. index' = index
        BY <1>2 DEF indexVars
      <4> DEFINE S == Hashes \X (1 .. Len(entries))
                 T == Hashes \X (1 .. Len(entries'))
      <4> HIDE DEF S, T
      <4>4. index \in Seq(S) /\ S \subseteq T
        BY <4>1, <4>2 DEF S, T
      <4>5. index \in Seq(T)
        <5>1. Len(index) \in Nat /\ index = [k \in 1 .. Len(index) |-> index[k]]
          BY <4>4
        <5>2. \A k \in 1 .. Len(index) : index[k] \in T
          BY <4>4, ElementOfSeq
        <5> QED
          BY <5>1, <5>2
      <4> QED
        BY <4>3, <4>5 DEF T
    <3>3. start' \in 1 .. (Len(index') + 1)
      BY <1>1, <1>2 DEF Typing, TypeOK, indexVars
    <3> QED
      BY <1>1, <1>2, <2>1, <2>6, <3>1, <3>2, <3>3 DEF Typing, TypeOK, EntryRecords
  <2>8. SumFunction(PathBytes)' <= total_path_bytes'
    <3>1. /\ PathBytes \in [1 .. Len(entries) -> Nat] /\ SumFunction(PathBytes) \in Nat
      BY <1>1, PathBytesFacts
    <3>2. PathBytes' \in [1 .. Len(entries) + 1 -> Nat]
      <4>1. PathBytes' = [i \in DOMAIN entries' |-> RawLen[entries'[i].path]]
        BY DEF PathBytes
      <4>2. \A i \in 1 .. Len(entries) : RawLen[entries'[i].path] \in Nat
        BY <1>3, <2>6, <3>1 DEF PathBytes
      <4>3. RawLen[entries'[Len(entries) + 1].path] \in Nat
        BY <2>3, <2>5, <2>6
      <4>4. \A i \in 1 .. Len(entries) + 1 : RawLen[entries'[i].path] \in Nat
        BY <1>3, <4>2, <4>3
      <4> QED
        BY <2>6, <4>1, <4>4
    <3>3. /\ \A i \in 1 .. Len(entries) : PathBytes'[i] = PathBytes[i]
          /\ PathBytes'[Len(entries) + 1] = RawLen[q]
      BY <1>3, <2>5, <2>6 DEF PathBytes
    <3>4. SumFunction(PathBytes') = SumFunction(PathBytes) + PathBytes'[Len(entries) + 1]
      BY <1>3, <3>1, <3>2, <3>3, SumOneMore
    <3>5. SumFunction(PathBytes)' = SumFunction(PathBytes')
      OBVIOUS
    <3> QED
      BY <1>1, <1>3, <2>1, <2>2, <2>3, <3>1, <3>3, <3>4, <3>5 DEF DecodeInv
  <2>9. WithinLimits(header)'
    BY <1>2, <1>3 DEF WithinLimits, MinimumRaw, EstimatedMetadata
  <2>10. Len(entries') <= header.entry_count /\ Len(entries') <= limits.max_entries
    <3>1. header.entry_count <= limits.max_entries
      BY <1>3 DEF WithinLimits
    <3> QED
      BY <1>3, <2>1, <2>6, <3>1
  <2>11. DecodeInv'
    BY <1>2, <2>1, <2>2, <2>8, <2>9, <2>10 DEF DecodeInv
  <2>12. EntriesInv'
    BY <1>1, <1>2, <1>3, <2>3, <2>6 DEF EntriesInv, EntryOk, paths_stripped
  <2>13. IndexInv' /\ OutcomeInv'
    BY <2>1 DEF IndexInv, OutcomeInv, RefusedIndexIsAmbiguous
  <2> QED
    BY <2>7, <2>11, <2>12, <2>13 DEF IInv
<1> QED
  BY <1>5, <1>6

-----------------------------------------------------------------------------
(* The index.                                                              *)

\* What it means that the index is the entries, sorted by id.
Lists(ix) ==
    /\ ix \in Seq(Hashes \X (1 .. Len(entries)))
    /\ Len(ix) = Len(entries)
    /\ \A k \in 1 .. Len(ix) : /\ ix[k][2] \in 1 .. Len(entries)
                               /\ ix[k][1] = entries[ix[k][2]].path_hash
                               /\ ix[k][1] \in Nat
    /\ \A j, k \in 1 .. Len(ix) : ix[j][2] = ix[k][2] => j = k
    /\ \A i \in 1 .. Len(entries) : \E k \in 1 .. Len(ix) : ix[k][2] = i
    /\ \A j, k \in 1 .. Len(ix) : j <= k => ix[j][1] <= ix[k][1]

LEMMA SortedFacts ==
    ASSUME Typing, NEW ix \in SortedIndexes
    PROVE  Lists(ix)
<1> DEFINE n == Len(entries)
<1>1. /\ n \in Nat /\ DOMAIN entries = 1 .. n
      /\ \A i \in 1 .. n : entries[i].path_hash \in Hashes
  <2>1. entries \in Seq(EntryRecords) /\ n \in Nat /\ DOMAIN entries = 1 .. n
    BY Facts
  <2>2. \A i \in 1 .. n : entries[i] \in EntryRecords
    BY <2>1, ElementOfSeq
  <2> QED
    BY <2>1, <2>2 DEF EntryRecords
<1>2. PICK order \in Bijection(1 .. n, 1 .. n) :
         /\ ix = [k \in 1 .. n |-> <<entries[order[k]].path_hash, order[k]>>]
         /\ \A j, k \in 1 .. n :
               j < k => entries[order[j]].path_hash <= entries[order[k]].path_hash
  BY <1>1 DEF SortedIndexes
<1>3. /\ order \in [1 .. n -> 1 .. n]
      /\ \A j, k \in 1 .. n : order[j] = order[k] => j = k
      /\ \A i \in 1 .. n : \E k \in 1 .. n : order[k] = i
  BY DEF Bijection, Injection, Surjection, IsInjective
<1> HIDE DEF n
<1>4. ASSUME NEW k \in 1 .. n
      PROVE  /\ ix[k] \in Hashes \X (1 .. n)
             /\ ix[k][2] = order[k] /\ order[k] \in 1 .. n
             /\ ix[k][1] = entries[order[k]].path_hash /\ ix[k][1] \in Hashes
  <2>1. ix[k] = <<entries[order[k]].path_hash, order[k]>>
    BY <1>2
  <2>2. order[k] \in 1 .. n /\ entries[order[k]].path_hash \in Hashes
    BY <1>1, <1>3
  <2> QED
    BY <2>1, <2>2
<1>5. ix \in Seq(Hashes \X (1 .. n)) /\ Len(ix) = n
  <2> DEFINE T == Hashes \X (1 .. n)
  <2>1. \A k \in 1 .. n : ix[k] \in T
    BY <1>4
  <2>2. ix = [k \in 1 .. n |-> ix[k]]
    BY <1>2
  <2> HIDE DEF T
  <2>3. ix \in [1 .. n -> T]
    BY <2>1, <2>2
  <2>4. ix \in Seq(T) /\ Len(ix) = n
    BY <1>1, <2>3
  <2> QED
    BY <2>4 DEF T
<1>6. \A k \in 1 .. n : ix[k][1] \in Nat
  BY <1>4, PathSets
<1>7. \A j, k \in 1 .. n : j <= k => ix[j][1] <= ix[k][1]
  <2> SUFFICES ASSUME NEW j \in 1 .. n, NEW k \in 1 .. n, j <= k
               PROVE  ix[j][1] <= ix[k][1]
    OBVIOUS
  <2>1. CASE j = k
    BY <1>6, <2>1
  <2>2. CASE j < k
    BY <1>2, <1>4, <2>2
  <2> QED
    BY <1>1, <2>1, <2>2
<1>8. \A k \in 1 .. n : ix[k][2] \in 1 .. n /\ ix[k][1] = entries[ix[k][2]].path_hash
  BY <1>4
<1>11. \A k \in 1 .. n : ix[k][2] = order[k]
  BY <1>4
<1>9. ASSUME NEW j \in 1 .. n, NEW k \in 1 .. n, ix[j][2] = ix[k][2] PROVE j = k
  <2>1. order[j] = order[k]
    BY <1>9, <1>11
  <2> QED
    BY <1>3, <2>1
<1>10. \A i \in 1 .. n : \E k \in 1 .. n : ix[k][2] = i
  BY <1>3, <1>11, Zenon
<1> QED
  BY <1>5, <1>6, <1>7, <1>8, <1>9, <1>10 DEF Lists, n

\* The bucket at start: the run of equal ids, and greater ids after it.
LEMMA BucketFacts ==
    ASSUME Typing, Lists(index), start <= Len(index)
    PROVE  /\ BucketEnd \in (start + 1) .. (Len(index) + 1)
           /\ \A k \in start .. (BucketEnd - 1) : Id(k) = Id(start)
           /\ \A k \in BucketEnd .. Len(index) : Id(start) < Id(k)
<1> DEFINE n == Len(index)
           M == {k \in start .. n + 1 : k = n + 1 \/ Id(k) # Id(start)}
           S == {k \in start .. n : \A j \in start .. k : Id(j) = Id(start)}
<1>1. n \in Nat /\ start \in 1 .. n /\ start \in Nat
  <2>1. start \in 1 .. n + 1 /\ n \in Nat /\ start \in Nat
    BY Facts DEF Typing, TypeOK
  <2> QED
    BY <2>1
<1>2. /\ \A k \in 1 .. n : Id(k) \in Nat
      /\ \A j, k \in 1 .. n : j <= k => Id(j) <= Id(k)
  BY DEF Lists, Id
<1> HIDE DEF n
<1>3. PICK m \in M : \A k \in M : m <= k
  <2>1. M \in SUBSET Nat /\ n + 1 \in M
    BY <1>1
  <2> HIDE DEF M
  <2> QED
    BY <2>1, SmallestNat
<1>4. m \in start .. n + 1 /\ m \in Nat /\ (m = n + 1 \/ Id(m) # Id(start))
  BY <1>1, <1>3
<1>5. ASSUME NEW k \in start .. (m - 1) PROVE Id(k) = Id(start)
  <2>1. k \in start .. n + 1 /\ ~ (m <= k)
    BY <1>1, <1>4
  <2>2. k \notin M
    BY <1>3, <2>1
  <2> QED
    BY <2>1, <2>2
<1>6. m # start
  BY <1>1, <1>4
<1>7. S = start .. (m - 1)
  <2>1. ASSUME NEW k \in S PROVE k \in start .. (m - 1)
    <3>1. k \in start .. n /\ \A j \in start .. k : Id(j) = Id(start)
      OBVIOUS
    <3>2. m \notin start .. k \/ m = n + 1
      BY <1>4, <3>1
    <3> QED
      BY <1>1, <1>4, <3>1, <3>2
  <2>2. ASSUME NEW k \in start .. (m - 1) PROVE k \in S
    <3>1. k \in start .. n
      BY <1>1, <1>4
    <3>2. \A j \in start .. k : j \in start .. (m - 1)
      BY <1>1, <1>4
    <3> QED
      BY <1>5, <3>1, <3>2
  <2> HIDE DEF S
  <2> QED
    BY <2>1, <2>2
<1>8. Cardinality(start .. (m - 1)) = m - start
  <2>1. start \in Int /\ m - 1 \in Int /\ ~ (start > m - 1)
    BY <1>1, <1>4, <1>6
  <2>2. Cardinality(start .. (m - 1)) = IF start > m - 1 THEN 0 ELSE (m - 1) - start + 1
    BY <2>1, FS_Interval
  <2> QED
    BY <1>1, <1>4, <2>1, <2>2
<1>9. BucketEnd = m
  <2>1. BucketEnd = start + Cardinality(S)
    BY DEF BucketEnd, n
  <2> HIDE DEF S
  <2> QED
    BY <1>1, <1>4, <1>7, <1>8, <2>1
<1>10. ASSUME NEW k \in m .. n PROVE Id(start) < Id(k)
  <2>1. /\ m \in 1 .. n /\ k \in 1 .. n /\ start \in 1 .. n /\ start <= m /\ m <= k
        /\ m # n + 1
    BY <1>1, <1>4
  <2>2. /\ Id(start) \in Nat /\ Id(m) \in Nat /\ Id(k) \in Nat
        /\ Id(start) <= Id(m) /\ Id(m) <= Id(k)
    BY <1>2, <2>1
  <2> QED
    BY <1>4, <2>1, <2>2
<1>11. m \in (start + 1) .. (n + 1)
  BY <1>1, <1>4, <1>6
<1> QED
  BY <1>5, <1>9, <1>10, <1>11 DEF n

LEMMA SortIndexStep ==
    ASSUME IInv, SortIndex
    PROVE  IInv'
<1>1. Typing /\ DecodeInv /\ EntriesInv /\ OutcomeInv
  BY DEF IInv
<1>2. /\ pc = "index" /\ index' \in SortedIndexes /\ start' = 1 /\ pc' = "buckets"
      /\ UNCHANGED <<header, limits, cursor, total_path_bytes, entries, chunk_count, err>>
  BY DEF SortIndex, decodeVars
<1>3. Lists(index') /\ Len(index') \in Nat
  <2>1. Lists(index')
    BY <1>1, <1>2, SortedFacts
  <2>2. Len(index') = Len(entries) /\ Len(entries) \in Nat
    BY <1>1, <2>1, Facts DEF Lists
  <2> QED
    BY <2>1, <2>2
<1>4. Typing'
  <2>1. index' \in Seq(Hashes \X (1 .. Len(entries'))) /\ start' \in 1 .. (Len(index') + 1)
    BY <1>2, <1>3 DEF Lists
  <2> QED
    BY <1>1, <1>2, <2>1 DEF Typing, TypeOK
<1>5. WithinLimits(header)' <=> WithinLimits(header)
  BY <1>2 DEF WithinLimits, MinimumRaw, EstimatedMetadata
<1>6. DecodeInv'
  BY <1>1, <1>2, <1>5 DEF DecodeInv, PathBytes
<1>7. EntriesInv'
  BY <1>1, <1>2 DEF EntriesInv, EntryOk, paths_stripped
<1>8. SortedIndexes' = SortedIndexes
  BY <1>2 DEF SortedIndexes
<1>9. IndexInv'
  BY <1>2, <1>8 DEF IndexInv
<1>10. OutcomeInv'
  BY <1>1, <1>2 DEF OutcomeInv, RefusedIndexIsAmbiguous
<1> QED
  BY <1>4, <1>6, <1>7, <1>9, <1>10 DEF IInv

\* Steps over the index: the tables stay as they are.
LEMMA IndexFrame ==
    ASSUME IInv, UNCHANGED <<header, limits, decodeVars, index>>,
           pc \in {"buckets", "open"}, pc' \in {"buckets", "open", "rejected"},
           start' \in 1 .. (Len(index) + 1)
    PROVE  /\ Typing' /\ DecodeInv' /\ EntriesInv'
           /\ SortedIndexes' = SortedIndexes
<1>1. Typing /\ DecodeInv /\ EntriesInv
  BY DEF IInv
<1>2. Typing'
  BY <1>1 DEF Typing, TypeOK, decodeVars
<1>3. WithinLimits(header)' <=> WithinLimits(header)
  BY DEF WithinLimits, MinimumRaw, EstimatedMetadata
<1>4. DecodeInv'
  BY <1>1, <1>3 DEF DecodeInv, PathBytes, decodeVars
<1>5. EntriesInv'
  BY <1>1 DEF EntriesInv, EntryOk, paths_stripped, decodeVars
<1>6. SortedIndexes' = SortedIndexes
  BY DEF SortedIndexes, decodeVars
<1> QED
  BY <1>2, <1>4, <1>5, <1>6

LEMMA OpenedStep ==
    ASSUME IInv, Opened
    PROVE  IInv'
<1>1. Typing /\ IndexInv /\ OutcomeInv
  BY DEF IInv
<1>2. /\ pc = "buckets" /\ start > Len(index) /\ pc' = "open"
      /\ UNCHANGED <<header, limits, decodeVars, index, start, err>>
  BY DEF Opened, indexVars
<1>3. start \in 1 .. (Len(index) + 1) /\ Len(index) \in Nat
  BY <1>1, Facts DEF Typing, TypeOK
<1>4. start = Len(index) + 1
  BY <1>2, <1>3
<1>5. Typing' /\ DecodeInv' /\ EntriesInv' /\ SortedIndexes' = SortedIndexes
  BY <1>2, <1>3, IndexFrame
<1>6. IndexInv'
  BY <1>1, <1>2, <1>5 DEF IndexInv, Id, EntryOf, Ambiguous, paths_stripped, decodeVars
<1>7. OutcomeInv'
  BY <1>1, <1>2, <1>4 DEF OutcomeInv, RefusedIndexIsAmbiguous
<1> QED
  BY <1>5, <1>6, <1>7 DEF IInv

LEMMA BucketStep ==
    ASSUME IInv, CheckBucket, BucketValid, start' = BucketEnd, UNCHANGED <<pc, err>>
    PROVE  IInv'
<1>1. Typing /\ IndexInv /\ OutcomeInv /\ pc = "buckets" /\ start <= Len(index)
      /\ UNCHANGED <<header, limits, decodeVars, index>>
  BY DEF IInv, CheckBucket
<1>2. Lists(index)
  BY <1>1, SortedFacts DEF IndexInv
<1>3. /\ BucketEnd \in (start + 1) .. (Len(index) + 1)
      /\ \A k \in start .. (BucketEnd - 1) : Id(k) = Id(start)
      /\ \A k \in BucketEnd .. Len(index) : Id(start) < Id(k)
  BY <1>1, <1>2, BucketFacts
<1>4. /\ start \in Nat /\ Len(index) \in Nat /\ start \in 1 .. Len(index) /\ BucketEnd \in Nat
      /\ \A k \in 1 .. Len(index) : Id(k) \in Nat
  <2>1. start \in Nat /\ Len(index) \in Nat /\ start \in 1 .. (Len(index) + 1)
    BY <1>1, Facts DEF Typing, TypeOK
  <2>2. BucketEnd \in Nat /\ start \in 1 .. Len(index)
    BY <1>1, <1>3, <2>1
  <2>3. \A k \in 1 .. Len(index) : Id(k) \in Nat
    BY <1>2 DEF Lists, Id
  <2> QED
    BY <2>1, <2>2, <2>3
<1>5. Typing' /\ DecodeInv' /\ EntriesInv' /\ SortedIndexes' = SortedIndexes
  <2>1. BucketEnd \in 1 .. (Len(index) + 1)
    BY <1>3, <1>4
  <2> QED
    BY <1>1, <2>1, IndexFrame
<1>6. \A j \in 1 .. (BucketEnd - 1), k \in BucketEnd .. Len(index) : Id(j) < Id(k)
  <2> SUFFICES ASSUME NEW j \in 1 .. (BucketEnd - 1), NEW k \in BucketEnd .. Len(index)
               PROVE  Id(j) < Id(k)
    OBVIOUS
  <2>1. CASE j < start
    <3>1. j \in 1 .. (start - 1) /\ k \in start .. Len(index)
      BY <1>3, <1>4, <2>1
    <3> QED
      BY <1>1, <3>1 DEF IndexInv
  <2>2. CASE ~ (j < start)
    <3>1. j \in start .. (BucketEnd - 1)
      BY <1>3, <1>4, <2>2
    <3> QED
      BY <1>3, <3>1
  <2> QED
    BY <2>1, <2>2
<1>7. ASSUME NEW j \in 1 .. (BucketEnd - 1), NEW k \in 1 .. (BucketEnd - 1), j # k,
             Ambiguous(j, k)
      PROVE  FALSE
  <2>1. Id(j) = Id(k) /\ j \in 1 .. Len(index) /\ k \in 1 .. Len(index)
    <3>1. j \in 1 .. Len(index) /\ k \in 1 .. Len(index)
      BY <1>3, <1>4
    <3> QED
      BY <1>7, <3>1 DEF Ambiguous
  <2>2. CASE j < start /\ k < start
    <3>1. j \in 1 .. (start - 1) /\ k \in 1 .. (start - 1)
      BY <1>4, <2>1, <2>2
    <3> QED
      BY <1>1, <1>7, <3>1 DEF IndexInv
  <2>3. CASE j < start /\ ~ (k < start)
    <3>1. j \in 1 .. (start - 1) /\ k \in start .. Len(index)
      BY <1>4, <2>1, <2>3
    <3>2. Id(j) < Id(k)
      BY <1>1, <3>1 DEF IndexInv
    <3> QED
      BY <1>4, <2>1, <3>2
  <2>4. CASE ~ (j < start) /\ k < start
    <3>1. k \in 1 .. (start - 1) /\ j \in start .. Len(index)
      BY <1>4, <2>1, <2>4
    <3>2. Id(k) < Id(j)
      BY <1>1, <3>1 DEF IndexInv
    <3> QED
      BY <1>4, <2>1, <3>2
  <2>5. CASE ~ (j < start) /\ ~ (k < start)
    <3>1. j \in Bucket /\ k \in Bucket
      BY <1>3, <1>4, <2>5 DEF Bucket
    <3>2. entries[EntryOf(j)].path # entries[EntryOf(k)].path
      BY <1>7, <3>1 DEF BucketValid
    <3>3. paths_stripped
      BY <1>7, <3>2 DEF Ambiguous
    <3>4. Cardinality(Bucket) = 1
      BY <3>3 DEF BucketValid
    <3>5. IsFiniteSet(Bucket)
      <4>1. start \in Int /\ BucketEnd - 1 \in Int
        BY <1>3, <1>4
      <4> QED
        BY <4>1, FS_Interval DEF Bucket
    <3>6. \E x : Bucket = {x}
      BY <3>4, <3>5, FS_Singleton
    <3> QED
      BY <1>7, <3>1, <3>6
  <2> QED
    BY <2>2, <2>3, <2>4, <2>5
<1>8. IndexInv'
  <2>1. \A j, k \in 1 .. (BucketEnd - 1) : j # k => ~ Ambiguous(j, k)
    BY <1>7
  <2>2. \A j \in 1 .. (BucketEnd - 1), k \in BucketEnd .. Len(index) : (Id(j) < Id(k))'
    BY <1>1, <1>6 DEF Id
  <2>3. \A j, k \in 1 .. (BucketEnd - 1) : Ambiguous(j, k)' <=> Ambiguous(j, k)
    BY <1>1 DEF Ambiguous, Id, EntryOf, paths_stripped, decodeVars
  <2>4. index' \in SortedIndexes'
    BY <1>1, <1>5 DEF IndexInv
  <2>5. start' = BucketEnd /\ Len(index') = Len(index)
    BY <1>1
  <2> QED
    BY <2>1, <2>2, <2>3, <2>4, <2>5 DEF IndexInv
<1>9. OutcomeInv'
  BY <1>1 DEF OutcomeInv, RefusedIndexIsAmbiguous, decodeVars
<1> QED
  BY <1>5, <1>8, <1>9 DEF IInv

LEMMA RefusedStep ==
    ASSUME IInv, CheckBucket, ~ BucketValid
    PROVE  \E i \in DOMAIN entries :
             LET same == {j \in DOMAIN entries : entries[j].path_hash = entries[i].path_hash} IN
             \/ Cardinality(same) > HARD_MAX_IDENTIFIER_BUCKET_ENTRIES
             \/ paths_stripped /\ Cardinality(same) > 1
             \/ \E j \in same : j # i /\ entries[j].path = entries[i].path
<1> DEFINE Same(i) == {j \in DOMAIN entries : entries[j].path_hash = entries[i].path_hash}
<1>1. Typing /\ IndexInv /\ pc = "buckets" /\ start <= Len(index)
  BY DEF IInv, CheckBucket
<1>2. Lists(index)
  BY <1>1, SortedFacts DEF IndexInv
<1>3. /\ BucketEnd \in (start + 1) .. (Len(index) + 1)
      /\ \A k \in start .. (BucketEnd - 1) : Id(k) = Id(start)
  BY <1>1, <1>2, BucketFacts
<1>4. /\ start \in Nat /\ Len(index) \in Nat /\ start \in 1 .. Len(index)
      /\ DOMAIN entries = 1 .. Len(entries) /\ Len(entries) \in Nat
  <2>1. /\ start \in Nat /\ Len(index) \in Nat /\ start \in 1 .. (Len(index) + 1)
        /\ DOMAIN entries = 1 .. Len(entries) /\ Len(entries) \in Nat
    BY <1>1, Facts DEF Typing, TypeOK
  <2> QED
    BY <1>1, <2>1
<1>5. Bucket \subseteq 1 .. Len(index) /\ start \in Bucket
  BY <1>3, <1>4 DEF Bucket
<1>6. /\ \A k \in Bucket : /\ EntryOf(k) \in DOMAIN entries
                           /\ entries[EntryOf(k)].path_hash = Id(start)
      /\ \A j, k \in Bucket : EntryOf(j) = EntryOf(k) => j = k
  <2>1. ASSUME NEW k \in Bucket
        PROVE  EntryOf(k) \in DOMAIN entries /\ entries[EntryOf(k)].path_hash = Id(start)
    <3>1. k \in 1 .. Len(index) /\ Id(k) = Id(start)
      BY <1>3, <1>5 DEF Bucket
    <3> QED
      BY <1>2, <1>4, <3>1 DEF Lists, Id, EntryOf
  <2>2. ASSUME NEW j \in Bucket, NEW k \in Bucket, EntryOf(j) = EntryOf(k) PROVE j = k
    BY <1>2, <1>5, <2>2 DEF Lists, EntryOf
  <2> QED
    BY <2>1, <2>2
<1> DEFINE i == EntryOf(start)
<1>7. i \in DOMAIN entries /\ \A k \in Bucket : EntryOf(k) \in Same(i)
  BY <1>5, <1>6
<1>8. IsFiniteSet(Same(i)) /\ IsFiniteSet(Bucket)
      /\ Cardinality(Same(i)) \in Nat /\ Cardinality(Bucket) \in Nat
  <2>1. IsFiniteSet(1 .. Len(entries)) /\ IsFiniteSet(1 .. Len(index))
    BY <1>4, FirstNumbers
  <2>2. Same(i) \in SUBSET (1 .. Len(entries)) /\ Bucket \in SUBSET (1 .. Len(index))
    BY <1>4, <1>5
  <2>3. IsFiniteSet(Same(i)) /\ IsFiniteSet(Bucket)
    BY <2>1, <2>2, FS_Subset
  <2> QED
    BY <2>3, FS_CardinalityType
<1>9. Cardinality(Bucket) <= Cardinality(Same(i))
  <2> DEFINE f == [k \in Bucket |-> EntryOf(k)]
  <2>1. f \in Injection(Bucket, Same(i))
    <3>1. f \in [Bucket -> Same(i)]
      BY <1>7
    <3>2. \A j, k \in DOMAIN f : f[j] = f[k] => j = k
      BY <1>6
    <3> QED
      BY <3>1, <3>2 DEF Injection, IsInjective
  <2> HIDE DEF f
  <2> QED
    BY <1>8, <2>1, FS_Injection
<1>10. HARD_MAX_IDENTIFIER_BUCKET_ENTRIES \in Nat
  BY OpenAssumption, Zenon
<1>11. CASE ~ (Cardinality(Bucket) <= HARD_MAX_IDENTIFIER_BUCKET_ENTRIES)
  <2>1. Cardinality(Same(i)) > HARD_MAX_IDENTIFIER_BUCKET_ENTRIES
    BY <1>8, <1>9, <1>10, <1>11
  <2> QED
    BY <1>7, <2>1
<1>12. CASE paths_stripped /\ Cardinality(Bucket) # 1
  <2>1. Cardinality(Bucket) # 0
    BY <1>5, <1>8, FS_EmptySet
  <2>2. Cardinality(Same(i)) > 1
    BY <1>8, <1>9, <1>12, <2>1
  <2> QED
    BY <1>7, <1>12, <2>2
<1>13. CASE \E j, k \in Bucket : j # k /\ entries[EntryOf(j)].path = entries[EntryOf(k)].path
  <2>1. PICK j \in Bucket, k \in Bucket :
           j # k /\ entries[EntryOf(j)].path = entries[EntryOf(k)].path
    BY <1>13
  <2>2. /\ EntryOf(j) \in DOMAIN entries /\ EntryOf(k) \in Same(EntryOf(j))
        /\ EntryOf(k) # EntryOf(j)
    BY <1>6, <2>1
  <2> QED
    BY <2>1, <2>2
<1> HIDE DEF Same, i
<1> QED
  BY <1>11, <1>12, <1>13 DEF BucketValid

LEMMA CheckBucketStep ==
    ASSUME IInv, CheckBucket
    PROVE  IInv'
<1>1. Typing /\ IndexInv /\ OutcomeInv /\ pc = "buckets"
      /\ UNCHANGED <<header, limits, decodeVars, index>>
  BY DEF IInv, CheckBucket
<1>2. CASE BucketValid /\ start' = BucketEnd /\ UNCHANGED <<pc, err>>
  BY <1>2, BucketStep
<1>3. ASSUME pc' = "rejected", UNCHANGED start, err' # "index" \/ ~ BucketValid
      PROVE  IInv'
  <2>1. start' \in 1 .. (Len(index) + 1)
    BY <1>1, <1>3 DEF Typing, TypeOK
  <2>2. Typing' /\ DecodeInv' /\ EntriesInv'
    BY <1>1, <1>3, <2>1, IndexFrame
  <2>3. RefusedIndexIsAmbiguous'
    <3>1. CASE err' # "index"
      BY <3>1 DEF RefusedIndexIsAmbiguous
    <3>2. CASE ~ BucketValid
      <4>1. entries' = entries /\ header' = header
        BY <1>1 DEF decodeVars
      <4> QED
        BY <3>2, <4>1, RefusedStep DEF RefusedIndexIsAmbiguous, paths_stripped
    <3> QED
      BY <1>3, <3>1, <3>2
  <2>4. IndexInv' /\ OutcomeInv'
    BY <1>3, <2>3 DEF IndexInv, OutcomeInv
  <2> QED
    BY <2>2, <2>4 DEF IInv
<1> QED
  BY <1>2, <1>3 DEF CheckBucket, Reject

LEMMA StutterStep ==
    ASSUME IInv, UNCHANGED vars
    PROVE  IInv'
<1>1. UNCHANGED <<pc, header, limits, cursor, total_path_bytes, entries, chunk_count,
                  index, start, err>>
  BY DEF vars, decodeVars, indexVars
<1>2. Typing' /\ DecodeInv' /\ EntriesInv'
  BY <1>1 DEF IInv, Typing, TypeOK, DecodeInv, EntriesInv, EntryOk, PathBytes,
              WithinLimits, MinimumRaw, EstimatedMetadata, paths_stripped
<1>3. IndexInv'
  BY <1>1 DEF IInv, IndexInv, SortedIndexes, Ambiguous, Id, EntryOf, paths_stripped
<1>4. OutcomeInv'
  BY <1>1 DEF IInv, OutcomeInv, RefusedIndexIsAmbiguous, paths_stripped
<1> QED
  BY <1>2, <1>3, <1>4 DEF IInv

LEMMA NextIInv == IInv /\ [Next]_vars => IInv'
<1> SUFFICES ASSUME IInv, [Next]_vars PROVE IInv'
  OBVIOUS
<1>1. CASE UNCHANGED vars \/ Terminated
  BY <1>1, StutterStep DEF Terminated
<1>2. ASSUME NEW r \in [path : StoredPaths \cup {Empty}, path_hash : Hashes,
                        original_size : Sizes, reserved : {0, 1}], DecodeEntry(r)
      PROVE  IInv'
  BY <1>2, DecodeEntryStep
<1>3. ASSUME NEW known \in BOOLEAN, DecodeChunk(known) PROVE IInv'
  BY <1>3, DecodeChunkStep
<1>4. CASE CheckHeader \/ ReadToc
  BY <1>4, CheckHeaderStep, ReadTocStep
<1>5. CASE EndOfEntries \/ EndOfToc
  BY <1>5, EndOfTableStep
<1>6. CASE SortIndex \/ CheckBucket \/ Opened
  BY <1>6, SortIndexStep, CheckBucketStep, OpenedStep
<1> QED
  BY <1>1, <1>2, <1>3, <1>4, <1>5, <1>6, Zenon DEF Next

LEMMA OpenAlways == Spec => []IInv
  BY InitIInv, NextIInv, PTL DEF Spec

\* The decoder never stands past the end of the table, the index only points
\* at decoded entries, and validate_index never leaves the index.
THEOREM TypeCorrect == Spec => []TypeOK
<1>1. IInv => TypeOK
  BY DEF IInv, Typing
<1> QED
  BY <1>1, OpenAlways, PTL

\* validate_index refuses an index only for a reason: more entries with one id
\* than a bucket may hold, or two entries that would answer to one lookup.
THEOREM RefusalsHaveAReason == Spec => []RefusedIndexIsAmbiguous
<1>1. IInv => RefusedIndexIsAmbiguous
  BY DEF IInv, OutcomeInv
<1> QED
  BY <1>1, OpenAlways, PTL

\* What an open archive holds is within the caller's limits for memory and for
\* path bytes and within the hard maximum of entries, although validate_limits
\* only saw what the header declared.
THEOREM MemoryStaysWithinLimits == Spec => []RetainedWithinLimit
<1>1. IInv => RetainedWithinLimit
  <2> SUFFICES ASSUME IInv, pc = "open"
               PROVE  /\ Len(entries) * ENTRY_BYTES + chunk_count * CHUNK_BYTES
                           + SumFunction(PathBytes) <= limits.max_metadata_bytes
                      /\ Len(entries) <= HARD.max_entries
                      /\ SumFunction(PathBytes) <= limits.max_total_path_bytes
    BY DEF RetainedWithinLimit, PathBytes
  <2>1. Typing /\ DecodeInv
    BY DEF IInv
  <2>2. SumFunction(PathBytes) \in Nat
    BY <2>1, PathBytesFacts
  <2>3. /\ WithinLimits(header) /\ Len(entries) <= header.entry_count
        /\ Len(entries) <= limits.max_entries
        /\ SumFunction(PathBytes) <= total_path_bytes
        /\ total_path_bytes <= limits.max_total_path_bytes
        /\ limits.max_entries <= HARD.max_entries
        /\ total_path_bytes \in 0 .. cursor /\ cursor \in 0 .. header.toc_raw_size
        /\ chunk_count \in 0 .. header.chunk_count
    BY <2>1 DEF DecodeInv, Typing, TypeOK
  <2>4. /\ header.entry_count \in Nat /\ header.chunk_count \in Nat
        /\ header.toc_size \in Nat /\ header.toc_raw_size \in Nat
        /\ limits.max_entries \in Nat /\ limits.max_metadata_bytes \in Nat
        /\ limits.max_total_path_bytes \in Nat /\ HARD.max_entries \in Nat
        /\ cursor \in Nat /\ total_path_bytes \in Nat /\ chunk_count \in Nat
        /\ Len(entries) \in Nat
    BY <2>1, Facts
  <2>5. EstimatedMetadata(header) <= limits.max_metadata_bytes
    BY <2>3 DEF WithinLimits
  <2>10. ENTRY_BYTES = 128 /\ CHUNK_BYTES = 41
    BY DEF ENTRY_BYTES, CHUNK_BYTES
  <2>6. EstimatedMetadata(header)
           = header.toc_size + header.toc_raw_size + header.toc_raw_size
                + header.entry_count * 128 + header.chunk_count * 41
    BY <2>10 DEF EstimatedMetadata
  <2>7. Len(entries) * ENTRY_BYTES = Len(entries) * 128 /\ chunk_count * CHUNK_BYTES = chunk_count * 41
    BY <2>10
  <2>8. SumFunction(PathBytes) <= header.toc_raw_size
    BY <2>2, <2>3, <2>4
  <2>9. Len(entries) * 128 + chunk_count * 41 + SumFunction(PathBytes)
           <= limits.max_metadata_bytes
    <3> DEFINE e == Len(entries)  he == header.entry_count
               c == chunk_count   hc == header.chunk_count
               t == header.toc_size  r == header.toc_raw_size
               m == limits.max_metadata_bytes  s == SumFunction(PathBytes)
    <3>1. /\ e \in Nat /\ he \in Nat /\ c \in Nat /\ hc \in Nat
          /\ t \in Nat /\ r \in Nat /\ m \in Nat /\ s \in Nat
      BY <2>2, <2>4
    <3>2. e <= he /\ s <= r
      BY <2>3, <2>8
    <3>3. c <= hc
      BY <2>3, <2>4
    <3>4. t + r + r + he * 128 + hc * 41 <= m
      BY <2>5, <2>6
    <3>5. e * 128 + c * 41 + s <= m
      <4> HIDE DEF e, he, c, hc, t, r, m, s
      <4> QED
        BY <3>1, <3>2, <3>3, <3>4
    <3> QED
      BY <3>5
  <2>11. Len(entries) * ENTRY_BYTES + chunk_count * CHUNK_BYTES + SumFunction(PathBytes)
            <= limits.max_metadata_bytes
    BY <2>7, <2>9, Zenon
  <2>12. Len(entries) <= HARD.max_entries
    BY <2>3, <2>4
  <2>13. SumFunction(PathBytes) <= limits.max_total_path_bytes
    BY <2>2, <2>3, <2>4
  <2> QED
    BY <2>11, <2>12, <2>13, Zenon
<1> QED
  BY <1>1, OpenAlways, PTL

-----------------------------------------------------------------------------
(* Lookups in the open archive.                                            *)

\* A set of positions that is closed downwards is known by its size.
LEMMA DownwardClosed ==
    ASSUME NEW n \in Nat, NEW D \in SUBSET (1 .. n),
           \A j, k \in 1 .. n : k \in D /\ j <= k => j \in D
    PROVE  D = 1 .. Cardinality(D)
<1> DEFINE M == {k \in 1 .. n + 1 : k \notin D}
<1>1. PICK m \in M : \A k \in M : m <= k
  <2>1. M \in SUBSET Nat /\ n + 1 \in M
    OBVIOUS
  <2> HIDE DEF M
  <2> QED
    BY <2>1, SmallestNat
<1>2. m \in 1 .. n + 1 /\ m \notin D /\ m - 1 \in Nat
  BY <1>1
<1>3. D = 1 .. (m - 1)
  <2>1. ASSUME NEW k \in D PROVE k \in 1 .. (m - 1)
    <3>1. k \in 1 .. n
      OBVIOUS
    <3>2. ~ (m <= k)
      BY <1>2, <3>1
    <3> QED
      BY <1>2, <3>1, <3>2
  <2>2. ASSUME NEW k \in 1 .. (m - 1) PROVE k \in D
    <3>1. k \in 1 .. n + 1 /\ ~ (m <= k)
      BY <1>2
    <3> QED
      BY <1>1, <3>1
  <2> QED
    BY <2>1, <2>2
<1>4. Cardinality(1 .. (m - 1)) = m - 1
  BY <1>2, FirstNumbers
<1> QED
  BY <1>3, <1>4

\* The two partition points of hash_range enclose the entries with this id.
LEMMA RangeIsBucket ==
    ASSUME Typing, Lists(index), NEW id \in Nat
    PROVE  HashRange(id) = {k \in 1 .. Len(index) : Id(k) = id}
<1> DEFINE n == Len(index)
           A == {k \in 1 .. n : Id(k) < id}
           B == {k \in 1 .. n : Id(k) <= id}
<1>1. /\ n \in Nat /\ DOMAIN index = 1 .. n
      /\ \A k \in 1 .. n : Id(k) \in Nat
      /\ \A j, k \in 1 .. n : j <= k => Id(j) <= Id(k)
  BY Facts DEF Lists, Id
<1> HIDE DEF n
<1>2. A = 1 .. Cardinality(A)
  <2>1. \A j, k \in 1 .. n : k \in A /\ j <= k => j \in A
    BY <1>1
  <2>2. A \in SUBSET (1 .. n)
    OBVIOUS
  <2> HIDE DEF A
  <2> QED
    BY <1>1, <2>1, <2>2, DownwardClosed
<1>3. B = 1 .. Cardinality(B)
  <2>1. \A j, k \in 1 .. n : k \in B /\ j <= k => j \in B
    BY <1>1
  <2>2. B \in SUBSET (1 .. n)
    OBVIOUS
  <2> HIDE DEF B
  <2> QED
    BY <1>1, <2>1, <2>2, DownwardClosed
<1>4. Cardinality(A) \in Nat /\ Cardinality(B) \in Nat
  <2>1. A \in SUBSET (1 .. n) /\ B \in SUBSET (1 .. n) /\ IsFiniteSet(1 .. n)
    BY <1>1, FirstNumbers
  <2> HIDE DEF A, B
  <2> QED
    BY <2>1, FS_Subset, FS_CardinalityType
<1>5. HashRange(id) = (Cardinality(A) + 1) .. Cardinality(B)
  BY <1>1 DEF HashRange
<1>6. (Cardinality(A) + 1) .. Cardinality(B) = (1 .. Cardinality(B)) \ (1 .. Cardinality(A))
  <2> HIDE DEF A, B
  <2> QED
    BY <1>4
<1>7. B \ A = {k \in 1 .. n : Id(k) = id}
  BY <1>1
<1> HIDE DEF A, B
<1> QED
  BY <1>2, <1>3, <1>5, <1>6, <1>7 DEF n

LEMMA FirstIsOne ==
    ASSUME NEW S \in SUBSET Nat, S # {}
    PROVE  FirstOf(S) \in S
<1>1. \E k \in S : \A j \in S : k <= j
  BY SmallestNat
<1> QED
  BY <1>1 DEF FirstOf

\* What the invariant says of an open archive: every entry has one place in
\* the index, and no two places answer to one lookup.
Answers ==
    /\ Typing /\ Lists(index) /\ EntriesInv
    /\ \A j, k \in 1 .. Len(index) : j # k => ~ Ambiguous(j, k)

LEMMA OpenAnswers == IInv /\ pc = "open" => Answers
<1> SUFFICES ASSUME IInv, pc = "open" PROVE Answers
  OBVIOUS
<1>1. Typing /\ EntriesInv /\ index \in SortedIndexes /\ start = Len(index) + 1
  BY DEF IInv, IndexInv, OutcomeInv
<1>2. Lists(index) /\ Len(index) \in Nat /\ start - 1 = Len(index)
  BY <1>1, SortedFacts, Facts
<1>3. \A j, k \in 1 .. (start - 1) : j # k => ~ Ambiguous(j, k)
  BY DEF IInv, IndexInv
<1> QED
  BY <1>1, <1>2, <1>3 DEF Answers

LEMMA PlaceOf ==
    ASSUME Answers
    PROVE  /\ \A k \in 1 .. Len(index) : /\ EntryOf(k) \in 1 .. Len(entries)
                                         /\ entries[EntryOf(k)].path_hash = Id(k)
           /\ \A i \in 1 .. Len(entries) : \E k \in 1 .. Len(index) :
                 EntryOf(k) = i /\ Id(k) = entries[i].path_hash
<1>1. Lists(index)
  BY DEF Answers
<1>2. \A k \in 1 .. Len(index) : /\ index[k][2] \in 1 .. Len(entries)
                                 /\ entries[index[k][2]].path_hash = index[k][1]
  BY <1>1, Zenon DEF Lists
<1>3. \A i \in 1 .. Len(entries) : \E k \in 1 .. Len(index) : index[k][2] = i
  BY <1>1, Zenon DEF Lists
<1>4. \A i \in 1 .. Len(entries) : \E k \in 1 .. Len(index) :
         index[k][2] = i /\ index[k][1] = entries[i].path_hash
  <2> TAKE i \in 1 .. Len(entries)
  <2>1. PICK k \in 1 .. Len(index) : index[k][2] = i
    BY <1>3, Zenon
  <2>2. entries[index[k][2]].path_hash = index[k][1]
    BY <1>2, Zenon
  <2>3. entries[i].path_hash = index[k][1]
    BY <2>1, <2>2, Zenon
  <2> QED
    BY <2>1, <2>3, Zenon
<1> QED
  BY <1>2, <1>4, Zenon DEF EntryOf, Id

LEMMA PathLookup ==
    ASSUME Answers, NEW p \in Paths, NEW i \in DOMAIN entries
    PROVE  FindPath(p) = i <=>
              IF paths_stripped THEN entries[i].path_hash = PathHash[p]
              ELSE entries[i].path = p
<1> DEFINE range == HashRange(PathHash[p])
           matching == {k \in range : entries[EntryOf(k)].path = p}
           n == Len(index)
<1>1. /\ Typing /\ Lists(index) /\ EntriesInv
      /\ \A j, k \in 1 .. n : j # k => ~ Ambiguous(j, k)
  BY DEF Answers
<1>2. PathHash[p] \in Nat
  <2>1. PathHash[p] \in Hashes /\ Hashes \subseteq Nat
    BY PathSets
  <2> QED
    BY <2>1
<1>3. range = {k \in 1 .. n : Id(k) = PathHash[p]}
  BY <1>1, <1>2, RangeIsBucket
<1>4. range \in SUBSET Nat /\ matching \in SUBSET Nat /\ matching \subseteq range
  BY <1>3
<1>5. /\ i \in Nat /\ i >= 1 /\ i \in 1 .. Len(entries)
  BY <1>1, Facts
<1>6. PICK k \in 1 .. n : EntryOf(k) = i /\ Id(k) = entries[i].path_hash
  BY <1>5, PlaceOf
<1>7. \A j \in 1 .. n : entries[EntryOf(j)].path_hash = Id(j)
  BY PlaceOf
<1>8. FindPath(p) = IF range = {} THEN NotFound
                    ELSE IF paths_stripped THEN EntryOf(FirstOf(range))
                    ELSE IF matching = {} THEN NotFound
                    ELSE EntryOf(FirstOf(matching))
  BY DEF FindPath
<1>9. NotFound # i
  BY <1>5 DEF NotFound
<1>10. range # {} => FirstOf(range) \in range
  <2> HIDE DEF range
  <2> QED
    BY <1>4, FirstIsOne
<1>11. matching # {} => FirstOf(matching) \in matching
  <2> HIDE DEF matching
  <2> QED
    BY <1>4, FirstIsOne
<1>12. CASE paths_stripped
  <2>1. ASSUME FindPath(p) = i PROVE entries[i].path_hash = PathHash[p]
    <3>1. range # {} /\ EntryOf(FirstOf(range)) = i
      BY <1>8, <1>9, <1>12, <2>1
    <3>2. FirstOf(range) \in 1 .. n /\ Id(FirstOf(range)) = PathHash[p]
      BY <1>3, <1>10, <3>1
    <3> QED
      BY <1>7, <3>1, <3>2
  <2>2. ASSUME entries[i].path_hash = PathHash[p] PROVE FindPath(p) = i
    <3>1. k \in range
      BY <1>3, <1>6, <2>2
    <3>2. FirstOf(range) \in 1 .. n /\ Id(FirstOf(range)) = Id(k)
      BY <1>3, <1>10, <3>1
    <3>3. FirstOf(range) = k
      BY <1>1, <1>12, <3>2 DEF Ambiguous
    <3> QED
      BY <1>6, <1>8, <1>12, <3>1, <3>3
  <2> QED
    BY <1>12, <2>1, <2>2
<1>13. CASE ~ paths_stripped
  <2>1. ASSUME FindPath(p) = i PROVE entries[i].path = p
    <3>1. matching # {} /\ EntryOf(FirstOf(matching)) = i
      BY <1>8, <1>9, <1>13, <2>1
    <3> QED
      BY <1>11, <3>1
  <2>2. ASSUME entries[i].path = p PROVE FindPath(p) = i
    <3>1. entries[i].path_hash = PathHash[p]
      BY <1>1, <1>13, <2>2 DEF EntriesInv, EntryOk
    <3>2. k \in range /\ k \in matching
      BY <1>3, <1>6, <2>2, <3>1
    <3>3. FirstOf(matching) \in matching
      BY <1>11, <3>2
    <3>4. /\ FirstOf(matching) \in 1 .. n /\ Id(FirstOf(matching)) = Id(k)
          /\ entries[EntryOf(FirstOf(matching))].path = entries[EntryOf(k)].path
      BY <1>3, <1>6, <2>2, <3>2, <3>3
    <3>5. FirstOf(matching) = k
      BY <1>1, <3>4 DEF Ambiguous
    <3> QED
      BY <1>6, <1>8, <1>13, <3>2, <3>5
  <2> QED
    BY <1>13, <2>1, <2>2
<1> QED
  BY <1>12, <1>13

LEMMA IdLookup ==
    ASSUME Answers, NEW id \in Hashes, NEW having,
           having = {i \in DOMAIN entries : entries[i].path_hash = id}
    PROVE  /\ having = {} <=> FindId(id) = NotFound
           /\ FindId(id) = Collision <=> Cardinality(having) > 1
           /\ FindId(id) > 0 => having = {FindId(id)}
<1> DEFINE range == HashRange(id)
           n == Len(index)
<1>1. Typing /\ Lists(index) /\ id \in Nat /\ n \in Nat /\ DOMAIN entries = 1 .. Len(entries)
  BY PathSets, Facts DEF Answers
<1>2. range = {k \in 1 .. n : Id(k) = id}
  BY <1>1, RangeIsBucket
<1>3. FindId(id) = IF range = {} THEN NotFound
                   ELSE IF Cardinality(range) # 1 THEN Collision ELSE EntryOf(FirstOf(range))
  BY DEF FindId
<1>4. /\ \A k \in range : EntryOf(k) \in having
      /\ \A i \in having : \E k \in range : EntryOf(k) = i
      /\ \A j, k \in range : EntryOf(j) = EntryOf(k) => j = k
  <2>1. \A k \in range : EntryOf(k) \in having
    BY <1>1, <1>2, PlaceOf
  <2>2. \A i \in having : \E k \in range : EntryOf(k) = i
    BY <1>1, <1>2, PlaceOf
  <2>3. \A j, k \in 1 .. n : EntryOf(j) = EntryOf(k) => j = k
    BY <1>1 DEF Lists, EntryOf
  <2> QED
    BY <1>2, <2>1, <2>2, <2>3
<1>5. range \in SUBSET (1 .. n) /\ range \in SUBSET Nat
  BY <1>2
<1> HIDE DEF range
<1>6. IsFiniteSet(range) /\ Cardinality(range) \in Nat
  BY <1>1, <1>5, FirstNumbers, FS_Subset, FS_CardinalityType
<1>7. Cardinality(having) = Cardinality(range)
  <2> DEFINE f == [k \in range |-> EntryOf(k)]
  <2>1. f \in [range -> having]
    BY <1>4
  <2>2. IsInjective(f)
    BY <1>4 DEF IsInjective
  <2>3. \A i \in having : \E k \in range : f[k] = i
    BY <1>4
  <2> HIDE DEF f
  <2>4. f \in Bijection(range, having)
    BY <2>1, <2>2, <2>3 DEF Bijection, Injection, Surjection
  <2>5. ExistsBijection(range, having)
    BY <2>4 DEF ExistsBijection
  <2> QED
    BY <1>6, <2>5, FS_Bijection
<1>8. range = {} <=> having = {}
  BY <1>4
<1>9. NotFound = 0 /\ Collision = -1 /\ \A i \in having : i \in Nat /\ i >= 1
  BY <1>1 DEF NotFound, Collision
<1>10. CASE range = {}
  <2>1. FindId(id) = 0 /\ having = {} /\ Cardinality(having) = 0
    BY <1>3, <1>8, <1>9, <1>10, FS_EmptySet
  <2> QED
    BY <1>9, <2>1
<1>11. CASE range # {} /\ Cardinality(range) # 1
  <2>1. FindId(id) = -1 /\ having # {} /\ Cardinality(range) # 0
    BY <1>3, <1>6, <1>8, <1>9, <1>11, FS_EmptySet
  <2>2. Cardinality(having) > 1
    BY <1>6, <1>7, <1>11, <2>1
  <2> QED
    BY <1>9, <2>1, <2>2
<1>12. CASE range # {} /\ Cardinality(range) = 1
  <2>1. PICK x : range = {x}
    BY <1>6, <1>12, FS_Singleton
  <2>2. FirstOf(range) = x
    BY <1>5, <1>12, <2>1, FirstIsOne
  <2>3. FindId(id) = EntryOf(x)
    BY <1>3, <1>12, <2>2
  <2>4. having = {EntryOf(x)}
    BY <1>4, <2>1
  <2>5. EntryOf(x) \in Nat /\ EntryOf(x) >= 1
    BY <1>9, <2>4
  <2>6. Cardinality(having) = 1
    BY <1>7, <1>12
  <2> QED
    BY <1>9, <2>3, <2>4, <2>5, <2>6
<1> QED
  BY <1>10, <1>11, <1>12

\* In an archive that open let through, whatever its bytes were, a lookup by
\* path finds exactly the entry that goes through the same names, or has the
\* same hash where paths are stripped; paths normalize_path refuses are
\* refused; and a lookup by id finds the one entry with it or says that there
\* are several.
THEOREM LookupsAreExact == Spec => []LookupsExact
<1>1. IInv => LookupsExact
  <2> SUFFICES ASSUME IInv, pc = "open" PROVE LookupsExact
    BY DEF LookupsExact
  <2>1. Answers
    BY OpenAnswers
  <2>2. DOMAIN Meaning = {x \in RawPaths : Accepted(x)}
    BY DEF Meaning
  <2>3. ASSUME NEW q \in RawPaths, q \notin DOMAIN Meaning
        PROVE  Find(q) = InvalidPath
    <3>1. Normalized[q] = Rejected
      BY <2>2, <2>3, RawFacts
    <3> QED
      BY <3>1 DEF Find
  <2>4. ASSUME NEW q \in RawPaths, q \in DOMAIN Meaning, NEW i \in DOMAIN entries
        PROVE  Find(q) = i <=>
                  IF paths_stripped THEN entries[i].path_hash = PathHash[Meaning[q]]
                  ELSE entries[i].path = Meaning[q]
    <3>1. Accepted(q) /\ Meaning[q] = Reference(q)
      BY <2>2, <2>4 DEF Meaning
    <3>2. Normalized[q] = Meaning[q] /\ Normalized[q] # Rejected /\ Normalized[q] \in Paths
      BY <3>1, RawFacts
    <3>3. Find(q) = FindPath(Meaning[q])
      BY <3>2 DEF Find
    <3> QED
      BY <2>1, <3>2, <3>3, PathLookup
  <2>5. ASSUME NEW id \in Hashes, NEW having,
               having = {i \in DOMAIN entries : entries[i].path_hash = id}
        PROVE  /\ having = {} <=> FindId(id) = NotFound
               /\ FindId(id) = Collision <=> Cardinality(having) > 1
               /\ FindId(id) > 0 => having = {FindId(id)}
    BY <2>1, <2>5, IdLookup
  <2> QED
    BY <2>3, <2>4, <2>5 DEF LookupsExact
<1> QED
  BY <1>1, OpenAlways, PTL

=============================================================================
