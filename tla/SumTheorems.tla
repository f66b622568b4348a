---------------------------- MODULE SumTheorems -----------------------------
(***************************************************************************)
(* What SumFunctionOnSet of the community modules computes on finite sets. *)
(* It takes the elements in an order it does not tell; these facts make    *)
(* that order disappear.  Induction goes by a smallest counterexample.     *)
(* The last part says what they mean for the totals of a layout.           *)
(***************************************************************************)
EXTENDS Layout, FiniteSetTheorems, WellFoundedInduction, NaturalsInduction,
        TLAPS

\* A set of numbers that is not empty has a smallest one.
LEMMA SmallestNat ==
    ASSUME NEW B \in SUBSET Nat, B # {}
    PROVE  \E m \in B : \A k \in B : m <= k
<1> DEFINE R == {ss \in Nat \X Nat : ss[1] < ss[2]}
<1>1. IsWellFoundedOn(R, Nat)
  BY NatLessThanWellFounded DEF OpToRel
<1>2. PICK m \in B : \A k \in B : <<k, m>> \notin R
  <2> HIDE DEF R
  <2> QED
    BY <1>1, WFMin
<1>3. \A k \in B : ~(k < m)
  BY <1>2
<1> HIDE DEF R
<1> QED
  BY <1>3

\* Among sets of subsets of a finite set there is one none of whose proper
\* subsets is among them.
LEMMA SmallestSet ==
    ASSUME NEW S, IsFiniteSet(S), NEW B \in SUBSET (SUBSET S), B # {}
    PROVE  \E T \in B : \A U \in SUBSET T : U # T => U \notin B
<1> DEFINE R == {ss \in Nat \X Nat : ss[1] < ss[2]}
           N == {n \in Nat : \E T \in B : Cardinality(T) = n}
<1>1. \A T \in SUBSET S : IsFiniteSet(T) /\ Cardinality(T) \in Nat
  BY FS_Subset, FS_CardinalityType
<1>2. N \subseteq Nat /\ N # {}
  BY <1>1
<1>3. PICK n \in N : \A m \in N : <<m, n>> \notin R
  <2>1. IsWellFoundedOn(R, Nat)
    BY NatLessThanWellFounded DEF OpToRel
  <2> HIDE DEF R, N
  <2> QED
    BY <1>2, <2>1, WFMin
<1>4. PICK T \in B : Cardinality(T) = n
  OBVIOUS
<1>5. \A m \in N : ~(m < n)
  <2>1. n \in Nat /\ \A m \in N : m \in Nat
    BY <1>2
  <2> HIDE DEF N
  <2> QED
    BY <1>3, <2>1
<1>6. ASSUME NEW U \in SUBSET T, U # T, U \in B
      PROVE  FALSE
  <2>1. /\ IsFiniteSet(T) /\ IsFiniteSet(U) /\ Cardinality(T) \in Nat /\ Cardinality(U) \in Nat
        /\ Cardinality(U) <= Cardinality(T) /\ Cardinality(T) # Cardinality(U)
    BY <1>1, <1>6, FS_Subset
  <2>2. Cardinality(U) \in N
    BY <1>6, <2>1
  <2> HIDE DEF N
  <2> QED
    BY <1>4, <1>5, <2>1, <2>2
<1> QED
  BY <1>6

Chosen(s) == CHOOSE x \in s : TRUE

IsSum(g, f, S) ==
    g = [s \in SUBSET S |-> IF s = {} THEN 0 ELSE f[Chosen(s)] + g[s \ {Chosen(s)}]]

LEMMA SumIs ==
    ASSUME NEW f, NEW S
    PROVE  SumFunctionOnSet(f, S) = (CHOOSE g : IsSum(g, f, S))[S]
  BY Zenon DEF SumFunctionOnSet, FoldFunctionOnSet, MapThenFoldSet, IsSum, Chosen

LEMMA SumFacts ==
    ASSUME NEW f, NEW S, NEW g, IsSum(g, f, S), NEW s \in SUBSET S
    PROVE  /\ s = {} => g[s] = 0
           /\ s # {} => /\ Chosen(s) \in s /\ s \ {Chosen(s)} \in SUBSET s
                        /\ s \ {Chosen(s)} \in SUBSET S
                        /\ g[s] = f[Chosen(s)] + g[s \ {Chosen(s)}]
<1>1. s # {} => Chosen(s) \in s
  BY DEF Chosen
<1>2. g[s] = IF s = {} THEN 0 ELSE f[Chosen(s)] + g[s \ {Chosen(s)}]
  BY Zenon DEF IsSum
<1> QED
  BY <1>1, <1>2

LEMMA SumAtEmpty ==
    ASSUME NEW f, NEW S, NEW g, IsSum(g, f, S)
    PROVE  g[{}] = 0
<1>1. {} \in SUBSET S
  OBVIOUS
<1>2. g[{}] = IF {} = {} THEN 0 ELSE f[Chosen({})] + g[{} \ {Chosen({})}]
  BY <1>1, Zenon DEF IsSum
<1> QED
  BY <1>2

LEMMA SumsAgree ==
    ASSUME NEW f, NEW S, NEW g, IsSum(g, f, S), NEW V, NEW h, IsSum(h, f, V),
           NEW A, IsFiniteSet(A), A \in SUBSET S, A \in SUBSET V
    PROVE  g[A] = h[A]
<1> DEFINE B == {s \in SUBSET A : g[s] # h[s]}
<1>1. SUFFICES B = {}
  OBVIOUS
<1>2. SUFFICES ASSUME B # {}
               PROVE  FALSE
  OBVIOUS
<1>3. PICK T \in B : \A U \in SUBSET T : U # T => U \notin B
  <2>1. B \in SUBSET (SUBSET A)
    OBVIOUS
  <2> HIDE DEF B
  <2> QED
    BY <1>2, <2>1, SmallestSet
<1>4. T \in SUBSET S /\ T \in SUBSET V /\ T \in SUBSET A /\ g[T] # h[T]
  OBVIOUS
<1> HIDE DEF B
<1>5. T # {}
  <2>1. g[{}] = 0
    BY SumAtEmpty
  <2>2. h[{}] = 0
    BY SumAtEmpty
  <2> QED
    BY <1>4, <2>1, <2>2
<1>6. /\ Chosen(T) \in T /\ T \ {Chosen(T)} \in SUBSET T
      /\ g[T] = f[Chosen(T)] + g[T \ {Chosen(T)}]
      /\ h[T] = f[Chosen(T)] + h[T \ {Chosen(T)}]
  <2>1. /\ Chosen(T) \in T /\ T \ {Chosen(T)} \in SUBSET T
        /\ g[T] = f[Chosen(T)] + g[T \ {Chosen(T)}]
    BY <1>4, <1>5, SumFacts
  <2>2. h[T] = f[Chosen(T)] + h[T \ {Chosen(T)}]
    BY <1>4, <1>5, SumFacts
  <2> QED
    BY <2>1, <2>2
<1>7. T \ {Chosen(T)} # T
  BY <1>6
<1>8. g[T \ {Chosen(T)}] = h[T \ {Chosen(T)}]
  <2>1. T \ {Chosen(T)} \in SUBSET A
    BY <1>4, <1>6
  <2>2. T \ {Chosen(T)} \notin B
    BY <1>3, <1>6, <1>7
  <2> QED
    BY <2>1, <2>2 DEF B
<1> QED
  BY <1>4, <1>6, <1>8

LEMMA SumExists ==
    ASSUME NEW f, NEW S, IsFiniteSet(S)
    PROVE  \E g : IsSum(g, f, S)
<1> DEFINE B == {s \in SUBSET S : ~\E g : IsSum(g, f, s)}
<1>1. SUFFICES ASSUME B # {}
               PROVE  FALSE
  OBVIOUS
<1>2. PICK T \in B : \A U \in SUBSET T : U # T => U \notin B
  <2>1. B \in SUBSET (SUBSET S)
    OBVIOUS
  <2> HIDE DEF B
  <2> QED
    BY <1>1, <2>1, SmallestSet
<1>3. T \in SUBSET S /\ ~\E g : IsSum(g, f, T)
  OBVIOUS
<1>4. \A U \in SUBSET T : U # T => IsFiniteSet(U) /\ \E g : IsSum(g, f, U)
  BY <1>2, <1>3, FS_Subset
<1> HIDE DEF B
<1> DEFINE H(u) == CHOOSE h : IsSum(h, f, u)
           g == [s \in SUBSET T |-> IF s = {} THEN 0
                   ELSE f[Chosen(s)] + H(s \ {Chosen(s)})[s \ {Chosen(s)}]]
<1>5. \A U \in SUBSET T : U # T => IsSum(H(U), f, U)
  BY <1>4
<1>6. ASSUME NEW v \in SUBSET T, v # T
      PROVE  g[v] = H(v)[v]
  <2>0. IsSum(H(v), f, v) /\ v \in SUBSET v
    BY <1>5, <1>6
  <2>1. CASE v = {}
    <3>1. g[v] = 0
      BY <2>1
    <3> HIDE DEF g, H
    <3> QED
      BY <2>0, <2>1, <3>1, SumFacts
  <2>2. CASE v # {}
    <3>1. PICK w : w = v \ {Chosen(v)}
      OBVIOUS
    <3>2. g[v] = f[Chosen(v)] + H(w)[w]
      BY <2>2, <3>1
    <3> HIDE DEF g, H
    <3>3. /\ w \in SUBSET v /\ Chosen(v) \in v /\ H(v)[v] = f[Chosen(v)] + H(v)[w]
      BY <2>0, <2>2, <3>1, SumFacts
    <3>4. w # T /\ w \in SUBSET T /\ w \in SUBSET w
      BY <1>6, <3>1, <3>3
    <3>5. IsSum(H(w), f, w) /\ IsFiniteSet(w)
      BY <1>4, <1>5, <3>4
    <3>6. H(v)[w] = H(w)[w]
      BY <2>0, <3>3, <3>4, <3>5, SumsAgree
    <3> QED
      BY <3>2, <3>3, <3>6
  <2> QED
    BY <2>1, <2>2
<1>7. ASSUME NEW s \in SUBSET T
      PROVE  g[s] = IF s = {} THEN 0 ELSE f[Chosen(s)] + g[s \ {Chosen(s)}]
  <2>1. CASE s = {}
    BY <2>1
  <2>2. CASE s # {}
    <3>1. PICK v : v = s \ {Chosen(s)}
      OBVIOUS
    <3>2. g[s] = f[Chosen(s)] + H(v)[v]
      BY <2>2, <3>1
    <3>3. Chosen(s) \in s
      BY <2>2 DEF Chosen
    <3>4. v \in SUBSET T /\ v # T
      BY <3>1, <3>3
    <3>5. g[v] = H(v)[v]
      BY <1>6, <3>4
    <3> HIDE DEF g, H
    <3> QED
      BY <2>2, <3>1, <3>2, <3>5
  <2> QED
    BY <2>1, <2>2
<1>8. IsSum(g, f, T)
  <2>1. g = [s \in SUBSET T |-> g[s]]
    OBVIOUS
  <2> HIDE DEF g
  <2> QED
    BY <1>7, <2>1 DEF IsSum
<1> QED
  BY <1>3, <1>8

-----------------------------------------------------------------------------
(* The sum itself.                                                         *)

LEMMA SumIsAny ==
    ASSUME NEW f, NEW S, IsFiniteSet(S)
    PROVE  \E g : /\ IsSum(g, f, S)
                  /\ \A s \in SUBSET S : g[s] = SumFunctionOnSet(f, s)
<1>1. PICK g : IsSum(g, f, S)
  BY SumExists
<1>2. ASSUME NEW s \in SUBSET S
      PROVE  g[s] = SumFunctionOnSet(f, s)
  <2>1. IsFiniteSet(s) /\ s \in SUBSET s
    BY FS_Subset
  <2>2. PICK h : h = CHOOSE k : IsSum(k, f, s)
    OBVIOUS
  <2>3. IsSum(h, f, s)
    BY <2>1, <2>2, SumExists
  <2>4. SumFunctionOnSet(f, s) = h[s]
    BY <2>2, SumIs
  <2>5. g[s] = h[s]
    BY <1>1, <2>1, <2>3, SumsAgree
  <2> QED
    BY <2>4, <2>5
<1> QED
  BY <1>1, <1>2

\* Nothing sums to 0.
LEMMA SumEmpty ==
    ASSUME NEW f
    PROVE  SumFunctionOnSet(f, {}) = 0
<1>1. IsFiniteSet({})
  BY FS_EmptySet
<1>2. PICK g : IsSum(g, f, {}) /\ \A s \in SUBSET {} : g[s] = SumFunctionOnSet(f, s)
  BY <1>1, SumIsAny
<1> QED
  BY <1>2, SumAtEmpty

LEMMA SumStep ==
    ASSUME NEW f, NEW S, IsFiniteSet(S), S # {}
    PROVE  /\ Chosen(S) \in S
           /\ SumFunctionOnSet(f, S)
                 = f[Chosen(S)] + SumFunctionOnSet(f, S \ {Chosen(S)})
<1>1. PICK g : IsSum(g, f, S) /\ \A s \in SUBSET S : g[s] = SumFunctionOnSet(f, s)
  BY SumIsAny
<1>2. S \in SUBSET S
  OBVIOUS
<1>3. /\ Chosen(S) \in S /\ S \ {Chosen(S)} \in SUBSET S
      /\ g[S] = f[Chosen(S)] + g[S \ {Chosen(S)}]
  BY <1>1, <1>2, SumFacts
<1> QED
  BY <1>1, <1>2, <1>3

\* A sum of natural numbers is a natural number.
LEMMA SumType ==
    ASSUME NEW f, NEW S, IsFiniteSet(S), \A x \in S : f[x] \in Nat
    PROVE  SumFunctionOnSet(f, S) \in Nat
<1> DEFINE B == {s \in SUBSET S : SumFunctionOnSet(f, s) \notin Nat}
<1>1. SUFFICES ASSUME B # {}
               PROVE  FALSE
  OBVIOUS
<1>2. PICK T \in B : \A U \in SUBSET T : U # T => U \notin B
  <2>1. B \in SUBSET (SUBSET S)
    OBVIOUS
  <2> HIDE DEF B
  <2> QED
    BY <1>1, <2>1, SmallestSet
<1>3. T \in SUBSET S /\ IsFiniteSet(T)
  BY FS_Subset
<1>4. SumFunctionOnSet(f, T) \notin Nat
  OBVIOUS
<1>5. T # {}
  BY <1>4, SumEmpty
<1>6. /\ Chosen(T) \in T
      /\ SumFunctionOnSet(f, T) = f[Chosen(T)] + SumFunctionOnSet(f, T \ {Chosen(T)})
  BY <1>3, <1>5, SumStep
<1>7. T \ {Chosen(T)} \in SUBSET T /\ T \ {Chosen(T)} # T
  BY <1>6
<1>8. SumFunctionOnSet(f, T \ {Chosen(T)}) \in Nat
  BY <1>2, <1>3, <1>7
<1>9. f[Chosen(T)] \in Nat
  BY <1>3, <1>6
<1> QED
  BY <1>4, <1>6, <1>8, <1>9

\* The sum only depends on the values at the elements of the set.
LEMMA SumSame ==
    ASSUME NEW f, NEW g, NEW S, IsFiniteSet(S), \A x \in S : f[x] = g[x]
    PROVE  SumFunctionOnSet(f, S) = SumFunctionOnSet(g, S)
<1> DEFINE B == {s \in SUBSET S : SumFunctionOnSet(f, s) # SumFunctionOnSet(g, s)}
<1>1. SUFFICES ASSUME B # {}
               PROVE  FALSE
  OBVIOUS
<1>2. PICK T \in B : \A U \in SUBSET T : U # T => U \notin B
  <2>1. B \in SUBSET (SUBSET S)
    OBVIOUS
  <2> HIDE DEF B
  <2> QED
    BY <1>1, <2>1, SmallestSet
<1>3. T \in SUBSET S /\ IsFiniteSet(T)
  BY FS_Subset
<1>4. SumFunctionOnSet(f, T) # SumFunctionOnSet(g, T)
  OBVIOUS
<1>5. T # {}
  BY <1>4, SumEmpty
<1>6. /\ Chosen(T) \in T
      /\ SumFunctionOnSet(f, T) = f[Chosen(T)] + SumFunctionOnSet(f, T \ {Chosen(T)})
  BY <1>3, <1>5, SumStep
<1>7. SumFunctionOnSet(g, T) = g[Chosen(T)] + SumFunctionOnSet(g, T \ {Chosen(T)})
  BY <1>3, <1>5, SumStep
<1>8. T \ {Chosen(T)} \in SUBSET T /\ T \ {Chosen(T)} # T
  BY <1>6
<1>9. SumFunctionOnSet(f, T \ {Chosen(T)}) = SumFunctionOnSet(g, T \ {Chosen(T)})
  BY <1>2, <1>3, <1>8
<1>10. f[Chosen(T)] = g[Chosen(T)]
  BY <1>3, <1>6
<1> QED
  BY <1>4, <1>6, <1>7, <1>9, <1>10

\* Any element may be taken out first.
LEMMA SumRemove ==
    ASSUME NEW f, NEW S, IsFiniteSet(S), \A x \in S : f[x] \in Nat, NEW e \in S
    PROVE  SumFunctionOnSet(f, S) = f[e] + SumFunctionOnSet(f, S \ {e})
<1> DEFINE B == {s \in SUBSET S :
                   \E x \in s : SumFunctionOnSet(f, s) # f[x] + SumFunctionOnSet(f, s \ {x})}
<1>1. SUFFICES ASSUME B # {}
               PROVE  FALSE
  OBVIOUS
<1>2. PICK T \in B : \A U \in SUBSET T : U # T => U \notin B
  <2>1. B \in SUBSET (SUBSET S)
    OBVIOUS
  <2> HIDE DEF B
  <2> QED
    BY <1>1, <2>1, SmallestSet
<1>3. T \in SUBSET S /\ IsFiniteSet(T)
  BY FS_Subset
<1>4. PICK x \in T : SumFunctionOnSet(f, T) # f[x] + SumFunctionOnSet(f, T \ {x})
  OBVIOUS
<1>5. PICK c : c = Chosen(T)
  OBVIOUS
<1>6. c \in T /\ SumFunctionOnSet(f, T) = f[c] + SumFunctionOnSet(f, T \ {c})
  BY <1>3, <1>4, <1>5, SumStep
<1>7. c # x
  BY <1>4, <1>6
<1>8. ASSUME NEW a \in T, NEW b \in T, a # b
      PROVE  SumFunctionOnSet(f, T \ {a}) = f[b] + SumFunctionOnSet(f, T \ {a, b})
  <2>1. T \ {a} \in SUBSET T /\ T \ {a} # T /\ b \in T \ {a} /\ T \ {a} \in SUBSET S
    BY <1>3, <1>8
  <2>2. T \ {a} \notin B
    BY <1>2, <2>1
  <2>3. (T \ {a}) \ {b} = T \ {a, b}
    OBVIOUS
  <2>4. SumFunctionOnSet(f, T \ {a}) = f[b] + SumFunctionOnSet(f, (T \ {a}) \ {b})
    BY <2>1, <2>2
  <2> QED
    BY <2>3, <2>4
<1>9. SumFunctionOnSet(f, T \ {c}) = f[x] + SumFunctionOnSet(f, T \ {c, x})
  BY <1>6, <1>7, <1>8
<1>10. SumFunctionOnSet(f, T \ {x}) = f[c] + SumFunctionOnSet(f, T \ {x, c})
  BY <1>6, <1>7, <1>8
<1>11. T \ {x, c} = T \ {c, x}
  OBVIOUS
<1>12. f[x] \in Nat /\ f[c] \in Nat
  BY <1>3, <1>6
<1>13. SumFunctionOnSet(f, T \ {c, x}) \in Nat
  <2>1. T \ {c, x} \in SUBSET S
    BY <1>3
  <2>2. IsFiniteSet(T \ {c, x}) /\ \A y \in T \ {c, x} : f[y] \in Nat
    BY <2>1, FS_Subset
  <2> QED
    BY <2>2, SumType
<1> HIDE DEF B
<1> QED
  BY <1>4, <1>6, <1>9, <1>10, <1>11, <1>12, <1>13

\* Adding an element adds its value.
LEMMA SumAdd ==
    ASSUME NEW f, NEW S, IsFiniteSet(S), NEW e, e \notin S,
           f[e] \in Nat, \A x \in S : f[x] \in Nat
    PROVE  SumFunctionOnSet(f, S \cup {e}) = SumFunctionOnSet(f, S) + f[e]
<1>1. IsFiniteSet(S \cup {e})
  BY FS_AddElement
<1>2. (S \cup {e}) \ {e} = S
  OBVIOUS
<1>3. SumFunctionOnSet(f, S \cup {e}) = f[e] + SumFunctionOnSet(f, (S \cup {e}) \ {e})
  BY <1>1, SumRemove
<1>4. SumFunctionOnSet(f, S) \in Nat
  BY SumType
<1>5. SumFunctionOnSet(f, S \cup {e}) = f[e] + SumFunctionOnSet(f, S)
  BY <1>2, <1>3, Zenon
<1> QED
  BY <1>4, <1>5

\* A sequence of numbers one longer has a sum larger by its last number.
LEMMA SumOneMore ==
    ASSUME NEW n \in Nat, NEW f \in [1 .. n -> Nat], NEW g \in [1 .. n + 1 -> Nat],
           \A i \in 1 .. n : g[i] = f[i]
    PROVE  /\ SumFunction(f) \in Nat /\ SumFunction(g) \in Nat
           /\ SumFunction(g) = SumFunction(f) + g[n + 1]
<1>1. IsFiniteSet(1 .. n) /\ IsFiniteSet(1 .. n + 1)
  BY FS_Interval
<1>2. 1 .. n + 1 = (1 .. n) \cup {n + 1} /\ n + 1 \notin 1 .. n
  OBVIOUS
<1>3. g[n + 1] \in Nat /\ \A i \in 1 .. n : g[i] \in Nat
  OBVIOUS
<1>4. SumFunctionOnSet(g, (1 .. n) \cup {n + 1}) = SumFunctionOnSet(g, 1 .. n) + g[n + 1]
  BY <1>1, <1>2, <1>3, SumAdd
<1>5. SumFunctionOnSet(g, 1 .. n) = SumFunctionOnSet(f, 1 .. n)
  BY <1>1, SumSame
<1>6. SumFunctionOnSet(f, 1 .. n) \in Nat /\ SumFunctionOnSet(g, 1 .. n + 1) \in Nat
  BY <1>1, SumType
<1>7. DOMAIN f = 1 .. n /\ DOMAIN g = 1 .. n + 1
  OBVIOUS
<1> QED
  BY <1>2, <1>4, <1>5, <1>6, <1>7 DEF SumFunction

\* A part of a set sums to no more than the set.
LEMMA SumWithin ==
    ASSUME NEW f, NEW S, IsFiniteSet(S), \A x \in S : f[x] \in Nat, NEW A \in SUBSET S
    PROVE  SumFunctionOnSet(f, A) <= SumFunctionOnSet(f, S)
<1>a. \A s \in SUBSET S : SumFunctionOnSet(f, s) \in Nat
  <2>1. ASSUME NEW s \in SUBSET S
        PROVE  SumFunctionOnSet(f, s) \in Nat
    <3>1. IsFiniteSet(s) /\ \A x \in s : f[x] \in Nat
      BY FS_Subset
    <3> QED
      BY <3>1, SumType
  <2> QED
    BY <2>1
<1> DEFINE B == {s \in SUBSET S :
                   A \subseteq s /\ ~(SumFunctionOnSet(f, A) <= SumFunctionOnSet(f, s))}
<1>1. SUFFICES ASSUME B # {}
               PROVE  FALSE
  <2>1. S \in SUBSET S /\ A \subseteq S
    OBVIOUS
  <2> QED
    BY <2>1
<1>2. PICK T \in B : \A U \in SUBSET T : U # T => U \notin B
  <2>1. B \in SUBSET (SUBSET S)
    OBVIOUS
  <2> HIDE DEF B
  <2> QED
    BY <1>1, <2>1, SmallestSet
<1>3. T \in SUBSET S /\ IsFiniteSet(T)
  BY FS_Subset
<1>4. A \subseteq T /\ ~(SumFunctionOnSet(f, A) <= SumFunctionOnSet(f, T))
  OBVIOUS
<1>5. A # T
  <2>1. SumFunctionOnSet(f, T) \in Nat
    BY <1>3, <1>a
  <2>2. SumFunctionOnSet(f, T) <= SumFunctionOnSet(f, T)
    BY <2>1
  <2> QED
    BY <1>4, <2>2
<1>6. PICK x \in T : x \notin A
  BY <1>4, <1>5
<1>7. SumFunctionOnSet(f, T) = f[x] + SumFunctionOnSet(f, T \ {x})
  BY <1>3, <1>6, SumRemove
<1>8. /\ T \ {x} \in SUBSET T /\ T \ {x} # T /\ A \subseteq T \ {x}
      /\ T \ {x} \in SUBSET S
  BY <1>3, <1>4, <1>6
<1>9. SumFunctionOnSet(f, A) <= SumFunctionOnSet(f, T \ {x})
  BY <1>2, <1>8
<1>10. f[x] \in Nat
  BY <1>3, <1>6
<1> HIDE DEF B
<1>11. SumFunctionOnSet(f, A) \in Nat /\ SumFunctionOnSet(f, T \ {x}) \in Nat
  BY <1>8, <1>a
<1> QED
  BY <1>4, <1>7, <1>9, <1>10, <1>11

-----------------------------------------------------------------------------
(* The totals of a layout's chunks.                                        *)

\* M has n chunks, whose sizes are natural numbers.
HasChunks(M, n) ==
    /\ n \in Nat /\ DOMAIN M.chunks = 1 .. n
    /\ \A k \in 1 .. n : /\ M.chunks[k].original_size \in Nat
                          /\ M.chunks[k].stored_size \in Nat

\* Totals are natural numbers, grow chunk by chunk, and a part of the chunks
\* has no larger total.
LEMMA TotalFacts ==
    ASSUME NEW M, NEW n, HasChunks(M, n), NEW K \in SUBSET (1 .. n)
    PROVE  /\ OriginalTotal(M, K) \in Nat /\ StoredTotal(M, K) \in Nat
           /\ OriginalTotal(M, {}) = 0 /\ StoredTotal(M, {}) = 0
           /\ \A k \in 1 .. n : k \notin K =>
                 /\ OriginalTotal(M, K \cup {k})
                       = OriginalTotal(M, K) + M.chunks[k].original_size
                 /\ StoredTotal(M, K \cup {k})
                       = StoredTotal(M, K) + M.chunks[k].stored_size
           /\ \A J \in SUBSET K : /\ OriginalTotal(M, J) <= OriginalTotal(M, K)
                                  /\ StoredTotal(M, J) <= StoredTotal(M, K)
<1>1. PICK f : f = [k \in DOMAIN M.chunks |-> M.chunks[k].original_size]
  OBVIOUS
<1>2. PICK g : g = [k \in DOMAIN M.chunks |-> M.chunks[k].stored_size]
  OBVIOUS
<1>3. \A J : OriginalTotal(M, J) = SumFunctionOnSet(f, J)
  BY <1>1 DEF OriginalTotal
<1>4. \A J : StoredTotal(M, J) = SumFunctionOnSet(g, J)
  BY <1>2 DEF StoredTotal
<1>5. n \in Nat /\ IsFiniteSet(1 .. n) /\ IsFiniteSet(K)
  <2>1. n \in Nat
    BY DEF HasChunks
  <2>2. IsFiniteSet(1 .. n)
    BY <2>1, FS_Interval
  <2> QED
    BY <2>1, <2>2, FS_Subset
<1>6. \A k \in 1 .. n : /\ f[k] = M.chunks[k].original_size /\ f[k] \in Nat
                        /\ g[k] = M.chunks[k].stored_size /\ g[k] \in Nat
  BY <1>1, <1>2 DEF HasChunks
<1>7. SumFunctionOnSet(f, K) \in Nat /\ SumFunctionOnSet(g, K) \in Nat
  <2>1. (\A x \in K : f[x] \in Nat) /\ (\A x \in K : g[x] \in Nat)
    BY <1>6
  <2> QED
    BY <1>5, <2>1, SumType
<1>8. SumFunctionOnSet(f, {}) = 0 /\ SumFunctionOnSet(g, {}) = 0
  BY SumEmpty
<1>9. ASSUME NEW k \in 1 .. n, k \notin K
      PROVE  /\ SumFunctionOnSet(f, K \cup {k}) = SumFunctionOnSet(f, K) + f[k]
             /\ SumFunctionOnSet(g, K \cup {k}) = SumFunctionOnSet(g, K) + g[k]
  <2>1. /\ \A x \in K : f[x] \in Nat
        /\ \A x \in K : g[x] \in Nat
        /\ f[k] \in Nat /\ g[k] \in Nat
    BY <1>6
  <2>2. SumFunctionOnSet(f, K \cup {k}) = SumFunctionOnSet(f, K) + f[k]
    BY <1>5, <1>9, <2>1, SumAdd
  <2>3. SumFunctionOnSet(g, K \cup {k}) = SumFunctionOnSet(g, K) + g[k]
    BY <1>5, <1>9, <2>1, SumAdd
  <2> QED
    BY <2>2, <2>3
<1>10. ASSUME NEW J \in SUBSET K
       PROVE  /\ SumFunctionOnSet(f, J) <= SumFunctionOnSet(f, K)
              /\ SumFunctionOnSet(g, J) <= SumFunctionOnSet(g, K)
  <2>1. /\ \A x \in K : f[x] \in Nat
        /\ \A x \in K : g[x] \in Nat
    BY <1>6
  <2> QED
    BY <1>5, <2>1, SumWithin
<1>11. ASSUME NEW k \in 1 .. n, k \notin K
       PROVE  /\ OriginalTotal(M, K \cup {k})
                    = OriginalTotal(M, K) + M.chunks[k].original_size
              /\ StoredTotal(M, K \cup {k})
                    = StoredTotal(M, K) + M.chunks[k].stored_size
  BY <1>3, <1>4, <1>6, <1>9, <1>11
<1>12. ASSUME NEW J \in SUBSET K
       PROVE  /\ OriginalTotal(M, J) <= OriginalTotal(M, K)
              /\ StoredTotal(M, J) <= StoredTotal(M, K)
  BY <1>3, <1>4, <1>10
<1> QED
  BY <1>3, <1>4, <1>7, <1>8, <1>11, <1>12

\* A table that grew has kept its totals.
LEMMA GrownTotals ==
    ASSUME NEW M, NEW n, HasChunks(M, n), NEW N, NEW m, HasChunks(N, m), n <= m,
           \A k \in 1 .. n : N.chunks[k] = M.chunks[k]
    PROVE  \A K \in SUBSET (1 .. n) : /\ OriginalTotal(N, K) = OriginalTotal(M, K)
                                      /\ StoredTotal(N, K) = StoredTotal(M, K)
<1> SUFFICES ASSUME NEW K \in SUBSET (1 .. n)
             PROVE  /\ OriginalTotal(N, K) = OriginalTotal(M, K)
                    /\ StoredTotal(N, K) = StoredTotal(M, K)
  OBVIOUS
<1>1. PICK f : f = [k \in DOMAIN M.chunks |-> M.chunks[k].original_size]
  OBVIOUS
<1>2. PICK g : g = [k \in DOMAIN M.chunks |-> M.chunks[k].stored_size]
  OBVIOUS
<1>3. PICK f2 : f2 = [k \in DOMAIN N.chunks |-> N.chunks[k].original_size]
  OBVIOUS
<1>4. PICK g2 : g2 = [k \in DOMAIN N.chunks |-> N.chunks[k].stored_size]
  OBVIOUS
<1>5. IsFiniteSet(K)
  <2>1. n \in Nat
    BY DEF HasChunks
  <2>2. IsFiniteSet(1 .. n)
    BY <2>1, FS_Interval
  <2> QED
    BY <2>2, FS_Subset
<1>6. \A k \in K : k \in DOMAIN M.chunks /\ k \in DOMAIN N.chunks
  BY DEF HasChunks
<1>7. \A k \in K : f[k] = f2[k]
  BY <1>1, <1>3, <1>6
<1>8. \A k \in K : g[k] = g2[k]
  BY <1>2, <1>4, <1>6
<1>9. SumFunctionOnSet(f, K) = SumFunctionOnSet(f2, K)
  BY <1>5, <1>7, SumSame
<1>10. SumFunctionOnSet(g, K) = SumFunctionOnSet(g2, K)
  BY <1>5, <1>8, SumSame
<1> QED
  BY <1>1, <1>2, <1>3, <1>4, <1>9, <1>10 DEF OriginalTotal, StoredTotal
=============================================================================
