--------------------------- MODULE AgentTurnProofs ---------------------------
(***************************************************************************)
(* Proofs about ContextCompaction and AgentTurn.  First the selection on   *)
(* its own, as a system that is given any history at any time; then that   *)
(* every step of the agent is a step of the selection or leaves it alone,  *)
(* which carries the selection's theorems over to the agent.               *)
(***************************************************************************)
EXTENDS AgentTurn, FiniteSetTheorems, TLAPS

-----------------------------------------------------------------------------
(* What FlattenSeq, SumFunctionOnSet and a rank compute.  The least natural *)
(* number of a set stands in for induction.                                 *)

LEMMA LeastNat ==
    ASSUME NEW T, T \subseteq Nat, T # {}
    PROVE  \E i \in T : \A j \in T : i <= j
<1> DEFINE R == StrictSubsetOrdering(Nat)
           U == {0..n : n \in T}
<1>1. IsWellFoundedOn(R, FiniteSubsetsOf(Nat))
  BY FS_StrictSubsetOrderingWellFounded
<1>2. U \subseteq FiniteSubsetsOf(Nat) /\ U # {}
  <2>1. \A n \in T : IsFiniteSet(0..n) /\ 0..n \subseteq Nat
    BY FS_Interval
  <2> QED
    BY <2>1 DEF FiniteSubsetsOf
<1>3. PICK x \in U : \A y \in U : ~ (<<y, x>> \in R)
  <2> HIDE DEF R, U
  <2> QED
    BY <1>1, <1>2, WFMin
<1>4. PICK i \in T : x = 0..i
  OBVIOUS
<1>5. ASSUME NEW j \in T, j < i PROVE FALSE
  <2>1. 0..j \subseteq 0..i /\ 0..j # 0..i /\ 0..i \subseteq Nat
    BY <1>5
  <2>2. <<0..j, 0..i>> \in R
    BY <2>1 DEF StrictSubsetOrdering
  <2> QED
    BY <2>2, <1>3, <1>4
<1> QED
  BY <1>4, <1>5

\* What FlattenSeq computes, unfolded.
Flattens(f, q) ==
    f = [i \in 1..Len(q) |-> IF i = 1 THEN q[i] ELSE f[i - 1] \o q[i]]

LEMMA FlattensExists ==
    ASSUME NEW C, NEW q \in Seq(C) PROVE \E f : Flattens(f, q)
<1> DEFINE Good(g, n) == \A i \in 1..n : g[i] = IF i = 1 THEN q[i] ELSE g[i - 1] \o q[i]
           T == {n \in Nat : ~ \E g : g = [i \in 1..n |-> g[i]] /\ Good(g, n)}
<1>1. T = {}
  <2> SUFFICES ASSUME T # {} PROVE FALSE
    OBVIOUS
  <2>1. PICK n \in T : \A k \in T : n <= k
    <3>1. T \subseteq Nat
      OBVIOUS
    <3> HIDE DEF T
    <3> QED
      BY <3>1, LeastNat
  <2>2. n # 0
    <3> DEFINE g == [i \in 1..0 |-> 0]
    <3>1. g = [i \in 1..0 |-> g[i]] /\ Good(g, 0)
      OBVIOUS
    <3> QED
      BY <3>1
  <2>3. n - 1 \in Nat /\ n - 1 \notin T
    BY <2>1, <2>2
  <2>4. PICK g : g = [i \in 1..(n - 1) |-> g[i]] /\ Good(g, n - 1)
    BY <2>3
  <2>5. \A i \in 1..(n - 1) : g[i] = IF i = 1 THEN q[i] ELSE g[i - 1] \o q[i]
    BY <2>4
  <2> DEFINE h == [i \in 1..n |-> IF i < n THEN g[i]
                                  ELSE IF i = 1 THEN q[i] ELSE g[i - 1] \o q[i]]
  <2>6. \A i \in 1..n : h[i] = IF i = 1 THEN q[i] ELSE h[i - 1] \o q[i]
    <3> TAKE i \in 1..n
    <3> HIDE <2>4
    <3>0. h[i] = IF i < n THEN g[i] ELSE IF i = 1 THEN q[i] ELSE g[i - 1] \o q[i]
      OBVIOUS
    <3>1. CASE i = 1
      <4>1. i < n => g[i] = q[i]
        BY <2>5, <3>1
      <4> HIDE DEF h
      <4> QED
        BY <3>0, <3>1, <4>1
    <3>2. CASE i # 1
      <4>1. i - 1 \in 1..(n - 1) /\ i - 1 \in 1..n /\ i - 1 < n
        BY <3>2
      <4>2. h[i - 1] = g[i - 1]
        BY <4>1
      <4>3. h[i] = g[i - 1] \o q[i]
        <5>1. i < n => g[i] = g[i - 1] \o q[i]
          <6>1. i < n => i \in 1..(n - 1)
            OBVIOUS
          <6> HIDE DEF h
          <6> QED
            BY <2>5, <3>2, <6>1
        <5> HIDE DEF h
        <5> QED
          BY <3>0, <3>2, <5>1
      <4> QED
        BY <3>2, <4>2, <4>3
    <3> QED
      BY <3>1, <3>2
  <2>7. h = [i \in 1..n |-> h[i]]
    OBVIOUS
  <2> HIDE DEF h
  <2> QED
    BY <2>6, <2>7
<1>2. Len(q) \in Nat
  OBVIOUS
<1>3. PICK g : g = [i \in 1..Len(q) |-> g[i]] /\ Good(g, Len(q))
  BY <1>1, <1>2
<1>4. Flattens(g, q)
  BY <1>3 DEF Flattens
<1> QED
  BY <1>4

LEMMA FlattenClosed ==
    ASSUME NEW C, <<>> \in C, \A x, y \in C : x \o y \in C,
           NEW q \in Seq(C)
    PROVE  FlattenSeq(q) \in C
<1>1. CASE Len(q) = 0
  BY <1>1 DEF FlattenSeq
<1>2. CASE Len(q) # 0
  <2> DEFINE f == CHOOSE f : Flattens(f, q)
             T == {i \in 1..Len(q) : f[i] \notin C}
  <2>1. FlattenSeq(q) = f[Len(q)]
    BY <1>2 DEF FlattenSeq, Flattens
  <2>2. Flattens(f, q)
    BY FlattensExists
  <2> HIDE DEF f
  <2>3. \A i \in 1..Len(q) : f[i] = IF i = 1 THEN q[i] ELSE f[i - 1] \o q[i]
    BY <2>2 DEF Flattens
  <2>4. T = {}
    <3> SUFFICES ASSUME T # {} PROVE FALSE
      OBVIOUS
    <3>1. PICK n \in T : \A k \in T : n <= k
      <4>1. T \subseteq Nat
        OBVIOUS
      <4> HIDE DEF T
      <4> QED
        BY <4>1, LeastNat
    <3>2. n \in 1..Len(q) /\ f[n] \notin C /\ q[n] \in C
      OBVIOUS
    <3>3. n # 1
      BY <2>3, <3>2
    <3>4. n - 1 \in 1..Len(q) /\ f[n - 1] \in C
      BY <3>1, <3>2, <3>3
    <3> QED
      BY <2>3, <3>2, <3>3, <3>4
  <2>5. Len(q) \in 1..Len(q)
    BY <1>2
  <2> QED
    BY <2>1, <2>4, <2>5
<1> QED
  BY <1>1, <1>2

\* What SumFunctionOnSet computes, unfolded.
AnyOf(s) == CHOOSE x \in s : TRUE

Sums(g, f, S) ==
    g = [s \in SUBSET S |-> IF s = {} THEN 0 ELSE f[AnyOf(s)] + g[s \ {AnyOf(s)}]]

LEMMA SumUnfolds ==
    ASSUME NEW f, NEW S
    PROVE  SumFunctionOnSet(f, S) = (CHOOSE g : Sums(g, f, S))[S]
BY DEF SumFunctionOnSet, FoldFunctionOnSet, MapThenFoldSet, Sums, AnyOf

LEMMA AnyOfIsIn == ASSUME NEW s, s # {} PROVE AnyOf(s) \in s
BY DEF AnyOf

LEMMA SumsExists ==
    ASSUME NEW S, IsFiniteSet(S), NEW f
    PROVE  \E g : Sums(g, f, S)
<1> DEFINE Small(n) == {s \in SUBSET S : Cardinality(s) <= n}
           Body(g, s) == IF s = {} THEN 0 ELSE f[AnyOf(s)] + g[s \ {AnyOf(s)}]
           Good(g, n) == \A s \in Small(n) : g[s] = Body(g, s)
           T == {n \in Nat : ~ \E g : g = [s \in Small(n) |-> g[s]] /\ Good(g, n)}
<1>0. ASSUME NEW s \in SUBSET S
      PROVE  /\ IsFiniteSet(s) /\ Cardinality(s) \in Nat
             /\ s # {} => /\ Cardinality(s) # 0
                          /\ s \ {AnyOf(s)} \in SUBSET S
                          /\ Cardinality(s \ {AnyOf(s)}) = Cardinality(s) - 1
  <2>1. IsFiniteSet(s) /\ Cardinality(s) \in Nat
    BY FS_Subset, FS_CardinalityType
  <2> QED
    BY <2>1, FS_RemoveElement, FS_EmptySet, AnyOfIsIn
<1>1. T = {}
  <2> SUFFICES ASSUME T # {} PROVE FALSE
    OBVIOUS
  <2>1. PICK n \in T : \A k \in T : n <= k
    <3>1. T \subseteq Nat
      OBVIOUS
    <3> HIDE DEF T
    <3> QED
      BY <3>1, LeastNat
  <2>0. n \in Nat
    OBVIOUS
  <2>2. n # 0
    <3> SUFFICES ASSUME n = 0 PROVE FALSE
      OBVIOUS
    <3> DEFINE g == [s \in Small(0) |-> 0]
    <3>1. ASSUME NEW s \in Small(0) PROVE s = {}
      <4>1. s \in SUBSET S /\ Cardinality(s) <= 0
        OBVIOUS
      <4>2. Cardinality(s) \in Nat /\ (s # {} => Cardinality(s) # 0)
        BY <1>0, <4>1
      <4> QED
        BY <4>1, <4>2
    <3>2. g = [s \in Small(0) |-> g[s]] /\ Good(g, 0)
      BY <3>1
    <3> QED
      BY <3>2
  <2>3. n - 1 \in Nat /\ n - 1 \notin T
    <3> HIDE DEF T
    <3> QED
      BY <2>0, <2>1, <2>2
  <2>4. PICK g : g = [s \in Small(n - 1) |-> g[s]] /\ Good(g, n - 1)
    BY <2>3
  <2>5. \A s \in Small(n - 1) : g[s] = Body(g, s)
    BY <2>4
  <2> DEFINE h == [s \in Small(n) |-> IF s \in Small(n - 1) THEN g[s] ELSE Body(g, s)]
  <2>6. \A s \in Small(n) : h[s] = Body(h, s)
    <3> HIDE <2>4
    <3> TAKE s \in Small(n)
    <3>1. h[s] = Body(g, s)
      BY <2>5
    <3>2. CASE s = {}
      BY <3>1, <3>2
    <3>3. CASE s # {}
      <4> DEFINE r == s \ {AnyOf(s)}
      <4>1. r \in SUBSET S /\ Cardinality(r) = Cardinality(s) - 1 /\ Cardinality(s) \in Nat
        BY <1>0, <3>3
      <4>2. r \in Small(n - 1) /\ r \in Small(n)
        <5> HIDE DEF r, h
        <5>1. Cardinality(s) <= n
          OBVIOUS
        <5> QED
          BY <2>0, <4>1, <5>1
      <4>3. h[r] = g[r]
        <5> HIDE DEF r, Small
        <5> QED
          BY <4>2
      <4> QED
        BY <3>1, <3>3, <4>3
    <3> QED
      BY <3>2, <3>3
  <2>7. h = [s \in Small(n) |-> h[s]]
    OBVIOUS
  <2> HIDE DEF h
  <2> QED
    BY <2>6, <2>7
<1>2. Cardinality(S) \in Nat /\ Small(Cardinality(S)) = SUBSET S
  BY FS_Subset, FS_CardinalityType
<1>3. PICK g : g = [s \in Small(Cardinality(S)) |-> g[s]] /\ Good(g, Cardinality(S))
  BY <1>1, <1>2
<1>4. g = [s \in SUBSET S |-> g[s]] /\ \A s \in SUBSET S : g[s] = Body(g, s)
  BY <1>2, <1>3
<1>5. Sums(g, f, S)
  BY <1>4 DEF Sums
<1> QED
  BY <1>5

\* In whatever order the elements are added, each is counted once.
LEMMA SumsAdd ==
    ASSUME NEW S, IsFiniteSet(S), NEW f, \A x \in S : f[x] \in Int,
           NEW g, Sums(g, f, S)
    PROVE  /\ \A s \in SUBSET S : g[s] \in Int
           /\ \A s \in SUBSET S, x \in S : x \notin s => g[s \cup {x}] = f[x] + g[s]
<1>0. \A s \in SUBSET S : IsFiniteSet(s) /\ Cardinality(s) \in Nat
  BY FS_Subset, FS_CardinalityType
<1>1. \A s \in SUBSET S : g[s] = IF s = {} THEN 0 ELSE f[AnyOf(s)] + g[s \ {AnyOf(s)}]
  BY DEF Sums
<1>2. ASSUME NEW s \in SUBSET S, NEW x \in s
      PROVE  s \ {x} \in SUBSET S /\ Cardinality(s \ {x}) = Cardinality(s) - 1
  BY <1>0, FS_RemoveElement
<1> DEFINE Right(s) == g[s] \in Int /\ \A x \in s : g[s] = f[x] + g[s \ {x}]
           T == {Cardinality(s) : s \in {t \in SUBSET S : ~Right(t)}}
<1>3. T = {}
  <2> SUFFICES ASSUME T # {} PROVE FALSE
    OBVIOUS
  <2>1. PICK n \in T : \A k \in T : n <= k
    <3>1. T \subseteq Nat
      BY <1>0
    <3> HIDE DEF T
    <3> QED
      BY <3>1, LeastNat
  <2>2. PICK s \in SUBSET S : ~Right(s) /\ Cardinality(s) = n
    OBVIOUS
  <2>3. ASSUME NEW t \in SUBSET S, Cardinality(t) < Cardinality(s) PROVE Right(t)
    <3> SUFFICES ASSUME ~Right(t) PROVE FALSE
      OBVIOUS
    <3>1. Cardinality(t) \in T
      OBVIOUS
    <3> HIDE DEF T
    <3> QED
      BY <1>0, <2>1, <2>2, <2>3, <3>1
  <2>4. s # {}
    <3> SUFFICES ASSUME s = {} PROVE FALSE
      OBVIOUS
    <3>1. g[s] = 0
      BY <1>1
    <3> QED
      BY <2>2, <3>1
  <2> DEFINE a == AnyOf(s)
  <2>5. a \in s /\ g[s] = f[a] + g[s \ {a}]
    BY <1>1, <2>4, AnyOfIsIn
  <2> HIDE DEF a
  <2>b. ASSUME NEW y \in s
        PROVE  s \ {y} \in SUBSET S /\ Right(s \ {y})
    <3>1. s \ {y} \in SUBSET S /\ Cardinality(s \ {y}) < Cardinality(s)
      BY <1>0, <1>2
    <3> HIDE DEF Right
    <3> QED
      BY <2>3, <3>1
  <2>6. s \ {a} \in SUBSET S /\ Right(s \ {a})
    BY <2>5, <2>b
  <2>7. g[s] \in Int
    BY <2>5, <2>6
  <2>8. ASSUME NEW x \in s PROVE g[s] = f[x] + g[s \ {x}]
    <3>1. CASE x = a
      BY <2>5, <3>1
    <3>2. CASE x # a
      <4>1. x \in s \ {a} /\ a \in s \ {x} /\ (s \ {a}) \ {x} = (s \ {x}) \ {a}
        BY <2>5, <3>2
      <4>2. s \ {x} \in SUBSET S /\ Right(s \ {x})
        BY <2>b
      <4>3. (s \ {x}) \ {a} \in SUBSET S /\ g[(s \ {x}) \ {a}] \in Int
        <5> DEFINE z == (s \ {x}) \ {a}
        <5>1. z \in SUBSET S /\ Cardinality(z) = Cardinality(s \ {x}) - 1
          BY <1>2, <4>1, <4>2
        <5>2. Cardinality(z) < Cardinality(s)
          <6>1. Cardinality(s \ {x}) = Cardinality(s) - 1 /\ Cardinality(s) \in Nat
            BY <1>0, <1>2
          <6> QED
            BY <5>1, <6>1
        <5> HIDE DEF z
        <5>3. g[z] \in Int
          BY <2>3, <5>1, <5>2
        <5> QED
          BY <5>1, <5>3 DEF z
      <4>4. g[s \ {a}] = f[x] + g[(s \ {x}) \ {a}]
        BY <2>6, <4>1
      <4>5. g[s \ {x}] = f[a] + g[(s \ {x}) \ {a}]
        BY <4>1, <4>2
      <4>6. f[x] \in Int /\ f[a] \in Int
        BY <2>5
      <4> QED
        BY <2>5, <4>3, <4>4, <4>5, <4>6
    <3> QED
      BY <3>1, <3>2
  <2> QED
    BY <2>2, <2>7, <2>8
<1>4. \A s \in SUBSET S : Right(s)
  BY <1>3
<1>5. ASSUME NEW s \in SUBSET S, NEW x \in S \ s PROVE g[s \cup {x}] = f[x] + g[s]
  <2>1. s \cup {x} \in SUBSET S /\ (s \cup {x}) \ {x} = s
    OBVIOUS
  <2> QED
    BY <1>4, <2>1
<1> QED
  BY <1>4, <1>5

\* The sum does not depend on the set it is part of.
LEMMA SumsAgree ==
    ASSUME NEW S, NEW U, IsFiniteSet(U), S \subseteq U, NEW f,
           NEW g, Sums(g, f, S), NEW h, Sums(h, f, U)
    PROVE  g[S] = h[S]
<1>0. ASSUME NEW s \in SUBSET S
      PROVE  /\ Cardinality(s) \in Nat
             /\ s # {} => /\ s \ {AnyOf(s)} \in SUBSET S
                          /\ Cardinality(s \ {AnyOf(s)}) = Cardinality(s) - 1
  <2>1. IsFiniteSet(s) /\ Cardinality(s) \in Nat
    BY FS_Subset, FS_CardinalityType
  <2> QED
    BY <2>1, FS_RemoveElement, AnyOfIsIn
<1>1. /\ \A s \in SUBSET S : g[s] = IF s = {} THEN 0 ELSE f[AnyOf(s)] + g[s \ {AnyOf(s)}]
      /\ \A s \in SUBSET S : h[s] = IF s = {} THEN 0 ELSE f[AnyOf(s)] + h[s \ {AnyOf(s)}]
  BY DEF Sums
<1> DEFINE T == {Cardinality(s) : s \in {t \in SUBSET S : g[t] # h[t]}}
<1>2. T = {}
  <2> SUFFICES ASSUME T # {} PROVE FALSE
    OBVIOUS
  <2>1. PICK n \in T : \A k \in T : n <= k
    <3>1. T \subseteq Nat
      BY <1>0
    <3> HIDE DEF T
    <3> QED
      BY <3>1, LeastNat
  <2>2. PICK s \in SUBSET S : g[s] # h[s] /\ Cardinality(s) = n
    OBVIOUS
  <2>3. s # {}
    BY <1>1, <2>2
  <2> DEFINE r == s \ {AnyOf(s)}
  <2>4. r \in SUBSET S /\ Cardinality(r) = n - 1 /\ n \in Nat
    BY <1>0, <2>2, <2>3
  <2>5. g[s] = f[AnyOf(s)] + g[r] /\ h[s] = f[AnyOf(s)] + h[r]
    BY <1>1, <2>3
  <2>6. Cardinality(r) \in T
    <3> HIDE DEF r
    <3>1. g[r] # h[r]
      BY <2>2, <2>5
    <3> QED
      BY <2>4, <3>1
  <2> HIDE DEF T, r
  <2> QED
    BY <2>1, <2>4, <2>6
<1> QED
  BY <1>2

\* A sum of integers over a finite set of indices, and over one index more.
LEMMA SumFacts ==
    ASSUME NEW D, IsFiniteSet(D), NEW f, \A x \in D : f[x] \in Int
    PROVE  /\ SumFunctionOnSet(f, {}) = 0
           /\ \A S \in SUBSET D : SumFunctionOnSet(f, S) \in Int
           /\ \A S \in SUBSET D, x \in D : x \notin S =>
                 SumFunctionOnSet(f, S \cup {x}) = f[x] + SumFunctionOnSet(f, S)
<1>1. PICK h : Sums(h, f, D)
  BY SumsExists
<1>2. ASSUME NEW S \in SUBSET D PROVE SumFunctionOnSet(f, S) = h[S]
  <2> DEFINE g == CHOOSE g : Sums(g, f, S)
  <2>1. IsFiniteSet(S)
    BY FS_Subset
  <2>2. Sums(g, f, S)
    BY <2>1, SumsExists
  <2>3. SumFunctionOnSet(f, S) = g[S]
    BY SumUnfolds
  <2> HIDE DEF g
  <2> QED
    BY <1>1, <2>2, <2>3, SumsAgree
<1>3. /\ \A s \in SUBSET D : h[s] \in Int
      /\ \A s \in SUBSET D, x \in D : x \notin s => h[s \cup {x}] = f[x] + h[s]
  <2>1. ASSUME NEW x \in D PROVE f[x] \in Int
    OBVIOUS
  <2>2. \A s \in SUBSET D : h[s] \in Int
    BY <1>1, <2>1, SumsAdd
  <2>3. \A s \in SUBSET D, x \in D : x \notin s => h[s \cup {x}] = f[x] + h[s]
    BY <1>1, <2>1, SumsAdd
  <2> QED
    BY <2>2, <2>3
<1>4. h[{}] = 0
  BY <1>1 DEF Sums
<1>5. ASSUME NEW S \in SUBSET D, NEW x \in D, x \notin S
      PROVE  SumFunctionOnSet(f, S \cup {x}) = f[x] + SumFunctionOnSet(f, S)
  <2>1. S \cup {x} \in SUBSET D
    OBVIOUS
  <2> QED
    BY <1>2, <1>3, <1>5, <2>1
<1> QED
  BY <1>2, <1>3, <1>4, <1>5

\* How many of K are not above i.
Rank(K, i) == Cardinality({j \in K : j <= i})

LEMMA RankGrows ==
    ASSUME NEW K \in SUBSET Int, IsFiniteSet(K), NEW i \in K, NEW j \in K, i < j
    PROVE  Rank(K, i) < Rank(K, j)
<1> DEFINE A == {x \in K : x <= i}
           B == {x \in K : x <= j}
<1>1. A \subseteq B /\ j \in B /\ j \notin A /\ B \subseteq K
  <2>1. i \in Int /\ j \in Int /\ ~(j <= i)
    OBVIOUS
  <2>2. ASSUME NEW x \in K, x <= i PROVE x <= j
    <3>1. x \in Int
      OBVIOUS
    <3> QED
      BY <2>1, <2>2, <3>1
  <2>3. A \subseteq B /\ B \subseteq K
    BY <2>2
  <2> QED
    BY <2>1, <2>3
<1> HIDE DEF A, B
<1>2. IsFiniteSet(B)
  BY <1>1, FS_Subset
<1>3. Cardinality(A) <= Cardinality(B) /\ Cardinality(A) # Cardinality(B)
  BY <1>1, <1>2, FS_Subset
<1>4. Cardinality(A) \in Nat /\ Cardinality(B) \in Nat
  BY <1>1, <1>2, FS_Subset, FS_CardinalityType
<1> QED
  BY <1>3, <1>4 DEF Rank, A, B

LEMMA RankType ==
    ASSUME NEW K \in SUBSET Int, IsFiniteSet(K), NEW i \in K
    PROVE  Rank(K, i) \in 1..Cardinality(K)
<1> DEFINE A == {x \in K : x <= i}
<1>1. A \subseteq K /\ i \in A
  OBVIOUS
<1> HIDE DEF A
<1>2. IsFiniteSet(A) /\ Cardinality(A) <= Cardinality(K)
  BY <1>1, FS_Subset
<1>3. Cardinality(A) \in Nat /\ Cardinality(K) \in Nat
  BY <1>2, FS_CardinalityType
<1>4. Cardinality(A) # 0
  BY <1>1, <1>2, FS_EmptySet
<1> QED
  BY <1>2, <1>3, <1>4 DEF Rank, A

\* No two of K have the same rank.
LEMMA SameRank ==
    ASSUME NEW K \in SUBSET Int, IsFiniteSet(K), NEW i \in K, NEW j \in K,
           Rank(K, i) = Rank(K, j)
    PROVE  i = j
<1>1. Rank(K, i) \in Int /\ (i < j \/ j < i \/ i = j)
  BY RankType
<1> QED
  BY <1>1, RankGrows

LEMMA EveryRank ==
    ASSUME NEW K \in SUBSET Int, IsFiniteSet(K), NEW k \in 1..Cardinality(K)
    PROVE  \E i \in K : Rank(K, i) = k
<1> SUFFICES ASSUME \A i \in K : Rank(K, i) # k PROVE FALSE
  OBVIOUS
<1> DEFINE N == 1..Cardinality(K)
           f == [i \in K |-> Rank(K, i)]
<1>1. Cardinality(K) \in Nat
  BY FS_CardinalityType
<1>2. IsFiniteSet(N) /\ Cardinality(N) = Cardinality(K)
  BY <1>1, FS_Interval
<1>3. IsFiniteSet(N \ {k}) /\ Cardinality(N \ {k}) < Cardinality(K)
  <2>1. k \in N
    OBVIOUS
  <2> HIDE DEF N
  <2>2. IsFiniteSet(N \ {k}) /\ Cardinality(N \ {k}) = Cardinality(N) - 1
    BY <1>2, <2>1, FS_RemoveElement
  <2> QED
    BY <1>1, <1>2, <2>2
<1>4. f \in [K -> N \ {k}]
  BY RankType
<1>5. PICK x, y \in K : x # y /\ f[x] = f[y]
  <2> HIDE DEF f, N
  <2> QED
    BY <1>3, <1>4, FS_PigeonHole
<1>6. Rank(K, x) = Rank(K, y) /\ Rank(K, x) \in Int
  BY <1>5, RankType
<1>7. x < y \/ y < x
  BY <1>5
<1> QED
  BY <1>6, <1>7, RankGrows

-----------------------------------------------------------------------------
(* Facts about partners, whatever the messages are.                        *)

LEMMA ParentIsUnique ==
    ASSUME NEW m, NEW i, NEW a \in Parent(m, i), NEW b \in Parent(m, i)
    PROVE  a = b
<1>1. /\ a \in 1..(i - 1) /\ b \in 1..(i - 1)
      /\ IssuesCalls(m, a) /\ IssuesCalls(m, b)
  BY DEF Parent
<1>2. a \in Int /\ b \in Int
  BY <1>1
<1>3. ~(a < b)
  BY <1>1, <1>2 DEF Parent
<1>4. ~(b < a)
  BY <1>1, <1>2 DEF Parent
<1> QED
  BY <1>2, <1>3, <1>4

LEMMA PartnerFacts ==
    ASSUME NEW m \in Seq(Messages), NEW i \in DOMAIN m
    PROVE  /\ Partner(m, i) \subseteq DOMAIN m
           /\ Parent(m, i) \subseteq Partner(m, i)
           /\ \A p \in Partner(m, i) : Parent(m, p) \subseteq {i}
<1>1. Parent(m, i) \subseteq DOMAIN m
  BY DEF Parent
<1>2. CASE m[i].role = "tool"
  <2>1. Partner(m, i) = Parent(m, i)
    BY <1>2 DEF Partner
  <2>2. \A p \in Parent(m, i) : m[p].role = "assistant"
    BY DEF Parent, IssuesCalls
  <2>3. \A p \in Parent(m, i) : Parent(m, p) = {}
    BY <2>2 DEF Parent
  <2> QED
    BY <1>1, <2>1, <2>3
<1>3. CASE m[i].role # "tool"
  <2>1. Partner(m, i) \subseteq Results(m, i)
    BY <1>3 DEF Partner
  <2>2. Parent(m, i) = {}
    BY <1>3 DEF Parent
  <2>3. \A p \in Results(m, i) : p \in DOMAIN m /\ i \in Parent(m, p)
    BY DEF Results
  <2> QED
    BY <2>1, <2>2, <2>3, ParentIsUnique
<1> QED
  BY <1>2, <1>3

LEMMA MandatoryType ==
    ASSUME NEW m \in Seq(Messages), m # <<>>
    PROVE  Len(m) \in DOMAIN m /\ Mandatory(m) \subseteq DOMAIN m
<1>1. Len(m) \in DOMAIN m
  OBVIOUS
<1> QED
  BY <1>1, PartnerFacts DEF Mandatory

LEMMA PairSizeType ==
    ASSUME NEW m \in Seq(Messages), NEW i \in DOMAIN m, NEW K
    PROVE  PairSize(m, i, K) \in Int
<1>1. \A j \in DOMAIN m : m[j].size \in Int
  <2>1. \A j \in DOMAIN m : m[j] \in Messages
    OBVIOUS
  <2>2. \A x \in Messages : x.size \in Int
    BY DEF Messages
  <2> QED
    BY <2>1, <2>2
<1>2. CASE Partner(m, i) \subseteq K
  BY <1>1, <1>2 DEF PairSize
<1>3. CASE ~(Partner(m, i) \subseteq K)
  <2>1. (CHOOSE p \in Partner(m, i) : p \notin K) \in DOMAIN m
    BY <1>3, PartnerFacts
  <2> QED
    BY <1>1, <1>3, <2>1 DEF PairSize
<1> QED
  BY <1>2, <1>3

LEMMA PartnerIsUnique ==
    ASSUME NEW m \in Seq(Messages), NEW i \in DOMAIN m,
           NEW p \in Partner(m, i), NEW q \in Partner(m, i)
    PROVE  p = q /\ p # i
<1>1. CASE m[i].role = "tool"
  <2>1. p \in Parent(m, i) /\ q \in Parent(m, i)
    BY <1>1 DEF Partner
  <2>2. p \in 1..(i - 1)
    BY <2>1 DEF Parent
  <2> QED
    BY <2>1, <2>2, ParentIsUnique
<1>2. CASE m[i].role # "tool"
  <2>1. p \in Results(m, i) /\ q \in Results(m, i) /\ p <= q /\ q <= p
    BY <1>2 DEF Partner
  <2>2. p \in DOMAIN m /\ q \in DOMAIN m /\ i \in 1..(p - 1)
    BY <2>1 DEF Results, Parent
  <2> QED
    BY <2>1, <2>2
<1> QED
  BY <1>1, <1>2

LEMMA SizeFacts ==
    ASSUME NEW m \in Seq(Messages)
    PROVE  /\ SizeOf(m, {}) = 0
           /\ \A S \in SUBSET DOMAIN m : SizeOf(m, S) \in Int
           /\ \A S \in SUBSET DOMAIN m, x \in DOMAIN m : x \notin S =>
                 SizeOf(m, S \cup {x}) = m[x].size + SizeOf(m, S)
           /\ \A x \in DOMAIN m : m[x].size \in Int
<1> DEFINE f == [i \in DOMAIN m |-> m[i].size]
<1>1. \A x \in DOMAIN m : m[x].size \in Int
  <2>1. \A j \in DOMAIN m : m[j] \in Messages
    OBVIOUS
  <2>2. \A x \in Messages : x.size \in Int
    BY DEF Messages
  <2> QED
    BY <2>1, <2>2
<1>2. \A x \in DOMAIN m : f[x] = m[x].size /\ f[x] \in Int
  BY <1>1
<1>3. IsFiniteSet(DOMAIN m)
  <2>1. DOMAIN m = 1..Len(m) /\ Len(m) \in Int
    OBVIOUS
  <2> QED
    BY <2>1, FS_Interval
<1>4. \A S : SizeOf(m, S) = SumFunctionOnSet(f, S)
  BY DEF SizeOf
<1> HIDE DEF f
<1>5. /\ SumFunctionOnSet(f, {}) = 0
      /\ \A S \in SUBSET DOMAIN m : SumFunctionOnSet(f, S) \in Int
      /\ \A S \in SUBSET DOMAIN m, x \in DOMAIN m : x \notin S =>
            SumFunctionOnSet(f, S \cup {x}) = f[x] + SumFunctionOnSet(f, S)
  BY <1>2, <1>3, SumFacts
<1> QED
  BY <1>1, <1>2, <1>4, <1>5

\* A message that comes with its partner brings as many tokens as PairSize says.
LEMMA PairIsCounted ==
    ASSUME NEW m \in Seq(Messages), NEW i \in DOMAIN m, NEW K \in SUBSET DOMAIN m, i \notin K
    PROVE  SizeOf(m, K \cup {i} \cup Partner(m, i)) = SizeOf(m, K) + PairSize(m, i, K)
<1>1. /\ SizeOf(m, K) \in Int /\ m[i].size \in Int
      /\ SizeOf(m, K \cup {i}) = m[i].size + SizeOf(m, K)
  BY SizeFacts
<1>2. CASE Partner(m, i) \subseteq K
  <2>1. K \cup {i} \cup Partner(m, i) = K \cup {i}
    BY <1>2
  <2>2. PairSize(m, i, K) = m[i].size
    BY <1>1, <1>2 DEF PairSize
  <2>3. SizeOf(m, K \cup {i} \cup Partner(m, i)) = SizeOf(m, K \cup {i})
    BY <2>1
  <2> QED
    BY <1>1, <2>2, <2>3
<1>3. CASE ~(Partner(m, i) \subseteq K)
  <2> DEFINE p == CHOOSE p \in Partner(m, i) : p \notin K
  <2>1. p \in Partner(m, i) /\ p \notin K
    BY <1>3
  <2>2. PairSize(m, i, K) = m[i].size + m[p].size
    BY <1>3 DEF PairSize
  <2> HIDE DEF p
  <2>3. p # i /\ p \in DOMAIN m /\ Partner(m, i) = {p}
    BY <2>1, PartnerIsUnique, PartnerFacts
  <2>4. SizeOf(m, (K \cup {i}) \cup {p}) = m[p].size + SizeOf(m, K \cup {i})
    <3>1. K \cup {i} \in SUBSET DOMAIN m /\ p \notin K \cup {i}
      BY <2>1, <2>3
    <3> QED
      BY <2>3, <3>1, SizeFacts
  <2>5. m[p].size \in Int
    BY <2>3, SizeFacts
  <2> QED
    BY <1>1, <2>2, <2>3, <2>4, <2>5
<1> QED
  BY <1>2, <1>3

-----------------------------------------------------------------------------
(* The selection.                                                          *)

\* What must stay is kept from the start, and whatever is not kept has not been
\* visited: the walk only ends, it never passes a message by.
Walk ==
    stage # "idle" =>
        /\ msgs # <<>>
        /\ Mandatory(msgs) \subseteq kept
        /\ todo \cap Mandatory(msgs) = {}
        /\ DOMAIN msgs \ kept \subseteq todo

Clean == stage = "idle" => msgs = <<>> /\ kept = {}

SelectionInv ==
    TypeOK /\ Clean /\ Walk /\ ResultsKeepTheirCall /\ KeptFits /\ ValueThreshold

LEMMA InitSelection == Init => SelectionInv
<1> SUFFICES ASSUME Init PROVE SelectionInv
  OBVIOUS
<1>1. <<>> \in Seq(Messages) /\ DOMAIN <<>> = {}
  OBVIOUS
<1>2. TypeOK /\ Clean /\ Walk /\ ResultsKeepTheirCall /\ ValueThreshold
  BY <1>1 DEF Init, TypeOK, Clean, Walk, ResultsKeepTheirCall, ValueThreshold
<1>3. KeptFits
  <2>1. SizeOf(<<>>, {}) = 0
    BY <1>1, SizeFacts
  <2>2. msgs = <<>> /\ kept = {} /\ keptTokens = 0
    BY DEF Init
  <2>3. ~(0 > Budget)
    BY CompactionAssumption
  <2> QED
    BY <2>1, <2>2, <2>3 DEF KeptFits
<1> QED
  BY <1>2, <1>3 DEF SelectionInv

LEMMA LeaveSelection == Leave => SelectionInv'
<1> SUFFICES ASSUME Leave PROVE SelectionInv'
  OBVIOUS
<1>1. <<>> \in Seq(Messages) /\ DOMAIN <<>> = {}
  OBVIOUS
<1>2. TypeOK' /\ Clean' /\ Walk' /\ ResultsKeepTheirCall' /\ ValueThreshold'
  BY <1>1 DEF Leave, TypeOK, Clean, Walk, ResultsKeepTheirCall, ValueThreshold
<1>3. KeptFits'
  <2>1. SizeOf(<<>>, {}) = 0
    BY <1>1, SizeFacts
  <2>2. msgs' = <<>> /\ kept' = {} /\ keptTokens' = 0
    BY DEF Leave
  <2>3. ~(0 > Budget)
    BY CompactionAssumption
  <2> QED
    BY <2>1, <2>2, <2>3 DEF KeptFits
<1> QED
  BY <1>2, <1>3 DEF SelectionInv

\* The newest message and its partner have no call to keep but each other.
LEMMA SelectSelection ==
    ASSUME NEW m, Select(m) PROVE SelectionInv'
<1>1. m \in Seq(Messages) /\ m # <<>> /\ msgs' = m
  BY DEF Select
<1>2. /\ kept' = Mandatory(m) /\ todo' = DOMAIN m \ Mandatory(m)
      /\ stage' = "filling" /\ keptTokens' = PairSize(m, Len(m), {})
      /\ score' \in [DOMAIN m \ Mandatory(m) -> Scores]
  BY DEF Select
<1>3. Len(m) \in DOMAIN m /\ Mandatory(m) \subseteq DOMAIN m
  BY <1>1, MandatoryType
<1>4. TypeOK'
  BY <1>1, <1>2, <1>3, PairSizeType DEF TypeOK
<1>5. Clean' /\ Walk'
  BY <1>1, <1>2 DEF Clean, Walk
<1>6. ResultsKeepTheirCall'
  <2>1. Parent(m, Len(m)) \subseteq Partner(m, Len(m))
    BY <1>1, <1>3, PartnerFacts
  <2>2. \A p \in Partner(m, Len(m)) : Parent(m, p) \subseteq {Len(m)}
    BY <1>1, <1>3, PartnerFacts
  <2> QED
    BY <1>1, <1>2, <2>1, <2>2 DEF ResultsKeepTheirCall, Mandatory
<1>7. KeptFits'
  <2>1. SizeOf(m, {} \cup {Len(m)} \cup Partner(m, Len(m))) = SizeOf(m, {}) + PairSize(m, Len(m), {})
    BY <1>1, <1>3, PairIsCounted
  <2>2. SizeOf(m, Mandatory(m)) = PairSize(m, Len(m), {})
    <3>1. Mandatory(m) = {} \cup {Len(m)} \cup Partner(m, Len(m))
      BY DEF Mandatory
    <3>2. SizeOf(m, {}) = 0 /\ PairSize(m, Len(m), {}) \in Int
      BY <1>1, <1>3, SizeFacts, PairSizeType
    <3> QED
      BY <2>1, <3>1, <3>2
  <2> QED
    BY <1>1, <1>2, <2>2 DEF KeptFits
<1>8. ValueThreshold'
  BY <1>1, <1>2 DEF ValueThreshold
<1> QED
  BY <1>4, <1>5, <1>6, <1>7, <1>8 DEF SelectionInv

LEMMA VisitSelection ==
    ASSUME SelectionInv, NEW i \in todo, Visit(i) PROVE SelectionInv'
<1> USE DEF SelectionInv
<1>1. /\ stage = "filling" /\ stage' = "filling" /\ msgs' = msgs /\ score' = score
      /\ todo' = todo \ {i}
  BY DEF Visit
<1>2. msgs \in Seq(Messages) /\ i \in DOMAIN msgs /\ msgs # <<>>
  BY <1>1 DEF TypeOK, Walk
<1>3. CASE i \in kept /\ UNCHANGED <<kept, keptTokens>>
  <2>1. TypeOK'
    BY <1>1, <1>3 DEF TypeOK
  <2>2. Clean' /\ Walk' /\ ResultsKeepTheirCall' /\ KeptFits'
    BY <1>1, <1>3 DEF Clean, Walk, ResultsKeepTheirCall, KeptFits
  <2>3. ValueThreshold'
    BY <1>1, <1>3 DEF ValueThreshold, Before
  <2> QED
    BY <2>1, <2>2, <2>3
<1>4. CASE /\ i \notin kept /\ keptTokens + Cost(i) <= Budget
           /\ kept' = kept \cup Added(i) /\ keptTokens' = keptTokens + Cost(i)
  <2>1. Partner(msgs, i) \subseteq DOMAIN msgs
    BY <1>2, PartnerFacts
  <2>2. kept' = kept \cup {i} \cup Partner(msgs, i)
    BY <1>4 DEF Added
  <2>3. Cost(i) \in Int
    BY <1>2, PairSizeType DEF Cost
  <2>4. TypeOK'
    BY <1>1, <1>2, <1>4, <2>1, <2>2, <2>3 DEF TypeOK
  <2>5. Clean' /\ Walk'
    BY <1>1, <2>2 DEF Clean, Walk
  <2>6. ResultsKeepTheirCall'
    <3>1. Parent(msgs, i) \subseteq Partner(msgs, i)
      BY <1>2, PartnerFacts
    <3>2. \A p \in Partner(msgs, i) : Parent(msgs, p) \subseteq {i}
      BY <1>2, PartnerFacts
    <3> QED
      BY <1>1, <2>2, <3>1, <3>2 DEF ResultsKeepTheirCall
  <2>7. KeptFits'
    <3>1. keptTokens' \in Int /\ keptTokens' <= Budget
      BY <1>4, <2>4 DEF TypeOK
    <3>2. keptTokens' = SizeOf(msgs, kept')
      <4>1. SizeOf(msgs, kept \cup {i} \cup Partner(msgs, i)) = SizeOf(msgs, kept) + Cost(i)
        BY <1>2, <1>4, PairIsCounted DEF TypeOK, Cost
      <4> QED
        BY <1>4, <2>2, <4>1 DEF KeptFits
    <3> QED
      BY <1>1, <3>1, <3>2, CompactionAssumption DEF KeptFits
  <2>8. ValueThreshold'
    <3> SUFFICES ASSUME NEW k \in kept' \ Mandatory(msgs), NEW j \in DOMAIN msgs \ kept'
                 PROVE  \/ Before(k, j)
                        \/ \E l \in kept' \ Mandatory(msgs) :
                              k \in Partner(msgs, l) /\ Before(l, j)
      BY <1>1 DEF ValueThreshold, Before
    <3>1. CASE k \in kept
      BY <1>1, <2>2, <3>1 DEF ValueThreshold
    <3>2. Before(i, j)
      <4>1. j \in todo \ {i}
        BY <1>1, <2>2 DEF Walk
      <4> QED
        BY <4>1 DEF Visit, Best
    <3>3. i \in kept' \ Mandatory(msgs)
      BY <1>1, <2>2 DEF Walk
    <3> QED
      BY <2>2, <3>1, <3>2, <3>3
  <2> QED
    BY <2>4, <2>5, <2>6, <2>7, <2>8
<1> QED
  BY <1>3, <1>4 DEF Visit

LEMMA StopSelection ==
    ASSUME SelectionInv, Stop PROVE SelectionInv'
<1> USE DEF SelectionInv, Stop
<1>1. TypeOK'
  BY DEF TypeOK
<1>2. Clean' /\ Walk' /\ ResultsKeepTheirCall' /\ KeptFits'
  BY DEF Clean, Walk, ResultsKeepTheirCall, KeptFits
<1>3. ValueThreshold'
  BY DEF ValueThreshold, Before
<1> QED
  BY <1>1, <1>2, <1>3

LEMMA StutterSelection ==
    ASSUME SelectionInv, UNCHANGED selection PROVE SelectionInv'
BY DEF selection, SelectionInv, TypeOK, Clean, Walk, ResultsKeepTheirCall, KeptFits,
       ValueThreshold, Before

LEMMA NextSelection == SelectionInv /\ [Next]_selection => SelectionInv'
BY LeaveSelection, SelectSelection, VisitSelection, StopSelection, StutterSelection
   DEF Next, Fill

THEOREM SelectionCorrect == Spec => []SelectionInv
<1> QED
  BY InitSelection, NextSelection, PTL DEF Spec

-----------------------------------------------------------------------------
(* The agent uses the selection as it is meant to be used.                 *)

LEMMA SelectIsNext ==
    ASSUME NEW m, Select(m) PROVE Next
<1>1. msgs' = m
  BY DEF Select
<1>2. Select(msgs')
  BY <1>1
<1> QED
  BY <1>2 DEF Next

LEMMA AgentStepSelects == [AgentNext]_vars => [Next]_selection
<1> SUFFICES ASSUME [AgentNext]_vars PROVE [Next]_selection
  OBVIOUS
<1>u. CASE UNCHANGED vars
  BY <1>u DEF vars
<1>1. CASE Hear \/ LoadFails
  BY <1>1 DEF Hear, LoadFails
<1>2. CASE Load
  BY <1>2, SelectIsNext DEF Load
<1>3. CASE View \/ Compact \/ Restart
  BY <1>3 DEF View, Compact, Restart, Next
<1>4. CASE ModelLoop
  BY <1>4 DEF ModelLoop, CallTools, RunTool, Reply, ReplyEmpty, Fail, FailDeep, keptVars
<1>5. CASE Persist
  BY <1>5, SelectIsNext DEF Persist
<1>6. CASE Insert
  BY <1>6 DEF Insert
<1>7. CASE Fill
  BY <1>7 DEF Next
<1> QED
  BY <1>u, <1>1, <1>2, <1>3, <1>4, <1>5, <1>6, <1>7 DEF AgentNext

\* Whatever the agent does, the messages it keeps are chosen by the selection alone:
\* the agent implements it (select_by_importance as trim_to_token_budget calls it).
THEOREM AgentImplementsSelection == AgentSpec => Spec
<1>1. AgentInit => Init
  BY DEF AgentInit
<1> QED
  BY <1>1, AgentStepSelects, PTL DEF AgentSpec, Spec

\* No history, scores or budget make the selection keep a tool result without the
\* assistant message that called the tool.
THEOREM NoOrphanIsKept == AgentSpec => []ResultsKeepTheirCall
<1>1. SelectionInv => ResultsKeepTheirCall
  BY DEF SelectionInv
<1> QED
  BY <1>1, AgentImplementsSelection, SelectionCorrect, PTL

\* Only what must be kept can be over the budget (the fill loop of
\* select_by_importance).
THEOREM BudgetIsKept == AgentSpec => []KeptFits
<1>1. SelectionInv => KeptFits
  BY DEF SelectionInv
<1> QED
  BY <1>1, AgentImplementsSelection, SelectionCorrect, PTL

\* The kept messages form a value threshold, as the comment on the fill loop says:
\* none is dropped that is worth more than one kept on its merits.
THEOREM ThresholdHolds == AgentSpec => []ValueThreshold
<1>1. SelectionInv => ValueThreshold
  BY DEF SelectionInv
<1> QED
  BY <1>1, AgentImplementsSelection, SelectionCorrect, PTL

-----------------------------------------------------------------------------
(* Which pairs stay whole.                                                 *)

\* A kept assistant message keeps one of the results of its calls, if it has any.
OneResultStays ==
    \A a \in kept : Results(msgs, a) # {} => Results(msgs, a) \cap kept # {}

\* No assistant message has more than one result.
SinglePairs ==
    \A a \in DOMAIN msgs : \A i, j \in Results(msgs, a) : i = j

\* A message and its partner bring a result of every call they bring.
LEMMA PairBringsResult ==
    ASSUME NEW m \in Seq(Messages), NEW i \in DOMAIN m,
           NEW a \in {i} \cup Partner(m, i), Results(m, a) # {}
    PROVE  Results(m, a) \cap ({i} \cup Partner(m, i)) # {}
<1>1. PICK r \in DOMAIN m : a \in Parent(m, r)
  BY DEF Results
<1>2. m[a].role = "assistant"
  BY <1>1 DEF Parent, IssuesCalls
<1>3. CASE m[i].role = "tool"
  <2>1. a \in Parent(m, i)
    BY <1>2, <1>3 DEF Partner
  <2> QED
    BY <2>1 DEF Results
<1>4. CASE m[i].role # "tool"
  <2>1. a = i
    <3> SUFFICES ASSUME a # i PROVE FALSE
      OBVIOUS
    <3>1. i \in Parent(m, a)
      BY <1>4 DEF Partner, Results
    <3>2. m[a].role = "tool"
      BY <3>1 DEF Parent
    <3> QED
      BY <1>2, <3>2
  <2>2. Results(m, i) \subseteq Nat /\ Results(m, i) # {}
    BY <2>1 DEF Results
  <2>3. PICK r0 \in Results(m, i) : \A s \in Results(m, i) : r0 <= s
    BY <2>2, LeastNat
  <2>4. r0 \in Partner(m, i)
    BY <1>4, <2>3 DEF Partner
  <2> QED
    BY <2>1, <2>3, <2>4
<1> QED
  BY <1>3, <1>4

LEMMA NextOneResult ==
    SelectionInv /\ OneResultStays /\ [Next]_selection => OneResultStays'
<1> SUFFICES ASSUME SelectionInv, OneResultStays, [Next]_selection PROVE OneResultStays'
  OBVIOUS
<1>u. CASE UNCHANGED <<msgs, kept>>
  BY <1>u DEF OneResultStays
<1>1. ASSUME NEW m, Select(m) PROVE OneResultStays'
  <2>1. m \in Seq(Messages) /\ m # <<>> /\ msgs' = m /\ kept' = Mandatory(m)
    BY <1>1 DEF Select
  <2>2. Len(m) \in DOMAIN m /\ Mandatory(m) = {Len(m)} \cup Partner(m, Len(m))
    BY <2>1, MandatoryType DEF Mandatory
  <2> QED
    BY <2>1, <2>2, PairBringsResult DEF OneResultStays
<1>2. ASSUME NEW i \in todo, Visit(i) PROVE OneResultStays'
  <2>1. CASE UNCHANGED kept
    BY <1>2, <1>u, <2>1 DEF Visit
  <2>2. CASE kept' = kept \cup Added(i)
    <3>1. msgs' = msgs /\ kept' = kept \cup ({i} \cup Partner(msgs, i))
      BY <1>2, <2>2 DEF Visit, Added
    <3>2. msgs \in Seq(Messages) /\ i \in DOMAIN msgs
      BY DEF SelectionInv, TypeOK
    <3>3. ASSUME NEW a \in {i} \cup Partner(msgs, i), Results(msgs, a) # {}
          PROVE  Results(msgs, a) \cap ({i} \cup Partner(msgs, i)) # {}
      BY <3>2, <3>3, PairBringsResult
    <3> QED
      BY <3>1, <3>3 DEF OneResultStays
  <2> QED
    BY <1>2, <2>1, <2>2 DEF Visit
<1>3. CASE Leave
  BY <1>3 DEF Leave, OneResultStays
<1>4. CASE Stop
  BY <1>4, <1>u DEF Stop
<1>5. CASE UNCHANGED selection
  BY <1>5, <1>u DEF selection
<1> QED
  BY <1>1, <1>2, <1>3, <1>4, <1>5 DEF Next, Fill

\* However the walk goes, an assistant message whose calls were answered does not stay
\* without any of the results (the partner that select_by_importance adds with it).
THEOREM CallKeepsAResult == AgentSpec => []OneResultStays
<1>1. Init => OneResultStays
  BY DEF Init, OneResultStays
<1> QED
  BY <1>1, NextOneResult, AgentImplementsSelection, SelectionCorrect, PTL DEF Spec

\* What select_by_importance says of pairs holds of those it was written for: where
\* every assistant message has at most one result, no pair is ever split.
THEOREM SinglePairsStayWhole == AgentSpec => [](SinglePairs => PairsStayWhole)
<1>1. SelectionInv /\ OneResultStays => (SinglePairs => PairsStayWhole)
  <2> SUFFICES ASSUME SelectionInv, OneResultStays, SinglePairs,
                      NEW a \in kept, NEW i \in Results(msgs, a)
               PROVE  i \in kept
    BY DEF PairsStayWhole
  <2>1. PICK j \in Results(msgs, a) : j \in kept
    BY DEF OneResultStays
  <2>2. a \in DOMAIN msgs
    BY DEF SelectionInv, TypeOK
  <2> QED
    BY <2>1, <2>2 DEF SinglePairs
<1> QED
  BY <1>1, CallKeepsAResult, AgentImplementsSelection, SelectionCorrect, PTL

-----------------------------------------------------------------------------
(* The model and tool loop.                                                *)

\* Every call that message a of f makes has its result right behind it.
AnsweredAt(f, a) ==
    IssuesCalls(f, a) =>
        \A k \in 1..f[a].calls : a + k \in DOMAIN f /\ f[a + k] = ToolResult(k)

WellAnswered(f) == \A a \in DOMAIN f : AnsweredAt(f, a)

\* Message a is the one whose tools are being run.
Pending(f, a) ==
    /\ IssuesCalls(f, a) /\ f[a].calls \in 1..MaxCalls
    /\ Len(f) - a < f[a].calls
    /\ \A b \in DOMAIN f : b > a => f[b] = ToolResult(b - a)
    /\ \A b \in DOMAIN f : b < a => AnsweredAt(f, b)

LoopInv ==
    /\ fresh \in Seq(Messages) /\ standard \in Seq(Messages)
    /\ pc \in {"load", "viewing", "model", "tools"} => fresh # <<>> /\ fresh[1] = User
    /\ pc \in {"load", "viewing", "model", "persist"} => WellAnswered(fresh)
    /\ pc \in {"load", "viewing", "model"} => fresh[Len(fresh)] # Answer
    /\ pc = "tools" => \E a \in DOMAIN fresh : Pending(fresh, a)
    /\ standard # <<>> =>
          /\ WellAnswered(standard) /\ standard[Len(standard)] = Answer
    /\ pc = "persist" => fresh # <<>> /\ (reply = "text" <=> fresh[Len(fresh)] = Answer)

LEMMA MessageFacts ==
    /\ User \in Messages /\ Answer \in Messages /\ User # Answer
    /\ \A n \in 1..MaxCalls : ToolCalls(n) \in Messages
    /\ \A k \in 1..MaxCalls : ToolResult(k) \in Messages
    /\ \A k : ToolResult(k) # Answer
BY TurnAssumption DEF User, Answer, ToolCalls, ToolResult, Messages

LEMMA AppendFacts ==
    ASSUME NEW f \in Seq(Messages), NEW x \in Messages
    PROVE  /\ Append(f, x) \in Seq(Messages)
           /\ Len(Append(f, x)) = Len(f) + 1
           /\ DOMAIN Append(f, x) = DOMAIN f \cup {Len(f) + 1}
           /\ \A i \in DOMAIN f : Append(f, x)[i] = f[i]
           /\ Append(f, x)[Len(f) + 1] = x
           /\ Append(f, x) # <<>>
           /\ DOMAIN f = 1..Len(f) /\ Len(f) \in Nat
OBVIOUS

\* Messages that are added behind answered calls leave them answered.
LEMMA AnsweredStays ==
    ASSUME NEW f \in Seq(Messages), NEW x \in Messages, NEW a \in DOMAIN f, AnsweredAt(f, a)
    PROVE  AnsweredAt(Append(f, x), a)
BY AppendFacts DEF AnsweredAt, IssuesCalls

LEMMA AppendAnswered ==
    ASSUME NEW f \in Seq(Messages), NEW x \in Messages, WellAnswered(f),
           x.role # "assistant" \/ x.calls = 0
    PROVE  WellAnswered(Append(f, x))
<1>1. AnsweredAt(Append(f, x), Len(f) + 1)
  BY AppendFacts DEF AnsweredAt, IssuesCalls
<1>2. \A a \in DOMAIN f : AnsweredAt(Append(f, x), a)
  BY AnsweredStays DEF WellAnswered
<1> QED
  BY <1>1, <1>2, AppendFacts DEF WellAnswered

LEMMA UserAlone == <<User>> \in Seq(Messages) /\ WellAnswered(<<User>>)
<1>1. <<User>> \in Seq(Messages) /\ DOMAIN <<User>> = {1} /\ <<User>>[1] = User
  BY MessageFacts
<1> QED
  BY <1>1 DEF WellAnswered, AnsweredAt, IssuesCalls, User

\* While tools are run there is one pending message, the last with calls.
LEMMA CallerIsPending ==
    ASSUME NEW a \in DOMAIN fresh, fresh \in Seq(Messages), Pending(fresh, a)
    PROVE  Caller = a
<1> DEFINE S == {b \in DOMAIN fresh : IssuesCalls(fresh, b)}
<1>1. a \in S /\ S \subseteq Int
  BY DEF Pending
<1>2. \A b \in S : b <= a
  BY DEF Pending, IssuesCalls, ToolResult
<1>3. Max(S) = a
  BY <1>1, <1>2 DEF Max
<1> QED
  BY <1>3 DEF Caller

LEMMA EndPassLoop ==
    ASSUME NEW m \in Seq(Messages), NEW r, LoopInv, EndPass(m, r),
           m # <<>>, m[1] = User, WellAnswered(m), r = "text" <=> m[Len(m)] = Answer
    PROVE  LoopInv'
<1>1. CASE /\ fresh' = m /\ reply' = r /\ standard' = <<>> /\ pc' = "persist"
  BY <1>1 DEF LoopInv
<1>2. CASE /\ r = "text" /\ standard = <<>> /\ standard' = m
           /\ fresh' = <<Head(m)>> /\ pc' = "model"
  <2>1. fresh' = <<User>>
    BY <1>2
  <2>2. fresh'[1] = User /\ fresh'[Len(fresh')] = User /\ fresh' # <<>>
    BY <2>1
  <2> QED
    BY <1>2, <2>1, <2>2, UserAlone, MessageFacts DEF LoopInv
<1> QED
  BY <1>1, <1>2 DEF EndPass

LEMMA CallToolsLoop ==
    ASSUME LoopInv, NEW n \in 1..MaxCalls, CallTools(n) PROVE LoopInv'
<1> DEFINE a == Len(fresh) + 1
<1>1. fresh \in Seq(Messages) /\ fresh # <<>> /\ fresh[1] = User /\ WellAnswered(fresh)
  BY DEF LoopInv, CallTools
<1>2. /\ ToolCalls(n) \in Messages /\ ToolCalls(n).role = "assistant"
      /\ ToolCalls(n).calls = n
  BY MessageFacts DEF ToolCalls
<1>3. fresh' = Append(fresh, ToolCalls(n)) /\ pc' = "tools" /\ standard' = standard
  BY DEF CallTools
<1>4. fresh' \in Seq(Messages) /\ fresh' # <<>> /\ fresh'[1] = User
  BY <1>1, <1>2, <1>3, AppendFacts
<1>5. a \in DOMAIN fresh' /\ Pending(fresh', a)
  <2>1. \A b \in DOMAIN fresh : AnsweredAt(fresh', b)
    BY <1>1, <1>2, <1>3, AnsweredStays DEF WellAnswered
  <2> QED
    BY <1>1, <1>2, <1>3, <2>1, AppendFacts DEF Pending, IssuesCalls
<1> QED
  BY <1>3, <1>4, <1>5 DEF LoopInv

LEMMA RunToolLoop == ASSUME LoopInv, RunTool PROVE LoopInv'
<1>1. PICK a \in DOMAIN fresh : Pending(fresh, a)
  BY DEF LoopInv, RunTool
<1>2. fresh \in Seq(Messages) /\ fresh # <<>> /\ fresh[1] = User
  BY DEF LoopInv, RunTool
<1>3. Caller = a
  BY <1>1, <1>2, CallerIsPending
<1> DEFINE k == Answered + 1
           results == Append(fresh, ToolResult(k))
<1>4. k = Len(fresh) - a + 1 /\ k \in 1..fresh[a].calls /\ fresh[a].calls \in 1..MaxCalls
  BY <1>1, <1>2, <1>3 DEF Pending, Answered
<1> HIDE DEF k
<1>0. k \in 1..MaxCalls
  BY <1>4, TurnAssumption
<1>5. ToolResult(k) \in Messages /\ ToolResult(k) # Answer /\ ToolResult(k).role = "tool"
  BY <1>0, MessageFacts DEF ToolResult
<1>6. /\ results \in Seq(Messages) /\ results # <<>> /\ results[1] = User
      /\ results[Len(results)] = ToolResult(k)
  BY <1>2, <1>5, AppendFacts
<1>7. \A b \in DOMAIN results : b > a => results[b] = ToolResult(b - a)
  BY <1>1, <1>2, <1>4, <1>5, AppendFacts DEF Pending
<1>8. \A b \in DOMAIN results : b < a => AnsweredAt(results, b)
  BY <1>1, <1>2, <1>5, AnsweredStays, AppendFacts DEF Pending
<1>9. IssuesCalls(results, a) /\ results[a] = fresh[a] /\ a \in DOMAIN results
  BY <1>1, <1>2, <1>5, AppendFacts DEF Pending, IssuesCalls
<1>10. Len(results) - a = k
  <2>1. Len(results) = Len(fresh) + 1 /\ Len(fresh) \in Nat /\ a \in Int
    BY <1>2, <1>5, AppendFacts
  <2> QED
    BY <1>4, <2>1
<1>11. CASE /\ k < fresh[a].calls /\ fresh' = results
            /\ UNCHANGED <<pc, round, reply, standard>>
  <2>1. Pending(results, a)
    BY <1>4, <1>7, <1>8, <1>9, <1>10, <1>11 DEF Pending
  <2>2. pc' = "tools" /\ standard' = standard
    BY <1>11 DEF RunTool
  <2> QED
    BY <1>6, <1>9, <1>11, <2>1, <2>2 DEF LoopInv
<1>12. ASSUME k >= fresh[a].calls
       PROVE  WellAnswered(results)
  <2>1. AnsweredAt(results, a)
    <3>1. ASSUME NEW j \in 1..fresh[a].calls
          PROVE  a + j \in DOMAIN results /\ a + j > a /\ (a + j) - a = j
      <4>1. a \in 1..Len(fresh) /\ Len(fresh) \in Nat
        BY <1>2
      <4>2. DOMAIN results = 1..(Len(fresh) + 1)
        BY <1>2, <1>5, AppendFacts
      <4>3. j \in Nat /\ 1 <= j /\ j <= k /\ k = Len(fresh) + 1 - a
        BY <1>4, <1>12, <4>1
      <4> QED
        BY <4>1, <4>2, <4>3
    <3> QED
      BY <1>7, <1>9, <3>1 DEF AnsweredAt
  <2>2. \A b \in DOMAIN results : b > a => AnsweredAt(results, b)
    <3>1. \A j : ToolResult(j).role = "tool"
      BY DEF ToolResult
    <3> QED
      BY <1>7, <3>1 DEF AnsweredAt, IssuesCalls
  <2> QED
    BY <1>2, <1>8, <2>1, <2>2, AppendFacts DEF WellAnswered
<1>13. CASE /\ k >= fresh[a].calls /\ fresh' = results /\ pc' = "model"
            /\ UNCHANGED <<reply, standard>>
  BY <1>5, <1>6, <1>12, <1>13 DEF LoopInv
<1>14. CASE k >= fresh[a].calls /\ EndPass(results, "no response")
  BY <1>5, <1>6, <1>12, <1>14, EndPassLoop
<1>15. ~(k < fresh[a].calls) => k >= fresh[a].calls
  BY <1>4
<1> QED
  BY <1>3, <1>11, <1>13, <1>14, <1>15 DEF RunTool, k

LEMMA LoopStep == ASSUME LoopInv, [AgentNext]_vars PROVE LoopInv'
<1>u. CASE UNCHANGED vars
  BY <1>u DEF vars, turnVars, LoopInv
<1>1. CASE Hear
  <2>1. fresh' = <<User>> /\ standard' = <<>> /\ pc' = "load"
    BY <1>1 DEF Hear
  <2>2. fresh'[1] = User /\ fresh'[Len(fresh')] = User /\ fresh' # <<>>
    BY <2>1
  <2> QED
    BY <2>1, <2>2, UserAlone, MessageFacts DEF LoopInv
<1>2. CASE Load \/ LoadFails \/ View
  BY <1>2 DEF Load, LoadFails, View, LoopInv
<1>3. CASE \E n \in 1..MaxCalls : CallTools(n)
  BY <1>3, CallToolsLoop
<1>4. CASE RunTool
  BY <1>4, RunToolLoop
<1>5. CASE Reply
  <2> DEFINE m == Append(fresh, Answer)
  <2>1. fresh \in Seq(Messages) /\ fresh # <<>> /\ fresh[1] = User /\ WellAnswered(fresh)
    BY <1>5 DEF Reply, LoopInv
  <2>2. m \in Seq(Messages) /\ m # <<>> /\ m[1] = User /\ m[Len(m)] = Answer
    BY <2>1, MessageFacts, AppendFacts
  <2>3. WellAnswered(m)
    BY <2>1, MessageFacts, AppendAnswered DEF Answer
  <2> QED
    BY <1>5, <2>2, <2>3, EndPassLoop DEF Reply
<1>6. CASE ReplyEmpty
  BY <1>6, EndPassLoop DEF ReplyEmpty, LoopInv
<1>7. CASE Fail \/ Insert \/ Restart
  <2>1. fresh' = <<>> /\ pc' = "idle" /\ standard' = <<>>
    BY <1>7 DEF Fail, Insert, Restart
  <2>2. <<>> \in Seq(Messages)
    OBVIOUS
  <2> QED
    BY <2>1, <2>2 DEF LoopInv
<1>8. CASE FailDeep
  BY <1>8 DEF FailDeep, LoopInv
<1>9. CASE Persist \/ Compact
  BY <1>9 DEF Persist, Compact, turnVars, LoopInv
<1>10. CASE Fill /\ UNCHANGED <<store, cache, pc, turnVars, turns>>
  BY <1>10 DEF turnVars, LoopInv
<1> QED
  BY <1>u, <1>1, <1>2, <1>3, <1>4, <1>5, <1>6, <1>7, <1>8, <1>9, <1>10 DEF AgentNext, ModelLoop

\* In run_model_loop every tool call has its result before the model is called again
\* and before the turn is kept, and the kept turn ends with the reply that is sent,
\* for any number of rounds and calls.
THEOREM TurnsAreWhole == AgentSpec => []TurnIsWhole
<1>1. AgentInit => LoopInv
  BY DEF AgentInit, LoopInv
<1>2. LoopInv => TurnIsWhole
  BY DEF LoopInv, TurnIsWhole, WellAnswered, AnsweredAt, Last
<1> QED
  BY <1>1, <1>2, LoopStep, PTL DEF AgentSpec

-----------------------------------------------------------------------------
(* Prompts.  A history is sound when every tool result in it stands behind *)
(* its call.  The loop appends soundly, sound histories can be put behind  *)
(* each other, and a compaction drops no message that a kept result needs. *)

Sound(m) == \A i \in DOMAIN m : m[i].role = "tool" => AnswersItsCall(m, i)

Histories == {m \in Seq(Messages) : Sound(m)}

SoundInv ==
    /\ store \in Seq(Histories)
    /\ cache \in Histories /\ snapshot \in Histories
    /\ fresh \in Histories /\ standard \in Histories
    /\ msgs \in Histories

ControlInv ==
    /\ pc \in {"idle", "load", "viewing", "model", "tools", "persist", "compacting", "insert"}
    /\ round \in 0..(MaxRounds - 1) /\ turns \in 0..MaxTurns
    /\ reply \in {"none", "text", "empty", "no response"}

LEMMA EmptyHistory == <<>> \in Histories
<1>1. <<>> \in Seq(Messages) /\ DOMAIN <<>> = {}
  OBVIOUS
<1> QED
  BY <1>1 DEF Histories, Sound

LEMMA ConcatSound ==
    ASSUME NEW a \in Histories, NEW b \in Histories PROVE a \o b \in Histories
<1> DEFINE c == a \o b
<1>1. a \in Seq(Messages) /\ b \in Seq(Messages) /\ Sound(a) /\ Sound(b)
  BY DEF Histories
<1>2. /\ c \in Seq(Messages) /\ Len(a) \in Nat /\ Len(b) \in Nat
      /\ DOMAIN c = 1..(Len(a) + Len(b)) /\ DOMAIN a = 1..Len(a) /\ DOMAIN b = 1..Len(b)
  BY <1>1
<1>3. /\ \A i \in 1..Len(a) : c[i] = a[i]
      /\ \A i \in 1..Len(b) : c[Len(a) + i] = b[i]
  BY <1>1
<1> HIDE DEF c
<1>4. ASSUME NEW i \in DOMAIN c, c[i].role = "tool" PROVE AnswersItsCall(c, i)
  <2>1. CASE i \in 1..Len(a)
    <3>1. PICK p \in 1..(i - 1) :
            /\ IssuesCalls(a, p) /\ a[i].call <= a[p].calls
            /\ \A k \in (p + 1)..(i - 1) : a[k].role = "tool" /\ a[k].call < a[i].call
      BY <1>1, <1>2, <1>3, <1>4, <2>1 DEF Sound, AnswersItsCall
    <3>2. p \in 1..Len(a) /\ c[p] = a[p] /\ c[i] = a[i]
      BY <1>2, <1>3, <2>1
    <3>3. \A k \in (p + 1)..(i - 1) : c[k] = a[k]
      BY <1>2, <1>3, <2>1
    <3>4. /\ IssuesCalls(c, p) /\ c[i].call <= c[p].calls
          /\ \A k \in (p + 1)..(i - 1) : c[k].role = "tool" /\ c[k].call < c[i].call
      BY <3>1, <3>2, <3>3 DEF IssuesCalls
    <3> QED
      BY <3>4 DEF AnswersItsCall
  <2>2. CASE i \notin 1..Len(a)
    <3> DEFINE n == i - Len(a)
    <3>0. n \in 1..Len(b) /\ i = Len(a) + n
      BY <1>2, <2>2
    <3> HIDE DEF n
    <3>1. PICK p \in 1..(n - 1) :
            /\ IssuesCalls(b, p) /\ b[n].call <= b[p].calls
            /\ \A k \in (p + 1)..(n - 1) : b[k].role = "tool" /\ b[k].call < b[n].call
      BY <1>1, <1>2, <1>3, <1>4, <3>0 DEF Sound, AnswersItsCall
    <3>2. /\ p \in 1..Len(b) /\ c[Len(a) + p] = b[p] /\ c[i] = b[n]
          /\ Len(a) + p \in 1..(i - 1)
      BY <1>2, <1>3, <3>0
    <3>3. ASSUME NEW k \in (Len(a) + p + 1)..(i - 1)
          PROVE  k - Len(a) \in (p + 1)..(n - 1) /\ c[k] = b[k - Len(a)]
      <4>1. k - Len(a) \in (p + 1)..(n - 1) /\ k - Len(a) \in 1..Len(b)
            /\ k = Len(a) + (k - Len(a))
        BY <1>2, <3>0
      <4> QED
        BY <1>3, <4>1
    <3>4. /\ IssuesCalls(c, Len(a) + p) /\ c[i].call <= c[Len(a) + p].calls
          /\ \A k \in (Len(a) + p + 1)..(i - 1) : c[k].role = "tool" /\ c[k].call < c[i].call
      BY <3>1, <3>2, <3>3 DEF IssuesCalls
    <3> QED
      BY <3>2, <3>4 DEF AnswersItsCall
  <2> QED
    BY <2>1, <2>2
<1> QED
  BY <1>2, <1>4 DEF Histories, Sound, c

\* An answered tool result, or any other message, keeps a history sound.
LEMMA AppendSound ==
    ASSUME NEW f \in Histories, NEW x \in Messages,
           x.role = "tool" =>
               \E a \in DOMAIN f :
                  /\ IssuesCalls(f, a) /\ x.call <= f[a].calls
                  /\ \A k \in (a + 1)..Len(f) : f[k].role = "tool" /\ f[k].call < x.call
    PROVE  Append(f, x) \in Histories
<1> DEFINE c == Append(f, x)
<1>1. f \in Seq(Messages) /\ Sound(f)
  BY DEF Histories
<1>2. /\ c \in Seq(Messages) /\ Len(f) \in Nat
      /\ DOMAIN c = 1..(Len(f) + 1) /\ DOMAIN f = 1..Len(f)
      /\ \A i \in 1..Len(f) : c[i] = f[i]
      /\ c[Len(f) + 1] = x
  BY <1>1, AppendFacts
<1> HIDE DEF c
<1>3. ASSUME NEW i \in DOMAIN c, c[i].role = "tool" PROVE AnswersItsCall(c, i)
  <2>1. CASE i \in 1..Len(f)
    <3>1. PICK p \in 1..(i - 1) :
            /\ IssuesCalls(f, p) /\ f[i].call <= f[p].calls
            /\ \A k \in (p + 1)..(i - 1) : f[k].role = "tool" /\ f[k].call < f[i].call
      BY <1>1, <1>2, <1>3, <2>1 DEF Sound, AnswersItsCall
    <3>2. \A k \in 1..i : c[k] = f[k]
      BY <1>2, <2>1
    <3>3. /\ IssuesCalls(c, p) /\ c[i].call <= c[p].calls
          /\ \A k \in (p + 1)..(i - 1) : c[k].role = "tool" /\ c[k].call < c[i].call
      BY <2>1, <3>1, <3>2 DEF IssuesCalls
    <3> QED
      BY <3>3 DEF AnswersItsCall
  <2>2. CASE i = Len(f) + 1
    <3>1. PICK p \in DOMAIN f :
            /\ IssuesCalls(f, p) /\ x.call <= f[p].calls
            /\ \A k \in (p + 1)..Len(f) : f[k].role = "tool" /\ f[k].call < x.call
      BY <1>2, <1>3, <2>2
    <3>2. p \in 1..(i - 1) /\ i - 1 = Len(f)
      BY <1>2, <2>2
    <3>3. /\ IssuesCalls(c, p) /\ c[i].call <= c[p].calls
          /\ \A k \in (p + 1)..(i - 1) : c[k].role = "tool" /\ c[k].call < c[i].call
      BY <1>2, <2>2, <3>1, <3>2 DEF IssuesCalls
    <3> QED
      BY <3>2, <3>3 DEF AnswersItsCall
  <2> QED
    BY <1>2, <2>1, <2>2
<1> QED
  BY <1>2, <1>3 DEF Histories, Sound, c

\* The positions that are kept, in their old order.
LEMMA KeptOrder ==
    ASSUME kept \subseteq DOMAIN msgs, msgs \in Seq(Messages)
    PROVE  /\ IsFiniteSet(kept) /\ kept \in SUBSET Int
           /\ Cardinality(kept) \in Nat
           /\ \A k \in 1..Cardinality(kept) : KeptAt(k) \in kept /\ Rank(kept, KeptAt(k)) = k
<1>1. kept \subseteq 1..Len(msgs) /\ Len(msgs) \in Nat
  OBVIOUS
<1>2. IsFiniteSet(kept) /\ kept \in SUBSET Int
  <2>1. IsFiniteSet(1..Len(msgs))
    BY <1>1, FS_Interval
  <2> QED
    BY <1>1, <2>1, FS_Subset
<1>3. ASSUME NEW k \in 1..Cardinality(kept)
      PROVE  KeptAt(k) \in kept /\ Rank(kept, KeptAt(k)) = k
  <2>1. \E i \in kept : Cardinality({j \in kept : j <= i}) = k
    BY <1>2, EveryRank DEF Rank
  <2> QED
    BY <2>1 DEF KeptAt, Rank
<1> QED
  BY <1>2, <1>3, FS_CardinalityType

\* The result of a call is kept only with its assistant message, which was before it
\* with nothing but earlier results of the same message between them.
LEMMA CompactedSound ==
    ASSUME SelectionInv, msgs \in Histories PROVE Compacted \in Histories
<1>1. msgs \in Seq(Messages) /\ Sound(msgs) /\ kept \subseteq DOMAIN msgs
  BY DEF Histories, SelectionInv, TypeOK
<1>2. CASE kept = DOMAIN msgs
  BY <1>2 DEF Compacted
<1>3. CASE kept # DOMAIN msgs
  <2> DEFINE n == Cardinality(kept)
             s == [k \in 1..n |-> msgs[KeptAt(k)]]
  <2>1. /\ IsFiniteSet(kept) /\ kept \in SUBSET Int /\ n \in Nat
        /\ \A k \in 1..n : KeptAt(k) \in kept /\ Rank(kept, KeptAt(k)) = k
    BY <1>1, KeptOrder
  <2> HIDE DEF n
  <2>2. s \in Seq(Messages) /\ DOMAIN s = 1..n
    <3>1. \A k \in 1..n : msgs[KeptAt(k)] \in Messages
      BY <1>1, <2>1
    <3> QED
      BY <2>1, <3>1
  <2>3. \A k \in 1..n : s[k] = msgs[KeptAt(k)]
    OBVIOUS
  <2> HIDE DEF s
  <2>4. ASSUME NEW i \in 1..n, s[i].role = "tool" PROVE AnswersItsCall(s, i)
    <3> DEFINE x == KeptAt(i)
    <3>1. x \in kept /\ Rank(kept, x) = i /\ s[i] = msgs[x] /\ x \in DOMAIN msgs
      BY <1>1, <2>1, <2>3
    <3> HIDE DEF x
    <3>2. PICK a \in 1..(x - 1) :
            /\ IssuesCalls(msgs, a) /\ msgs[x].call <= msgs[a].calls
            /\ \A k \in (a + 1)..(x - 1) : msgs[k].role = "tool" /\ msgs[k].call < msgs[x].call
      BY <1>1, <2>4, <3>1 DEF Sound, AnswersItsCall
    <3>3. a \in kept
      <4>1. a \in Parent(msgs, x)
        BY <2>4, <3>1, <3>2 DEF Parent, IssuesCalls
      <4> QED
        BY <3>1, <4>1 DEF SelectionInv, ResultsKeepTheirCall
    <3>4. a \in Int /\ x \in Int /\ a < x
      BY <1>1, <2>1, <3>1, <3>2
    <3> DEFINE p == Rank(kept, a)
    <3>5. p \in 1..n /\ p \in 1..(i - 1)
      <4>1. p \in 1..n
        BY <2>1, <3>3, RankType DEF n
      <4>2. p < i
        BY <2>1, <3>1, <3>3, <3>4, RankGrows
      <4> QED
        BY <4>1, <4>2
    <3>6. KeptAt(p) = a
      <4>1. KeptAt(p) \in kept /\ Rank(kept, KeptAt(p)) = Rank(kept, a)
        BY <2>1, <3>5
      <4> QED
        BY <2>1, <3>3, <4>1, SameRank
    <3>7. s[p] = msgs[a]
      BY <2>3, <3>5, <3>6
    <3>8. ASSUME NEW k \in (p + 1)..(i - 1) PROVE KeptAt(k) \in (a + 1)..(x - 1)
      <4> HIDE DEF p
      <4>0. n \in Nat /\ p \in Int /\ i \in 1..n
        BY <2>1, <3>5
      <4>1. k \in 1..n /\ p < k /\ k < i
        BY <3>5, <4>0
      <4>2. KeptAt(k) \in kept /\ Rank(kept, KeptAt(k)) = k
        BY <2>1, <4>1
      <4>3. KeptAt(k) \in Int /\ p \in Int /\ k \in Int /\ i \in Int
        <5>1. KeptAt(k) \in Int
          BY <2>1, <4>2
        <5>2. k \in Int /\ i \in Int
          BY <4>0, <4>1
        <5> QED
          BY <4>0, <5>1, <5>2
      <4>4. ~(KeptAt(k) <= a)
        <5>1. CASE KeptAt(k) = a
          BY <4>1, <4>2, <4>3, <5>1 DEF p
        <5>2. CASE KeptAt(k) < a
          <6>1. k < p
            BY <2>1, <3>3, <4>2, <5>2, RankGrows DEF p
          <6> QED
            BY <4>1, <4>3, <6>1
        <5> QED
          BY <3>4, <4>3, <5>1, <5>2
      <4>5. ~(x <= KeptAt(k))
        <5>1. CASE KeptAt(k) = x
          BY <3>1, <4>1, <4>2, <4>3, <5>1
        <5>2. CASE x < KeptAt(k)
          <6>1. i < k
            BY <2>1, <3>1, <4>2, <5>2, RankGrows
          <6> QED
            BY <4>1, <4>3, <6>1
        <5> QED
          BY <3>4, <4>3, <5>1, <5>2
      <4> QED
        BY <3>4, <4>3, <4>4, <4>5
    <3>9. \A k \in (p + 1)..(i - 1) : s[k].role = "tool" /\ s[k].call < s[i].call
      <4> TAKE k \in (p + 1)..(i - 1)
      <4> HIDE DEF p
      <4>0. n \in Nat /\ p \in Int /\ i \in 1..n
        BY <2>1, <3>5
      <4>1. KeptAt(k) \in (a + 1)..(x - 1) /\ k \in 1..n
        BY <3>5, <3>8, <4>0
      <4>2. s[k] = msgs[KeptAt(k)]
        BY <2>3, <4>1
      <4> QED
        BY <3>1, <3>2, <4>1, <4>2
    <3> HIDE DEF p
    <3> QED
      BY <3>1, <3>2, <3>5, <3>7, <3>9 DEF AnswersItsCall, IssuesCalls
  <2>5. s \in Histories
    BY <2>2, <2>4 DEF Histories, Sound
  <2>6. <<Summary>> \in Histories
    <3>1. Summary \in Messages /\ Summary.role # "tool"
      BY TurnAssumption DEF Summary, Messages
    <3>2. <<Summary>> \in Seq(Messages) /\ DOMAIN <<Summary>> = {1} /\ <<Summary>>[1] = Summary
      BY <3>1
    <3> QED
      BY <3>1, <3>2 DEF Histories, Sound
  <2>7. Compacted = <<Summary>> \o s
    BY <1>3 DEF Compacted, n, s
  <2> QED
    BY <2>5, <2>6, <2>7, ConcatSound
<1> QED
  BY <1>2, <1>3

\* The last turns of the store, behind each other.
LEMMA LastTurnsSound ==
    ASSUME store \in Seq(Histories) PROVE FlattenSeq(LastTurns) \in Histories
<1> DEFINE x == Len(store) - HydrateLimit + 1
           b == Max({1, x})
<1>1. Len(store) \in Nat /\ x \in Int /\ x <= Len(store)
  BY TurnAssumption
<1>2. b \in Nat \ {0} /\ b <= Len(store) + 1
  <2> HIDE DEF x
  <2>1. \E y \in {1, x} : \A z \in {1, x} : y >= z
    BY <1>1
  <2>2. b \in {1, x} /\ b >= 1
    BY <2>1 DEF Max
  <2> HIDE DEF b
  <2> QED
    BY <1>1, <2>2
<1> HIDE DEF b
<1>3. LastTurns = SubSeq(store, b, Len(store))
  BY DEF LastTurns, b
<1>4. SubSeq(store, b, Len(store)) \in Seq(Histories)
  BY <1>1, <1>2
<1> QED
  BY <1>3, <1>4, EmptyHistory, ConcatSound, FlattenClosed

LEMMA BoundFacts ==
    /\ MaxTurns \in Nat /\ MaxRounds \in Nat \ {0}
    /\ 0 \in 0..(MaxRounds - 1) /\ 0 \in 0..MaxTurns
BY TurnAssumption

LEMMA RoundGrows ==
    ASSUME NEW n \in 0..(MaxRounds - 1), n + 1 < MaxRounds
    PROVE  n + 1 \in 0..(MaxRounds - 1)
BY BoundFacts

LEMMA TurnsGrow ==
    ASSUME NEW n \in 0..MaxTurns, n < MaxTurns PROVE n + 1 \in 0..MaxTurns
BY BoundFacts

LEMMA HeadSound ==
    ASSUME NEW m \in Seq(Messages), Sound(m), m # <<>>
    PROVE  <<Head(m)>> \in Histories
<1>1. Head(m) = m[1] /\ 1 \in DOMAIN m /\ m[1] \in Messages
  OBVIOUS
<1>2. 1..(1 - 1) = {}
  OBVIOUS
<1>3. m[1].role # "tool"
  BY <1>1, <1>2 DEF Sound, AnswersItsCall
<1>4. <<m[1]>> = Append(<<>>, m[1])
  BY <1>1
<1> QED
  BY <1>1, <1>3, <1>4, EmptyHistory, AppendSound

LEMMA EndPassPrompts ==
    ASSUME ControlInv, NEW m \in Histories, NEW r \in {"text", "empty", "no response"},
           m # <<>>, EndPass(m, r), standard \in Histories
    PROVE  /\ fresh' \in Histories /\ standard' \in Histories
           /\ round' \in 0..(MaxRounds - 1) /\ pc' \in {"persist", "model"}
           /\ reply' \in {"none", "text", "empty", "no response"}
<1>1. CASE /\ fresh' = m /\ reply' = r /\ standard' = <<>> /\ pc' = "persist"
           /\ UNCHANGED round
  BY <1>1, EmptyHistory DEF ControlInv
<1>2. CASE /\ standard' = m /\ fresh' = <<Head(m)>> /\ round' = 0 /\ pc' = "model"
           /\ UNCHANGED reply
  <2>1. m \in Seq(Messages) /\ Sound(m)
    BY DEF Histories
  <2>2. <<Head(m)>> \in Histories
    BY <2>1, HeadSound
  <2>3. fresh' \in Histories
    BY <1>2, <2>2
  <2> QED
    BY <1>2, <2>3, BoundFacts DEF ControlInv
<1> QED
  BY <1>1, <1>2 DEF EndPass

LEMMA RunToolPrompts ==
    ASSUME LoopInv, SoundInv, ControlInv, RunTool
    PROVE  SoundInv' /\ ControlInv'
<1>1. PICK a \in DOMAIN fresh : Pending(fresh, a)
  BY DEF LoopInv, RunTool
<1>2. fresh \in Seq(Messages) /\ fresh \in Histories
  BY DEF LoopInv, SoundInv
<1>3. Caller = a
  BY <1>1, <1>2, CallerIsPending
<1> DEFINE k == Answered + 1
           results == Append(fresh, ToolResult(k))
<1>4. k = Len(fresh) - a + 1 /\ k \in 1..fresh[a].calls /\ fresh[a].calls \in 1..MaxCalls
  BY <1>1, <1>2, <1>3 DEF Pending, Answered
<1> HIDE DEF k
<1>5. k \in 1..MaxCalls /\ ToolResult(k) \in Messages
  BY <1>4, TurnAssumption, MessageFacts
<1>6. results \in Histories /\ results # <<>>
  <2>1. /\ IssuesCalls(fresh, a) /\ ToolResult(k).call <= fresh[a].calls
    BY <1>1, <1>4 DEF Pending, ToolResult
  <2>2. ASSUME NEW j \in (a + 1)..Len(fresh)
        PROVE  fresh[j].role = "tool" /\ fresh[j].call < ToolResult(k).call
    <3>1. j \in DOMAIN fresh /\ j > a /\ j - a < k
      BY <1>2, <1>4
    <3>2. fresh[j] = ToolResult(j - a)
      BY <1>1, <3>1 DEF Pending
    <3> QED
      BY <3>1, <3>2 DEF ToolResult
  <2>3. results \in Histories
    BY <1>2, <1>5, <2>1, <2>2, AppendSound
  <2> QED
    BY <1>2, <1>5, <2>3, AppendFacts
<1>7. UNCHANGED keptVars
  BY DEF RunTool
<1>8. ASSUME /\ fresh' \in Histories /\ standard' \in Histories
             /\ round' \in 0..(MaxRounds - 1) /\ pc' \in {"persist", "model", "tools"}
             /\ reply' \in {"none", "text", "empty", "no response"}
      PROVE  SoundInv' /\ ControlInv'
  BY <1>7, <1>8 DEF SoundInv, ControlInv, keptVars, selection
<1> HIDE DEF results
<1>9. CASE fresh' = results /\ UNCHANGED <<pc, round, reply, standard>>
  <2>1. pc' = "tools"
    BY <1>9 DEF RunTool
  <2> QED
    BY <1>6, <1>8, <1>9, <2>1 DEF SoundInv, ControlInv
<1>10. CASE /\ round + 1 < MaxRounds /\ fresh' = results /\ round' = round + 1
            /\ pc' = "model" /\ UNCHANGED <<reply, standard>>
  <2>1. round' \in 0..(MaxRounds - 1)
    BY <1>10, RoundGrows DEF ControlInv
  <2> QED
    BY <1>6, <1>8, <1>10, <2>1 DEF SoundInv, ControlInv
<1>11. CASE EndPass(results, "no response")
  BY <1>6, <1>8, <1>11, EndPassPrompts DEF SoundInv
<1> QED
  BY <1>9, <1>10, <1>11 DEF RunTool, k, results

LEMMA ModelPrompts ==
    ASSUME LoopInv, SoundInv, ControlInv, ModelLoop
    PROVE  SoundInv' /\ ControlInv'
<1>1. CASE RunTool
  BY <1>1, RunToolPrompts
<1>2. CASE ~RunTool
  <2>0. pc = "model" /\ UNCHANGED <<store, cache, turns, msgs>> /\ fresh # <<>>
    BY <1>2 DEF ModelLoop, CallTools, Reply, ReplyEmpty, Fail, FailDeep, keptVars, selection,
                LoopInv
  <2>1. CASE \E n \in 1..MaxCalls : CallTools(n)
    <3>1. PICK n \in 1..MaxCalls : CallTools(n)
      BY <2>1
    <3>2. ToolCalls(n) \in Messages /\ ToolCalls(n).role # "tool"
      BY MessageFacts DEF ToolCalls
    <3>3. /\ fresh' = Append(fresh, ToolCalls(n)) /\ pc' = "tools"
          /\ UNCHANGED <<snapshot, round, reply, standard>>
      BY <3>1 DEF CallTools, keptVars
    <3>4. fresh' \in Histories
      BY <3>2, <3>3, AppendSound DEF SoundInv
    <3> QED
      BY <2>0, <3>3, <3>4 DEF SoundInv, ControlInv
  <2>2. CASE Reply \/ ReplyEmpty
    <3> DEFINE m == IF Reply THEN Append(fresh, Answer) ELSE fresh
               r == IF Reply THEN "text" ELSE "empty"
    <3>1. Append(fresh, Answer) \in Histories /\ Append(fresh, Answer) # <<>>
      <4>1. Answer \in Messages /\ Answer.role # "tool" /\ fresh \in Histories
        BY MessageFacts DEF Answer, SoundInv
      <4>2. fresh \in Seq(Messages)
        BY DEF LoopInv
      <4> QED
        BY <4>1, <4>2, AppendSound, AppendFacts
    <3>2. m \in Histories /\ m # <<>> /\ r \in {"text", "empty", "no response"}
      BY <2>0, <3>1 DEF SoundInv
    <3>3. EndPass(m, r) /\ UNCHANGED keptVars
      BY <2>2 DEF Reply, ReplyEmpty
    <3> HIDE DEF m, r
    <3>4. /\ fresh' \in Histories /\ standard' \in Histories
          /\ round' \in 0..(MaxRounds - 1) /\ pc' \in {"persist", "model"}
          /\ reply' \in {"none", "text", "empty", "no response"}
      BY <3>2, <3>3, EndPassPrompts DEF SoundInv
    <3> QED
      BY <3>3, <3>4 DEF SoundInv, ControlInv, keptVars, selection
  <2>3. CASE Fail
    BY <2>0, <2>3, BoundFacts, EmptyHistory DEF Fail, SoundInv, ControlInv
  <2>4. CASE FailDeep
    BY <2>0, <2>4, EmptyHistory DEF FailDeep, keptVars, SoundInv, ControlInv
  <2> QED
    BY <1>2, <2>1, <2>2, <2>3, <2>4 DEF ModelLoop
<1> QED
  BY <1>1, <1>2

LEMMA PromptStep ==
    ASSUME SelectionInv, LoopInv, SoundInv, ControlInv, [AgentNext]_vars
    PROVE  SoundInv' /\ ControlInv'
<1>0. 0 \in 0..(MaxRounds - 1)
  BY BoundFacts
<1>u. CASE UNCHANGED vars
  BY <1>u DEF vars, turnVars, selection, SoundInv, ControlInv
<1>1. CASE Hear
  <2>1. <<User>> \in Histories
    <3>1. User \in Messages /\ User.role # "tool" /\ <<User>> = Append(<<>>, User)
      BY MessageFacts DEF User
    <3> QED
      BY <3>1, EmptyHistory, AppendSound
  <2>2. turns' \in 0..MaxTurns
    BY <1>1, TurnsGrow DEF Hear, ControlInv
  <2> QED
    BY <1>0, <1>1, <2>1, <2>2, EmptyHistory DEF Hear, selection, SoundInv, ControlInv
<1>2. CASE Load
  <2> DEFINE h == IF cache # <<>> THEN cache ELSE FlattenSeq(LastTurns)
  <2>1. h \in Histories
    BY LastTurnsSound DEF SoundInv
  <2>2. /\ cache' = h /\ UNCHANGED <<store, fresh, round, reply, standard, turns>>
        /\ \/ snapshot' = h /\ pc' = "model" /\ UNCHANGED selection
           \/ Select(h) /\ pc' = "viewing" /\ UNCHANGED snapshot
    BY <1>2 DEF Load
  <2> HIDE DEF h
  <2>3. msgs' \in Histories
    BY <2>1, <2>2 DEF Select, selection, SoundInv
  <2> QED
    BY <2>1, <2>2, <2>3 DEF SoundInv, ControlInv
<1>3. CASE LoadFails
  BY <1>3, EmptyHistory DEF LoadFails, selection, SoundInv, ControlInv
<1>4. CASE View \/ Compact
  <2>1. Compacted \in Histories
    BY CompactedSound DEF SoundInv
  <2> QED
    BY <1>4, <2>1, EmptyHistory DEF View, Compact, Leave, turnVars, SoundInv, ControlInv
<1>5. CASE ModelLoop
  BY <1>5, ModelPrompts
<1>6. CASE Persist
  <2> DEFINE w == cache \o fresh
  <2>1. w \in Histories
    BY ConcatSound DEF SoundInv
  <2>2. /\ UNCHANGED <<store, snapshot, fresh, round, reply, standard, turns>>
        /\ \/ cache' = w /\ pc' = "insert" /\ UNCHANGED selection
           \/ Select(w) /\ pc' = "compacting" /\ UNCHANGED cache
    BY <1>6 DEF Persist, turnVars
  <2> HIDE DEF w
  <2>3. msgs' \in Histories
    BY <2>1, <2>2 DEF Select, selection, SoundInv
  <2> QED
    BY <2>1, <2>2, <2>3 DEF SoundInv, ControlInv
<1>7. CASE Insert
  <2>1. store' \in Seq(Histories)
    BY <1>7 DEF Insert, SoundInv
  <2> QED
    BY <1>0, <1>7, <2>1, EmptyHistory DEF Insert, selection, SoundInv, ControlInv
<1>8. CASE Fill /\ UNCHANGED <<store, cache, pc, turnVars, turns>>
  <2>1. UNCHANGED msgs
    BY <1>8 DEF Fill, Stop, Visit
  <2> QED
    BY <1>8, <2>1 DEF turnVars, SoundInv, ControlInv
<1>9. CASE Restart
  BY <1>0, <1>9, EmptyHistory DEF Restart, Leave, SoundInv, ControlInv
<1> QED
  BY <1>u, <1>1, <1>2, <1>3, <1>4, <1>5, <1>6, <1>7, <1>8, <1>9 DEF AgentNext

AgentInv == SelectionInv /\ LoopInv /\ SoundInv /\ ControlInv

LEMMA AgentInvHolds == AgentSpec => []AgentInv
<1>1. AgentInit => AgentInv
  <2> SUFFICES ASSUME AgentInit PROVE AgentInv
    OBVIOUS
  <2>1. SelectionInv /\ LoopInv
    BY InitSelection DEF AgentInit, LoopInv
  <2>2. <<>> \in Seq(Histories) /\ 0 \in 0..(MaxRounds - 1) /\ 0 \in 0..MaxTurns
    BY BoundFacts
  <2>3. SoundInv
    BY <2>2, EmptyHistory DEF AgentInit, Init, SoundInv
  <2>4. ControlInv
    BY <2>2 DEF AgentInit, ControlInv
  <2> QED
    BY <2>1, <2>3, <2>4 DEF AgentInv
<1>2. AgentInv /\ [AgentNext]_vars => AgentInv'
  BY AgentStepSelects, NextSelection, LoopStep, PromptStep DEF AgentInv
<1> QED
  BY <1>1, <1>2, PTL DEF AgentSpec

\* The state of a conversation is well-typed, and no pass of run_model_loop asks for
\* tools more often than its bound of rounds allows.
THEOREM AgentTypeCorrect == AgentSpec => []AgentTypeOK
<1>1. AgentInv => AgentTypeOK
  <2> SUFFICES ASSUME AgentInv PROVE AgentTypeOK
    OBVIOUS
  <2>1. Histories \subseteq Seq(Messages)
    BY DEF Histories
  <2>2. store \in Seq(Seq(Messages))
    BY <2>1 DEF AgentInv, SoundInv
  <2> QED
    BY <2>1, <2>2 DEF AgentInv, SelectionInv, SoundInv, ControlInv, AgentTypeOK
<1> QED
  BY <1>1, AgentInvHolds, PTL

\* load_history, trim_to_token_budget and persist_turn never show the model a tool
\* result without its call, however often a history was compacted and read back.
THEOREM NoOrphanIsShown == AgentSpec => []PromptHasNoOrphans
<1>1. AgentInv => PromptHasNoOrphans
  <2> SUFFICES ASSUME AgentInv PROVE PromptHasNoOrphans
    OBVIOUS
  <2>1. snapshot \o fresh \in Histories
    BY ConcatSound DEF AgentInv, SoundInv
  <2> QED
    BY <2>1 DEF Histories, Sound, PromptHasNoOrphans
<1> QED
  BY <1>1, AgentInvHolds, PTL
=============================================================================
