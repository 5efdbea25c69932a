--------------------------- MODULE QueueOpsProofs ---------------------------
(*******************************************************************************)
(* The lemmas about sequences, sums and least elements that the proofs of the  *)
(* hub and of the calendar rest on: what Only keeps of a queue, what an        *)
(* insertion and an appended entry do to its order, what a sequence of a set   *)
(* holds, and when two sums over a finite set agree.                           *)
(*                                                                             *)
(* Only and the sum of the library are recursive.  Each is shown to be an      *)
(* entry of a function that satisfies its recursion, and facts about that      *)
(* function are proved by Induction, which takes the set of the numbers a      *)
(* fact holds for, so that no operator has to be passed to a theorem.          *)
(*******************************************************************************)
EXTENDS QueueOps, FiniteSets, Functions, Folds, SequencesExt, TLAPS, WellFoundedInduction, SequenceTheorems,
        FiniteSetTheorems

\* A nonempty set of naturals has a least element.
LEMMA LeastNat ==
  ASSUME NEW T \in SUBSET Nat, T # {}
  PROVE  \E k \in T : \A j \in T : k <= j
<1> DEFINE R == OpToRel(<, Nat)
<1>1. IsWellFoundedOn(R, Nat)
  BY NatLessThanWellFounded
<1>2. \E x \in T : \A y \in T : ~(<<y, x>> \in R)
  <2> HIDE DEF R
  <2> QED BY <1>1, WFMin
<1>3. PICK x \in T : \A y \in T : ~(<<y, x>> \in R)
  BY <1>2
<1>4. \A y \in T : ~(y < x)
  BY <1>3 DEF OpToRel
<1> QED BY <1>4

\* Induction without a predicate as a parameter: a set of naturals that has 0
\* and is closed under the successor up to n has all of 0..n.
LEMMA Induction ==
  ASSUME NEW T, NEW n \in Nat, 0 \in T,
         \A k \in 1..n : k - 1 \in T => k \in T
  PROVE  \A k \in 0..n : k \in T
<1> DEFINE Bad == {k \in 0..n : k \notin T}
<1>1. SUFFICES ASSUME Bad # {} PROVE FALSE
  OBVIOUS
<1>2. PICK k \in Bad : \A j \in Bad : k <= j
  <2> HIDE DEF Bad
  <2>1. Bad \in SUBSET Nat BY DEF Bad
  <2> QED BY <1>1, <2>1, LeastNat
<1>3. k \in 1..n /\ k - 1 \in 0..n
  BY <1>2
<1>4. k - 1 \notin Bad
  BY <1>2, <1>3
<1> QED BY <1>2, <1>3, <1>4

\* The recursion inside Only, spelled out so that it can be named: entry i of
\* the function f.
OnlyStep(s, S, f, i) ==
  IF i = 0 THEN <<>>
  ELSE IF s[i] \in S THEN Append(f[i - 1], s[i]) ELSE f[i - 1]

\* f is that recursion's function up to n.
OnlyRec(s, S, f, n) == f = [i \in 0..n |-> OnlyStep(s, S, f, i)]

\* Only is the last entry of a function that satisfies its recursion.
LEMMA OnlyUnfolds ==
  ASSUME NEW s, NEW S, Len(s) \in Nat
  PROVE  \E f : OnlyRec(s, S, f, Len(s)) /\ Only(s, S) = f[Len(s)]
<1> DEFINE T == {k \in Nat : \E f : OnlyRec(s, S, f, k)}
<1>1. 0 \in T
  <2>1. OnlyRec(s, S, [i \in 0..0 |-> <<>>], 0)
    BY DEF OnlyRec, OnlyStep
  <2> QED BY <2>1
<1>2. ASSUME NEW k \in 1..Len(s), k - 1 \in T PROVE k \in T
  <2>1. k \in Nat /\ k - 1 \in Nat
    OBVIOUS
  <2>2. PICK f : OnlyRec(s, S, f, k - 1)
    BY <1>2
  <2> DEFINE g == [i \in 0..k |-> IF i = k THEN OnlyStep(s, S, f, k) ELSE f[i]]
  <2>3. \A i \in 0..k-1 : f[i] = OnlyStep(s, S, f, i)
    BY <2>2 DEF OnlyRec
  <2>4. ASSUME NEW i \in 0..k PROVE g[i] = OnlyStep(s, S, g, i)
    <3>1. i # 0 => i - 1 \in 0..k /\ i - 1 # k
      BY <2>1
    <3>2. i # 0 => g[i-1] = f[i-1]
      BY <3>1
    <3>3. OnlyStep(s, S, g, i) = OnlyStep(s, S, f, i)
      BY <3>2 DEF OnlyStep
    <3> QED BY <3>3, <2>3, <2>1
  <2>5. OnlyRec(s, S, g, k)
    <3> HIDE DEF g
    <3>1. g = [i \in 0..k |-> g[i]]
      BY DEF g
    <3> QED BY <3>1, <2>4 DEF OnlyRec
  <2> QED BY <2>5, <2>1
<1>3. \E f : OnlyRec(s, S, f, Len(s))
  <2> HIDE DEF T
  <2>1. \A k \in 0..Len(s) : k \in T
    BY <1>1, <1>2, Induction
  <2>2. Len(s) \in T
    BY <2>1
  <2> QED BY <2>2 DEF T
<1>4. Only(s, S) = (CHOOSE f : OnlyRec(s, S, f, Len(s)))[Len(s)]
  BY DEF Only, OnlyRec, OnlyStep
<1>5. PICK f : f = CHOOSE g : OnlyRec(s, S, g, Len(s))
  OBVIOUS
<1> QED BY <1>3, <1>4, <1>5

\* t holds the elements of the first n of s that lie in S: e says where each stood.
Sifts(s, S, n, t, e) ==
  /\ e \in [1..Len(t) -> 1..n]
  /\ \A p \in 1..Len(t) : t[p] = s[e[p]] /\ t[p] \in S
  /\ \A p, q \in 1..Len(t) : p < q => e[p] < e[q]
  /\ \A i \in 1..n : s[i] \in S => \E p \in 1..Len(t) : e[p] = i

\* Only keeps the elements of S and the order they stood in.
LEMMA OnlySifts ==
  ASSUME NEW X, NEW s \in Seq(X), NEW S
  PROVE  Only(s, S) \in Seq(X) /\ \E e : Sifts(s, S, Len(s), Only(s, S), e)
<1>1. PICK f : OnlyRec(s, S, f, Len(s)) /\ Only(s, S) = f[Len(s)]
  BY OnlyUnfolds
<1>2. \A i \in 0..Len(s) : f[i] = OnlyStep(s, S, f, i)
  BY <1>1 DEF OnlyRec
<1> DEFINE T == {k \in Nat : f[k] \in Seq(X) /\ \E e : Sifts(s, S, k, f[k], e)}
<1>3. 0 \in T
  <2>1. f[0] = <<>>
    BY <1>2 DEF OnlyStep
  <2>2. Sifts(s, S, 0, f[0], <<>>)
    BY <2>1 DEF Sifts
  <2>3. f[0] \in Seq(X)
    BY <2>1, EmptySeq
  <2> QED BY <2>2, <2>3
<1>4. ASSUME NEW k \in 1..Len(s), k - 1 \in T PROVE k \in T
  <2>1. PICK e : Sifts(s, S, k - 1, f[k - 1], e)
    BY <1>4
  <2>2. PICK t \in Seq(X) : t = f[k - 1]
    BY <1>4
  <2>3. k \in Nat /\ s[k] \in X /\ k \in 0..Len(s)
    OBVIOUS
  <2>4. CASE s[k] \notin S
    <3>1. f[k] = t
      BY <1>2, <2>2, <2>3, <2>4 DEF OnlyStep
    <3>2. Sifts(s, S, k, t, e)
      BY <2>1, <2>2, <2>4 DEF Sifts
    <3> QED BY <3>1, <3>2, <2>3
  <2>5. CASE s[k] \in S
    <3>0. OnlyStep(s, S, f, k) = Append(f[k - 1], s[k])
      BY <2>5, k # 0, Zenon DEF OnlyStep
    <3>1. f[k] = Append(t, s[k])
      BY <1>2, <2>2, <2>3, <3>0, Zenon
    <3> DEFINE d == [p \in 1..(Len(t) + 1) |-> IF p = Len(t) + 1 THEN k ELSE e[p]]
    <3>2. PICK u : /\ u = Append(t, s[k]) /\ u \in Seq(X) /\ Len(u) = Len(t) + 1
                   /\ u[Len(t) + 1] = s[k]
                   /\ \A i \in 1..Len(t) : u[i] = t[i]
      <4>1. PICK x \in X : x = s[k]
        BY <2>3
      <4>2. /\ Append(t, x) \in Seq(X) /\ Len(Append(t, x)) = Len(t) + 1
            /\ Append(t, x)[Len(t) + 1] = x
            /\ \A i \in 1..Len(t) : Append(t, x)[i] = t[i]
        BY AppendProperties
      <4> QED BY <4>1, <4>2, Zenon
    <3>3. Len(t) \in Nat
      OBVIOUS
    <3>4. Sifts(s, S, k, u, d)
      <4>1. d \in [1..Len(u) -> 1..k]
        BY <2>1, <2>2, <2>3, <3>2, <3>3 DEF Sifts
      <4>2. \A p \in 1..Len(u) : u[p] = s[d[p]] /\ u[p] \in S
        BY <2>1, <2>2, <2>3, <2>5, <3>2, <3>3 DEF Sifts
      <4>3. ASSUME NEW p \in 1..Len(u), NEW q \in 1..Len(u), p < q PROVE d[p] < d[q]
        <5>0. p \in 1..Len(t) /\ p # Len(t) + 1
          BY <3>2, <3>3, <4>3
        <5>1. p \in 1..Len(t) /\ d[p] = e[p] /\ e[p] \in 1..(k - 1)
          BY <2>1, <2>2, <5>0, <3>3 DEF Sifts
        <5>2. CASE q = Len(t) + 1
          BY <2>3, <3>3, <5>1, <5>2
        <5>3. CASE q # Len(t) + 1
          <6>1. q \in 1..Len(t) /\ d[q] = e[q]
            BY <3>2, <3>3, <5>3
          <6> QED BY <2>1, <2>2, <4>3, <5>1, <6>1 DEF Sifts
        <5> QED BY <5>2, <5>3
      <4>4. ASSUME NEW i \in 1..k, s[i] \in S PROVE \E p \in 1..Len(u) : d[p] = i
        <5>1. CASE i = k
          BY <3>2, <3>3, <5>1
        <5>2. CASE i # k
          <6>1. PICK p \in 1..Len(t) : e[p] = i
            BY <2>1, <2>2, <4>4, <5>2 DEF Sifts
          <6>2. p \in 1..Len(u) /\ d[p] = i
            BY <6>1, <3>2, <3>3
          <6> QED BY <6>2
        <5> QED BY <5>1, <5>2
      <4> HIDE DEF d
      <4> QED BY <4>1, <4>2, <4>3, <4>4 DEF Sifts
    <3> HIDE DEF d
    <3> QED BY <3>1, <3>2, <3>4, <2>3
  <2> QED BY <2>4, <2>5
<1>5. Len(s) \in T
  <2> HIDE DEF T
  <2>1. Len(s) \in Nat
    OBVIOUS
  <2>2. \A k \in 0..Len(s) : k \in T
    BY <1>3, <1>4, <2>1, Induction
  <2> QED BY <2>1, <2>2
<1> QED BY <1>1, <1>5

\* No element stands in s twice.
Distinct(s) == \A i, j \in DOMAIN s : s[i] = s[j] => i = j

\* A comprehension keeps exactly the elements asked for, each in its place.
LEMMA OnlyKeeps ==
  ASSUME NEW X, NEW s \in Seq(X), NEW S
  PROVE  /\ Only(s, S) \in Seq(X)
         /\ Range(Only(s, S)) = Range(s) \cap S
         /\ Distinct(s) => Distinct(Only(s, S))
         /\ \A a, b \in S : Ahead(s, a, b) => Ahead(Only(s, S), a, b)
<1>1. PICK t \in Seq(X) : t = Only(s, S)
  BY OnlySifts
<1>2. PICK e : Sifts(s, S, Len(s), t, e)
  BY <1>1, OnlySifts
<1>3. DOMAIN t = 1..Len(t) /\ DOMAIN s = 1..Len(s) /\ Len(t) \in Nat /\ Len(s) \in Nat
  OBVIOUS
<1>4. Range(t) = Range(s) \cap S
  <2>1. ASSUME NEW x \in Range(t) PROVE x \in Range(s) \cap S
    BY <1>2, <1>3 DEF Range, Sifts
  <2>2. ASSUME NEW x \in Range(s) \cap S PROVE x \in Range(t)
    BY <1>2, <1>3 DEF Range, Sifts
  <2> QED BY <2>1, <2>2
<1>5. ASSUME Distinct(s) PROVE Distinct(t)
  <2>1. SUFFICES ASSUME NEW p \in 1..Len(t), NEW q \in 1..Len(t), t[p] = t[q], p < q
                 PROVE FALSE
    BY <1>3 DEF Distinct
  <2>2. e[p] \in 1..Len(s) /\ e[q] \in 1..Len(s) /\ e[p] < e[q] /\ s[e[p]] = s[e[q]]
    BY <1>2, <2>1 DEF Sifts
  <2> QED BY <1>3, <1>5, <2>2 DEF Distinct
<1>6. ASSUME NEW a \in S, NEW b \in S, Ahead(s, a, b) PROVE Ahead(t, a, b)
  <2>1. PICK i \in 1..Len(s), j \in 1..Len(s) : i < j /\ s[i] = a /\ s[j] = b
    BY <1>3, <1>6 DEF Ahead
  <2>2. PICK p \in 1..Len(t) : e[p] = i
    BY <1>2, <2>1 DEF Sifts
  <2>3. PICK q \in 1..Len(t) : e[q] = j
    BY <1>2, <2>1 DEF Sifts
  <2>4. p < q
    BY <1>2, <1>3, <2>1, <2>2, <2>3 DEF Sifts
  <2> QED BY <1>2, <1>3, <2>1, <2>2, <2>3, <2>4 DEF Ahead, Sifts
<1> QED BY <1>1, <1>4, <1>5, <1>6


\* iter is the recursion of SumFunctionOnSet, on the subsets of S of at most k elements.
SumStep(f, iter, T) ==
  IF T = {} THEN 0 ELSE f[CHOOSE x \in T : TRUE] + iter[T \ {CHOOSE x \in T : TRUE}]

\* iter is the recursion of SumFunctionOnSet on the subsets of S.
SumRec(f, S, iter) == iter = [T \in SUBSET S |-> SumStep(f, iter, T)]

\* The subsets the recursion has reached after k rounds.
Small(S, k) == {T \in SUBSET S : Cardinality(T) <= k}

\* Every recursive call of a sum is for a smaller set.
LEMMA SmallerSum ==
  ASSUME NEW S, IsFiniteSet(S), NEW T \in SUBSET S, T # {}
  PROVE  LET U == T \ {CHOOSE x \in T : TRUE}
         IN  U \in SUBSET S /\ Cardinality(U) = Cardinality(T) - 1 /\ Cardinality(T) \in Nat \ {0}
<1>1. IsFiniteSet(T)
  BY FS_Subset
<1>2. PICK x \in T : x = CHOOSE y \in T : TRUE
  OBVIOUS
<1>3. Cardinality(T \ {x}) = Cardinality(T) - 1
  BY <1>1, <1>2, FS_RemoveElement
<1>4. Cardinality(T) \in Nat \ {0}
  BY <1>1, FS_CardinalityType, FS_EmptySet
<1> QED BY <1>2, <1>3, <1>4

\* A sum over a finite set is an entry of a function that satisfies its recursion.
LEMMA SumUnfolds ==
  ASSUME NEW f, NEW S, IsFiniteSet(S)
  PROVE  \E iter : SumRec(f, S, iter) /\ SumFunctionOnSet(f, S) = iter[S]
<1> DEFINE Upto(iter, k) == iter = [T \in Small(S, k) |-> SumStep(f, iter, T)]
           W == {k \in Nat : \E iter : Upto(iter, k)}
<1>1. Cardinality(S) \in Nat /\ \A T \in SUBSET S : Cardinality(T) \in Nat /\ Cardinality(T) <= Cardinality(S)
  BY FS_CardinalityType, FS_Subset
<1>2. 0 \in W
  <2>1. \A T \in Small(S, 0) : T = {}
    BY <1>1, FS_Subset, FS_EmptySet DEF Small
  <2>2. Upto([T \in Small(S, 0) |-> 0], 0)
    BY <2>1 DEF SumStep
  <2> QED BY <2>2
<1>3. ASSUME NEW k \in 1..Cardinality(S), k - 1 \in W PROVE k \in W
  <2>1. PICK h : Upto(h, k - 1)
    BY <1>3
  <2> DEFINE g == [T \in Small(S, k) |-> IF Cardinality(T) = k THEN SumStep(f, h, T) ELSE h[T]]
  <2>2. \A T \in Small(S, k - 1) : h[T] = SumStep(f, h, T)
    BY <2>1
  <2>3. ASSUME NEW T \in Small(S, k) PROVE g[T] = SumStep(f, g, T)
    <3>1. T # {} => LET U == T \ {CHOOSE x \in T : TRUE} IN g[U] = h[U]
      BY <1>1, SmallerSum DEF Small
    <3>2. SumStep(f, g, T) = SumStep(f, h, T)
      BY <3>1 DEF SumStep
    <3>3. Cardinality(T) # k => T \in Small(S, k - 1)
      BY <1>1 DEF Small
    <3> QED BY <2>2, <3>2, <3>3
  <2>4. Upto(g, k)
    <3>1. g = [T \in Small(S, k) |-> g[T]]
      OBVIOUS
    <3> HIDE DEF g
    <3> QED BY <2>3, <3>1
  <2>5. k \in Nat
    OBVIOUS
  <2> QED BY <2>4, <2>5
<1>4. \E iter : SumRec(f, S, iter)
  <2>1. Small(S, Cardinality(S)) = SUBSET S
    BY <1>1 DEF Small
  <2>2. Cardinality(S) \in W
    <3> HIDE DEF W
    <3>1. \A k \in 0..Cardinality(S) : k \in W
      BY <1>1, <1>2, <1>3, Induction
    <3> QED BY <1>1, <3>1
  <2> QED BY <2>1, <2>2 DEF SumRec
<1>5. SumFunctionOnSet(f, S) = (CHOOSE iter : SumRec(f, S, iter))[S]
  BY DEF SumFunctionOnSet, FoldFunctionOnSet, MapThenFoldSet, SumRec, SumStep
<1>6. PICK iter : iter = CHOOSE g : SumRec(f, S, g)
  OBVIOUS
<1> QED BY <1>4, <1>5, <1>6

\* Two equal sums of which one is nowhere above the other have equal terms: what
\* makes a token of summed generations as good as the generations themselves.
LEMMA EqualSums ==
  ASSUME NEW f, NEW g, NEW S, IsFiniteSet(S),
         \A x \in S : f[x] \in Nat /\ g[x] \in Nat /\ f[x] <= g[x],
         SumFunctionOnSet(f, S) = SumFunctionOnSet(g, S)
  PROVE  \A x \in S : f[x] = g[x]
<1>1. PICK F : SumRec(f, S, F) /\ SumFunctionOnSet(f, S) = F[S]
  BY SumUnfolds
<1>2. PICK G : SumRec(g, S, G) /\ SumFunctionOnSet(g, S) = G[S]
  BY SumUnfolds
<1>3. \A T \in SUBSET S : F[T] = SumStep(f, F, T) /\ G[T] = SumStep(g, G, T)
  BY <1>1, <1>2 DEF SumRec
<1> DEFINE Agree(T) == F[T] \in Nat /\ G[T] \in Nat /\ F[T] <= G[T]
                       /\ (F[T] = G[T] => \A x \in T : f[x] = g[x])
           W == {k \in Nat : \A T \in SUBSET S : Cardinality(T) = k => Agree(T)}
<1>4. 0 \in W
  <2>1. SUFFICES ASSUME NEW T \in SUBSET S, Cardinality(T) = 0 PROVE Agree(T)
    OBVIOUS
  <2>2. T = {}
    BY <2>1, FS_Subset, FS_EmptySet
  <2> QED BY <1>3, <2>2 DEF SumStep
<1>5. ASSUME NEW k \in 1..Cardinality(S), k - 1 \in W PROVE k \in W
  <2>1. SUFFICES ASSUME NEW T \in SUBSET S, Cardinality(T) = k PROVE Agree(T)
    OBVIOUS
  <2>2. T # {}
    BY <2>1, FS_EmptySet
  <2>3. PICK y \in T : y = CHOOSE x \in T : TRUE
    BY <2>2
  <2>4. T \ {y} \in SUBSET S /\ Cardinality(T \ {y}) = k - 1
    BY <2>1, <2>2, <2>3, SmallerSum
  <2>5. Agree(T \ {y})
    BY <1>5, <2>4
  <2>6. F[T] = f[y] + F[T \ {y}] /\ G[T] = g[y] + G[T \ {y}]
    BY <1>3, <2>2, <2>3 DEF SumStep
  <2>7. f[y] \in Nat /\ g[y] \in Nat /\ f[y] <= g[y]
    OBVIOUS
  <2> QED BY <2>5, <2>6, <2>7
<1>6. Cardinality(S) \in Nat
  BY FS_CardinalityType
<1>7. Cardinality(S) \in W
  <2> HIDE DEF W
  <2>1. \A k \in 0..Cardinality(S) : k \in W
    BY <1>4, <1>5, <1>6, Induction
  <2> QED BY <1>6, <2>1
<1>8. Agree(S)
  BY <1>7
<1> QED BY <1>1, <1>2, <1>8

----------------------------------------------------------------------------
\* What Min and Max of the library are, for the sets the hub takes them of.
LEMMA MinOf ==
  ASSUME NEW S \in SUBSET Nat, S # {}
  PROVE  Min(S) \in S /\ \A x \in S : Min(S) <= x
BY LeastNat DEF Min

\* The same of Max, for a bounded set of naturals.
LEMMA MaxOf ==
  ASSUME NEW n \in Nat, NEW S \in SUBSET (0..n), S # {}
  PROVE  Max(S) \in S /\ \A x \in S : x <= Max(S)
<1> DEFINE T == {n - x : x \in S}
<1>1. T \in SUBSET Nat /\ T # {}
  <2>1. \A x \in S : n - x \in Nat
    OBVIOUS
  <2> QED BY <2>1
<1>2. PICK k \in T : \A j \in T : k <= j
  <2> HIDE DEF T
  <2> QED BY <1>1, LeastNat
<1>3. PICK x \in S : k = n - x
  BY <1>2
<1>4. \A y \in S : y <= x
  BY <1>2, <1>3
<1>5. \E z \in S : \A y \in S : z >= y
  BY <1>4
<1> QED BY <1>5 DEF Max

\* What a queue becomes behind a new entry.
LEMMA AppendKeeps ==
  ASSUME NEW X, NEW s \in Seq(X), NEW x \in X
  PROVE  /\ Append(s, x) \in Seq(X)
         /\ Range(Append(s, x)) = Range(s) \cup {x}
         /\ Distinct(s) /\ x \notin Range(s) => Distinct(Append(s, x))
         /\ \A a, b : Ahead(Append(s, x), a, b) <=> Ahead(s, a, b) \/ (a \in Range(s) /\ b = x)
<1>1. PICK t : /\ t = Append(s, x) /\ t \in Seq(X) /\ Len(t) = Len(s) + 1 /\ t[Len(s) + 1] = x
               /\ \A i \in 1..Len(s) : t[i] = s[i]
  <2>1. /\ Append(s, x) \in Seq(X) /\ Len(Append(s, x)) = Len(s) + 1
        /\ Append(s, x)[Len(s) + 1] = x
        /\ \A i \in 1..Len(s) : Append(s, x)[i] = s[i]
    BY AppendProperties
  <2> QED BY <2>1, Zenon
<1>2. Len(s) \in Nat /\ DOMAIN s = 1..Len(s) /\ DOMAIN t = 1..(Len(s) + 1)
  BY <1>1
<1>3. Range(t) = Range(s) \cup {x}
  <2>1. ASSUME NEW y \in Range(t) PROVE y \in Range(s) \cup {x}
    BY <1>1, <1>2 DEF Range
  <2>2. ASSUME NEW y \in Range(s) PROVE y \in Range(t)
    <3>1. PICK i \in 1..Len(s) : y = s[i]
      BY <1>2 DEF Range
    <3>2. i \in DOMAIN t /\ t[i] = y
      BY <1>1, <1>2, <3>1
    <3> QED BY <3>2 DEF Range
  <2>3. x \in Range(t)
    BY <1>1, <1>2 DEF Range
  <2> QED BY <2>1, <2>2, <2>3
<1>4. ASSUME Distinct(s), x \notin Range(s) PROVE Distinct(t)
  <2>1. SUFFICES ASSUME NEW i \in 1..(Len(s) + 1), NEW j \in 1..(Len(s) + 1), t[i] = t[j], i < j
                 PROVE FALSE
    BY <1>2 DEF Distinct
  <2>2. i \in 1..Len(s) /\ t[i] = s[i] /\ s[i] \in Range(s)
    BY <1>1, <1>2, <2>1 DEF Range
  <2>3. j # Len(s) + 1
    BY <1>1, <1>4, <2>1, <2>2
  <2>4. j \in 1..Len(s) /\ t[j] = s[j]
    BY <1>1, <1>2, <2>3
  <2>5. s[i] = s[j] /\ i \in DOMAIN s /\ j \in DOMAIN s
    BY <1>2, <2>1, <2>2, <2>4
  <2>6. i = j
    BY <1>4, <2>5 DEF Distinct
  <2> QED BY <2>1, <2>6
<1>5. ASSUME NEW a, NEW b, Ahead(t, a, b) PROVE Ahead(s, a, b) \/ (a \in Range(s) /\ b = x)
  <2>1. PICK i \in 1..(Len(s) + 1), j \in 1..(Len(s) + 1) : i < j /\ t[i] = a /\ t[j] = b
    BY <1>2, <1>5 DEF Ahead
  <2>2. i \in 1..Len(s) /\ t[i] = s[i] /\ s[i] \in Range(s)
    BY <1>1, <1>2, <2>1 DEF Range
  <2>3. CASE j = Len(s) + 1
    BY <1>1, <2>1, <2>2, <2>3
  <2>4. CASE j # Len(s) + 1
    <3>1. j \in 1..Len(s) /\ t[j] = s[j]
      BY <1>1, <1>2, <2>4
    <3> QED BY <1>2, <2>1, <2>2, <3>1 DEF Ahead
  <2> QED BY <2>3, <2>4
<1>6. ASSUME NEW a, NEW b, Ahead(s, a, b) PROVE Ahead(t, a, b)
  <2>1. PICK i \in 1..Len(s), j \in 1..Len(s) : i < j /\ s[i] = a /\ s[j] = b
    BY <1>2, <1>6 DEF Ahead
  <2>2. i \in DOMAIN t /\ j \in DOMAIN t /\ t[i] = a /\ t[j] = b
    BY <1>1, <1>2, <2>1
  <2> QED BY <2>1, <2>2 DEF Ahead
<1>7. ASSUME NEW a \in Range(s) PROVE Ahead(t, a, x)
  <2>1. PICK i \in 1..Len(s) : s[i] = a
    BY <1>2 DEF Range
  <2>2. i \in DOMAIN t /\ t[i] = a /\ Len(s) + 1 \in DOMAIN t /\ i < Len(s) + 1
    BY <1>1, <1>2, <2>1
  <2> QED BY <1>1, <2>2 DEF Ahead
<1> QED BY <1>1, <1>3, <1>4, <1>5, <1>6, <1>7

\* What is left behind the first k - 1 elements.
LEMMA SuffixKeeps ==
  ASSUME NEW X, NEW s \in Seq(X), NEW k \in 1..(Len(s) + 1), Distinct(s)
  PROVE  LET t == SubSeq(s, k, Len(s))
         IN  /\ t \in Seq(X) /\ Distinct(t)
             /\ Range(t) = Range(s) \ {s[i] : i \in 1..(k - 1)}
             /\ \A a, b \in Range(t) : Ahead(s, a, b) => Ahead(t, a, b)
             /\ Len(t) = Len(s) - k + 1 /\ \A i \in 1..Len(t) : t[i] = s[i + k - 1]
<1>1. PICK t : t = SubSeq(s, k, Len(s))
  OBVIOUS
<1>2. Len(s) \in Nat /\ DOMAIN s = 1..Len(s)
  OBVIOUS
<1>3. t \in Seq(X) /\ Len(t) = Len(s) - k + 1 /\ \A i \in 1..(Len(s) - k + 1) : t[i] = s[k + i - 1]
  <2>1. \A i \in k..Len(s) : s[i] \in X
    OBVIOUS
  <2> QED BY <1>1, <1>2, <2>1, SubSeqProperties
<1>4. DOMAIN t = 1..(Len(s) - k + 1)
  BY <1>3
<1>5. ASSUME NEW i \in k..Len(s) PROVE i - k + 1 \in DOMAIN t /\ t[i - k + 1] = s[i] /\ s[i] \in Range(t)
  <2>1. i - k + 1 \in 1..(Len(s) - k + 1) /\ k + (i - k + 1) - 1 = i
    BY <1>2
  <2> QED BY <1>3, <1>4, <2>1 DEF Range
<1>6. ASSUME NEW i \in DOMAIN t PROVE k + i - 1 \in k..Len(s) /\ t[i] = s[k + i - 1]
  <2>1. i \in 1..(Len(s) - k + 1)
    BY <1>4, Zenon
  <2>2. t[i] = s[k + i - 1]
    BY <1>3, <2>1, Zenon
  <2>3. k + i - 1 \in k..Len(s)
    BY <1>2, <2>1
  <2> QED BY <2>2, <2>3
<1>7. Range(t) = Range(s) \ {s[i] : i \in 1..(k - 1)}
  <2>1. ASSUME NEW y \in Range(t) PROVE y \in Range(s) /\ \A i \in 1..(k - 1) : y # s[i]
    <3>1. PICK i \in DOMAIN t : y = t[i]
      BY DEF Range
    <3>2. PICK j \in k..Len(s) : y = s[j]
      BY <1>6, <3>1
    <3> QED BY <1>2, <3>2 DEF Range, Distinct
  <2>2. ASSUME NEW y \in Range(s), \A i \in 1..(k - 1) : y # s[i] PROVE y \in Range(t)
    <3>1. PICK i \in 1..Len(s) : y = s[i]
      BY <1>2 DEF Range
    <3>2. i \in k..Len(s)
      BY <1>2, <2>2, <3>1
    <3> QED BY <1>5, <3>1, <3>2
  <2> QED BY <2>1, <2>2
<1>8. Distinct(t)
  <2>1. SUFFICES ASSUME NEW i \in DOMAIN t, NEW j \in DOMAIN t, t[i] = t[j] PROVE i = j
    BY DEF Distinct
  <2>2. s[k + i - 1] = s[k + j - 1] /\ k + i - 1 \in DOMAIN s /\ k + j - 1 \in DOMAIN s
    BY <1>2, <1>6, <2>1
  <2>3. k + i - 1 = k + j - 1
    BY <2>2 DEF Distinct
  <2> QED BY <1>4, <2>3
<1>9. ASSUME NEW a \in Range(t), NEW b \in Range(t), Ahead(s, a, b) PROVE Ahead(t, a, b)
  <2>1. PICK i \in DOMAIN s, j \in DOMAIN s : i < j /\ s[i] = a /\ s[j] = b
    BY <1>9 DEF Ahead
  <2>2. i \in k..Len(s) /\ j \in k..Len(s)
    BY <1>2, <1>7, <2>1
  <2>3. i - k + 1 < j - k + 1
    BY <1>2, <2>1
  <2> QED BY <1>5, <2>1, <2>2, <2>3 DEF Ahead
<1> QED BY <1>1, <1>3, <1>7, <1>8, <1>9

\* What a queue becomes around an entry inserted at k.
LEMMA InsertKeeps ==
  ASSUME NEW X, NEW s \in Seq(X), NEW k \in 1..(Len(s) + 1), NEW x \in X
  PROVE  LET t == InsertAt(s, k, x)
         IN  /\ t \in Seq(X)
             /\ Range(t) = Range(s) \cup {x}
             /\ Distinct(s) /\ x \notin Range(s) => Distinct(t)
             /\ \A a, b : Ahead(s, a, b) => Ahead(t, a, b)
             /\ \A i \in 1..(k - 1) : Ahead(t, s[i], x)
<1>1. PICK t : t = InsertAt(s, k, x)
  OBVIOUS
<1>2. Len(s) \in Nat /\ DOMAIN s = 1..Len(s)
  OBVIOUS
<1>3. PICK u : /\ u = SubSeq(s, 1, k - 1) /\ u \in Seq(X) /\ Len(u) = k - 1
               /\ \A i \in 1..(k - 1) : u[i] = s[i]
  <2>1. \A i \in 1..(k - 1) : s[i] \in X
    BY <1>2
  <2>2. k - 1 \in Int /\ 1 \in Int /\ (IF 1 <= k - 1 THEN (k - 1) - 1 + 1 ELSE 0) = k - 1
    BY <1>2
  <2>3. /\ SubSeq(s, 1, k - 1) \in Seq(X)
        /\ Len(SubSeq(s, 1, k - 1)) = IF 1 <= k - 1 THEN (k - 1) - 1 + 1 ELSE 0
        /\ \A i \in 1..((k - 1) - 1 + 1) : SubSeq(s, 1, k - 1)[i] = s[1 + i - 1]
    BY <2>1, <2>2, SubSeqProperties
  <2>4. \A i \in 1..(k - 1) : SubSeq(s, 1, k - 1)[i] = s[i]
    BY <1>2, <2>3
  <2> QED BY <2>2, <2>3, <2>4, Zenon
<1>4. PICK v : /\ v = SubSeq(s, k, Len(s)) /\ v \in Seq(X) /\ Len(v) = Len(s) - k + 1
               /\ \A i \in 1..(Len(s) - k + 1) : v[i] = s[k + i - 1]
  <2>1. \A i \in k..Len(s) : s[i] \in X
    BY <1>2
  <2>2. k \in Int /\ Len(s) \in Int
        /\ (IF k <= Len(s) THEN Len(s) - k + 1 ELSE 0) = Len(s) - k + 1
    BY <1>2
  <2>3. /\ SubSeq(s, k, Len(s)) \in Seq(X)
        /\ Len(SubSeq(s, k, Len(s))) = IF k <= Len(s) THEN Len(s) - k + 1 ELSE 0
        /\ \A i \in 1..(Len(s) - k + 1) : SubSeq(s, k, Len(s))[i] = s[k + i - 1]
    BY <2>1, <2>2, SubSeqProperties
  <2> QED BY <2>2, <2>3, Zenon
<1>5. t = u \o <<x>> \o v
  BY <1>1, <1>3, <1>4 DEF InsertAt
<1>6. /\ t \in Seq(X) /\ Len(t) = Len(s) + 1
      /\ \A i \in 1..(Len(s) + 1) : t[i] = IF i < k THEN s[i] ELSE IF i = k THEN x ELSE s[i - 1]
  <2> DEFINE w == u \o <<x>>
  <2>1. <<x>> \in Seq(X) /\ Len(<<x>>) = 1 /\ <<x>>[1] = x
    OBVIOUS
  <2>2. /\ w \in Seq(X) /\ Len(w) = k
        /\ \A i \in 1..k : w[i] = IF i <= k - 1 THEN u[i] ELSE x
    <3>1. /\ w \in Seq(X) /\ Len(w) = Len(u) + 1
          /\ \A i \in 1..(Len(u) + 1) : w[i] = IF i <= Len(u) THEN u[i] ELSE <<x>>[i - Len(u)]
      BY <1>3, <2>1, ConcatProperties
    <3> HIDE DEF w
    <3> QED BY <1>2, <1>3, <2>1, <3>1
  <2> HIDE DEF w
  <2>3. t = w \o v
    BY <1>5 DEF w
  <2>4. /\ w \o v \in Seq(X) /\ Len(w \o v) = Len(w) + Len(v)
        /\ \A i \in 1..(Len(w) + Len(v)) : (w \o v)[i] = IF i <= Len(w) THEN w[i] ELSE v[i - Len(w)]
    BY <1>4, <2>2, ConcatProperties
  <2>5. Len(w) + Len(v) = Len(s) + 1
    BY <1>2, <1>4, <2>2
  <2>6. t \in Seq(X) /\ Len(t) = Len(s) + 1
        /\ \A i \in 1..(Len(s) + 1) : t[i] = IF i <= k THEN w[i] ELSE v[i - k]
    BY <2>2, <2>3, <2>4, <2>5
  <2>7. ASSUME NEW i \in 1..(Len(s) + 1)
        PROVE  t[i] = IF i < k THEN s[i] ELSE IF i = k THEN x ELSE s[i - 1]
    <3>1. CASE i < k
      <4>1. t[i] = w[i] /\ w[i] = u[i] /\ u[i] = s[i]
        BY <1>2, <1>3, <2>2, <2>6, <3>1
      <4> QED BY <3>1, <4>1
    <3>2. CASE i = k
      <4>1. t[i] = w[i] /\ w[i] = x
        BY <1>2, <1>3, <2>2, <2>6, <3>2
      <4> QED BY <3>2, <4>1
    <3>3. CASE i > k
      <4>1. ~(i <= k) /\ i - k \in 1..(Len(s) - k + 1) /\ k + (i - k) - 1 = i - 1
        BY <1>2, <3>3
      <4>2. t[i] = v[i - k]
        BY <2>6, <4>1
      <4>3. v[i - k] = s[k + (i - k) - 1]
        BY <1>4, <4>1
      <4> QED BY <3>3, <4>1, <4>2, <4>3
    <3> QED BY <1>2, <3>1, <3>2, <3>3
  <2> QED BY <2>6, <2>7
<1>7. DOMAIN t = 1..(Len(s) + 1)
  BY <1>6
<1> DEFINE at(i) == IF i < k THEN i ELSE i + 1
<1>8. ASSUME NEW i \in 1..Len(s) PROVE at(i) \in DOMAIN t /\ t[at(i)] = s[i]
  BY <1>2, <1>6, <1>7
<1>9. ASSUME NEW j \in DOMAIN t, j # k PROVE \E i \in 1..Len(s) : j = at(i)
  <2>1. CASE j < k
    BY <1>2, <1>7, <2>1
  <2>2. CASE j > k
    <3>1. j - 1 \in 1..Len(s) /\ j = at(j - 1)
      BY <1>2, <1>7, <2>2
    <3> QED BY <3>1
  <2> QED BY <1>7, <1>9, <2>1, <2>2
<1>10. k \in DOMAIN t /\ t[k] = x
  BY <1>2, <1>6, <1>7
<1>11. \A i, j \in 1..Len(s) : i < j => at(i) < at(j)
  OBVIOUS
<1> HIDE DEF at
<1>12. Range(t) = Range(s) \cup {x}
  <2>1. ASSUME NEW y \in Range(t) PROVE y \in Range(s) \cup {x}
    BY <1>2, <1>8, <1>9, <1>10 DEF Range
  <2>2. ASSUME NEW y \in Range(s) PROVE y \in Range(t)
    BY <1>2, <1>8 DEF Range
  <2> QED BY <1>10, <2>1, <2>2 DEF Range
<1>13. ASSUME Distinct(s), x \notin Range(s) PROVE Distinct(t)
  BY <1>2, <1>8, <1>9, <1>10, <1>13 DEF Distinct, Range
<1>14. ASSUME NEW a, NEW b, Ahead(s, a, b) PROVE Ahead(t, a, b)
  BY <1>2, <1>8, <1>11, <1>14 DEF Ahead
<1>15. ASSUME NEW i \in 1..(k - 1) PROVE Ahead(t, s[i], x)
  <2>1. i \in 1..Len(s) /\ i < k /\ at(i) = i
    BY <1>2 DEF at
  <2> QED BY <1>8, <1>10, <2>1 DEF Ahead
<1> QED BY <1>1, <1>6, <1>12, <1>13, <1>14, <1>15

\* The last element of what is kept, when anything is.
LEMMA LastKept ==
  ASSUME NEW X, NEW s \in Seq(X), NEW S, Range(s) \cap S # {}
  PROVE  Last(Only(s, S)) \in Range(s) \cap S
<1>1. PICK t \in Seq(X) : t = Only(s, S) /\ Range(t) = Range(s) \cap S
  BY OnlyKeeps
<1>2. Len(t) \in Nat /\ DOMAIN t = 1..Len(t)
  BY <1>1
<1>3. Len(t) # 0
  BY <1>1, <1>2 DEF Range
<1>4. t[Len(t)] \in Range(t)
  BY <1>2, <1>3 DEF Range
<1> QED BY <1>1, <1>4 DEF Last

\* Finitely many members address finitely many channels.
LEMMA MembersFinite ==
  ASSUME NEW X, NEW s \in Seq(X), NEW F, \A x \in Range(s) : IsFiniteSet(F[x]),
         NEW S, S \subseteq Range(s)
  PROVE  IsFiniteSet(UNION {F[x] : x \in S})
<1>1. Len(s) \in Nat /\ DOMAIN s = 1..Len(s)
  OBVIOUS
<1>2. IsFiniteSet(1..Len(s))
  BY <1>1, FS_Interval
<1>3. PICK I : I = {i \in 1..Len(s) : s[i] \in S}
  OBVIOUS
<1>4. IsFiniteSet(I)
  BY <1>2, <1>3, FS_Subset
<1>5. PICK T : T = {F[x] : x \in S}
  OBVIOUS
<1>6. \A x \in S : \E i \in I : s[i] = x
  BY <1>1, <1>3 DEF Range
<1>7. [i \in I |-> F[s[i]]] \in Surjection(I, T)
  BY <1>3, <1>5, <1>6 DEF Surjection
<1>8. IsFiniteSet(T)
  BY <1>4, <1>7, FS_Surjection
<1>9. \A t \in T : IsFiniteSet(t)
  BY <1>5
<1> QED BY <1>5, <1>8, <1>9, FS_UNION

\* A finite set as a sequence.
LEMMA SetToSeqLists ==
  ASSUME NEW X, NEW S \in SUBSET X, IsFiniteSet(S)
  PROVE  SetToSeq(S) \in Seq(X) /\ Range(SetToSeq(S)) = S
<1>1. PICK n \in Nat : n = Cardinality(S) /\ ExistsBijection(1..n, S)
  BY FS_CardinalityType
<1>2. PICK f \in Bijection(1..n, S) : TRUE
  BY <1>1 DEF ExistsBijection
<1>3. f \in [1..n -> S] /\ IsInjective(f)
  BY <1>2 DEF Bijection, Injection
<1>4. PICK s : s = SetToSeq(S) /\ s \in [1..n -> S] /\ IsInjective(s)
  BY <1>1, <1>3 DEF SetToSeq
<1>5. s \in Seq(X) /\ DOMAIN s = 1..n
  BY <1>4
<1>6. s \in Injection(1..n, S)
  BY <1>4 DEF Injection
<1>7. s \in Surjection(1..n, S)
  <2>1. IsFiniteSet(1..n) /\ Cardinality(1..n) = n
    BY FS_Interval
  <2> QED
    BY <1>1, <1>6, <2>1, FS_Injection
<1> QED
  BY <1>4, <1>5, <1>7 DEF Surjection, Range

\* Two sequences, one behind the other.
LEMMA ConcatKeeps ==
  ASSUME NEW X, NEW s \in Seq(X), NEW t \in Seq(X)
  PROVE  s \o t \in Seq(X) /\ Range(s \o t) = Range(s) \cup Range(t)
<1>1. PICK u : u = s \o t /\ u \in Seq(X) /\ Len(u) = Len(s) + Len(t)
               /\ \A i \in 1..(Len(s) + Len(t)) : u[i] = IF i <= Len(s) THEN s[i] ELSE t[i - Len(s)]
  <2>1. PICK u : u = s \o t
    OBVIOUS
  <2>2. /\ u \in Seq(X) /\ Len(u) = Len(s) + Len(t)
        /\ \A i \in 1..(Len(s) + Len(t)) : u[i] = IF i <= Len(s) THEN s[i] ELSE t[i - Len(s)]
    BY <2>1
  <2> QED
    BY <2>1, <2>2
<1>2. DOMAIN u = 1..(Len(s) + Len(t)) /\ DOMAIN s = 1..Len(s) /\ DOMAIN t = 1..Len(t)
  BY <1>1
<1>3. Range(u) \subseteq Range(s) \cup Range(t)
  <2>1. ASSUME NEW i \in DOMAIN u
        PROVE  u[i] \in Range(s) \cup Range(t)
    <3>1. CASE i <= Len(s)
      BY <1>1, <1>2, <3>1 DEF Range
    <3>2. CASE ~(i <= Len(s))
      <4>1. i - Len(s) \in DOMAIN t /\ u[i] = t[i - Len(s)]
        BY <1>1, <1>2, <3>2
      <4> QED
        BY <4>1 DEF Range
    <3> QED
      BY <3>1, <3>2
  <2> QED
    BY <2>1 DEF Range
<1>4. Range(s) \subseteq Range(u)
  <2>1. \A i \in DOMAIN s : i \in DOMAIN u /\ u[i] = s[i]
    BY <1>1, <1>2
  <2> QED
    BY <2>1 DEF Range
<1>5. Range(t) \subseteq Range(u)
  <2>1. \A i \in DOMAIN t : i + Len(s) \in DOMAIN u /\ u[i + Len(s)] = t[i]
    BY <1>1, <1>2
  <2> QED
    BY <2>1 DEF Range
<1> QED
  BY <1>1, <1>3, <1>4, <1>5

\* The first of a sequence, and the others.
LEMMA TailKeeps ==
  ASSUME NEW X, NEW s \in Seq(X), s # <<>>
  PROVE  /\ Tail(s) \in Seq(X) /\ Range(s) = Range(Tail(s)) \cup {Head(s)}
         /\ Head(s) \in X /\ Head(s) \in Range(s)
<1>1. PICK t : /\ t = Tail(s) /\ t \in Seq(X) /\ Len(t) = Len(s) - 1
               /\ \A i \in 1..Len(t) : t[i] = s[i + 1]
  BY HeadTailProperties
<1>2. Len(s) \in Nat \ {0} /\ DOMAIN s = 1..Len(s) /\ DOMAIN t = 1..(Len(s) - 1)
  BY <1>1
<1>3. Head(s) = s[1] /\ s[1] \in X
  BY <1>2
<1>4. Range(t) \subseteq Range(s)
  <2>1. \A i \in DOMAIN t : i + 1 \in DOMAIN s /\ t[i] = s[i + 1]
    BY <1>1, <1>2
  <2> QED
    BY <2>1 DEF Range
<1>5. Range(s) \subseteq Range(t) \cup {s[1]}
  <2>1. \A i \in DOMAIN s : i = 1 \/ (i - 1 \in DOMAIN t /\ s[i] = t[i - 1])
    BY <1>1, <1>2
  <2> QED
    BY <2>1 DEF Range
<1>6. s[1] \in Range(s)
  BY <1>2 DEF Range
<1> QED
  BY <1>1, <1>3, <1>4, <1>5, <1>6
=============================================================================
