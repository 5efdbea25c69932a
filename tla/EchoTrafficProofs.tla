--------------------------- MODULE EchoTrafficProofs ---------------------------
(***************************************************************************)
(* What the state-sync consumer keeps straight, for any commands, presses, *)
(* bridges, delays and casts: its tables stay within their bounds, a       *)
(* report that was taken in is settled or held and never both, and a hold  *)
(* ends with the command it waits for.                                     *)
(*                                                                         *)
(* The first parts are about lists, the ledger and the consumer alone:     *)
(* what each operator makes of a tidy state.  The last follows the actions *)
(* of EchoTraffic.                                                         *)
(***************************************************************************)
EXTENDS EchoTraffic, QueueOpsProofs, TLAPS

----------------------------------------------------------------------------
(* Lists. *)

Listed(s) == s \in Seq(Range(s))

LEMMA SetIsRange == \A s : ToSet(s) = Range(s)
  BY DEF ToSet, Range

LEMMA ListedShape ==
  ASSUME NEW s, Listed(s)
  PROVE  Len(s) \in Nat /\ DOMAIN s = 1..Len(s) /\ Range(s) = {s[i] : i \in 1..Len(s)}
<1>1. PICK X : X = Range(s)
  OBVIOUS
<1>2. s \in Seq(X)
  BY <1>1 DEF Listed
<1>3. Len(s) \in Nat /\ DOMAIN s = 1..Len(s)
  BY <1>2
<1> QED
  BY <1>3 DEF Range

LEMMA SeqListed ==
  ASSUME NEW X, NEW s \in Seq(X)
  PROVE  Listed(s) /\ Range(s) \subseteq X
<1>1. Len(s) \in Nat /\ s \in [1..Len(s) -> X]
  BY LenProperties
<1>2. s \in [1..Len(s) -> Range(s)] /\ Range(s) \subseteq X
  BY <1>1 DEF Range
<1>3. s \in Seq(Range(s))
  BY <1>1, <1>2, IsASeq
<1> QED
  BY <1>2, <1>3 DEF Listed

LEMMA EmptyListed == Listed(<<>>) /\ Range(<<>>) = {} /\ Len(<<>>) = 0
<1>1. <<>> \in Seq({}) /\ Len(<<>>) = 0
  OBVIOUS
<1>2. Range(<<>>) = {}
  BY DEF Range
<1> QED
  BY <1>1, <1>2 DEF Listed

\* t is a part of s, in its order: e says where each element stood.
Part(t, s, e) ==
  /\ e \in [1..Len(t) -> 1..Len(s)]
  /\ \A p \in 1..Len(t) : t[p] = s[e[p]]
  /\ \A p, q \in 1..Len(t) : p < q => e[p] < e[q]

\* A part is no longer than the whole.
LEMMA PartIsShorter ==
  ASSUME NEW n \in Nat, NEW m \in Nat, NEW e \in [1..n -> 1..m],
         \A p, q \in 1..n : p < q => e[p] < e[q]
  PROVE  n <= m
<1> DEFINE T == {k \in 0..n : k = 0 \/ k <= e[k]}
<1>1. 0 \in T
  OBVIOUS
<1>2. ASSUME NEW k \in 1..n, k - 1 \in T
      PROVE  k \in T
  <2>1. CASE k = 1
    <3>1. e[1] \in 1..m
      BY <2>1
    <3> QED
      BY <2>1, <3>1
  <2>2. CASE k # 1
    <3>1. k - 1 \in 1..n /\ k - 1 < k
      BY <2>2
    <3>2. e[k - 1] < e[k] /\ e[k] \in 1..m /\ e[k - 1] \in 1..m
      BY <3>1
    <3>3. k - 1 <= e[k - 1]
      BY <1>2, <3>1
    <3> QED
      BY <3>2, <3>3
  <2> QED
    BY <2>1, <2>2
<1> HIDE DEF T
<1>3. n \in T
  <2>1. \A k \in 0..n : k \in T
    BY <1>1, <1>2, Induction
  <2> QED
    BY <2>1
<1> QED
  BY <1>3 DEF T

LEMMA OnlyListed ==
  ASSUME NEW s, Listed(s), NEW S
  PROVE  /\ Listed(Only(s, S)) /\ Range(Only(s, S)) = Range(s) \cap S
         /\ Len(Only(s, S)) <= Len(s)
         /\ \E e : Part(Only(s, S), s, e)
<1>1. PICK t : t = Only(s, S)
  OBVIOUS
<1>2. PICK X : X = Range(s) /\ s \in Seq(X)
  BY DEF Listed
<1>3. t \in Seq(X) /\ Range(t) = X \cap S
  BY <1>1, <1>2, OnlyKeeps
<1>4. PICK e : Sifts(s, S, Len(s), t, e)
  BY <1>1, <1>2, OnlySifts
<1>5. Part(t, s, e)
  BY <1>4 DEF Sifts, Part
<1>6. Len(t) <= Len(s)
  <2>1. Len(t) \in Nat /\ Len(s) \in Nat
    BY <1>2, <1>3
  <2> QED
    BY <1>5, <2>1, PartIsShorter DEF Part
<1> QED
  BY <1>1, <1>2, <1>3, <1>5, <1>6, SeqListed

LEMMA AppendListed ==
  ASSUME NEW s, Listed(s), NEW x
  PROVE  /\ Listed(Append(s, x)) /\ Range(Append(s, x)) = Range(s) \cup {x}
         /\ Len(Append(s, x)) = Len(s) + 1
         /\ Append(s, x)[Len(s) + 1] = x
         /\ \A i \in 1..Len(s) : Append(s, x)[i] = s[i]
<1>1. PICK X : X = Range(s) \cup {x}
  OBVIOUS
<1>2. s \in Seq(X) /\ x \in X
  BY <1>1 DEF Listed
<1>3. Append(s, x) \in Seq(X) /\ Range(Append(s, x)) = Range(s) \cup {x}
  BY <1>2, AppendKeeps
<1>4. Listed(Append(s, x))
  BY <1>3, SeqListed
<1> QED
  BY <1>2, <1>3, <1>4, AppendProperties

LEMMA TailListed ==
  ASSUME NEW s, Listed(s), s # <<>>
  PROVE  /\ Listed(Tail(s)) /\ Range(s) = Range(Tail(s)) \cup {Head(s)}
         /\ Len(s) \in Nat \ {0} /\ Len(Tail(s)) = Len(s) - 1
         /\ \A i \in 1..Len(Tail(s)) : Tail(s)[i] = s[i + 1]
         /\ Head(s) = s[1]
<1>1. PICK X : X = Range(s) /\ s \in Seq(X)
  BY DEF Listed
<1>2. Tail(s) \in Seq(X) /\ Range(s) = Range(Tail(s)) \cup {Head(s)}
  BY <1>1, TailKeeps
<1>3. Len(s) \in Nat \ {0}
  BY <1>1, EmptySeq
<1>4. Listed(Tail(s))
  BY <1>2, SeqListed
<1>5. Head(s) = s[1] /\ Len(Tail(s)) = Len(s) - 1 /\ \A i \in 1..Len(Tail(s)) : Tail(s)[i] = s[i + 1]
  BY <1>1, HeadTailProperties
<1> QED
  BY <1>2, <1>3, <1>4, <1>5

LEMMA ConcatListed ==
  ASSUME NEW s, Listed(s), NEW t, Listed(t)
  PROVE  Listed(s \o t) /\ Range(s \o t) = Range(s) \cup Range(t)
<1>1. PICK X : X = Range(s) \cup Range(t)
  OBVIOUS
<1>2. s \in Seq(X) /\ t \in Seq(X)
  BY <1>1 DEF Listed
<1>3. s \o t \in Seq(X) /\ Range(s \o t) = Range(s) \cup Range(t)
  BY <1>2, ConcatKeeps
<1> QED
  BY <1>3, SeqListed

\* The newest elements of a list: all of it, or what its last places hold.
LEMMA NewestListed ==
  ASSUME NEW s, Listed(s), NEW cap \in Nat
  PROVE  \E t : \E k \in Nat :
           /\ t = Newest(s, cap) /\ Listed(t) /\ Len(t) <= cap
           /\ Len(t) + k = Len(s) /\ \A i \in 1..Len(t) : t[i] = s[i + k]
           /\ Len(s) <= cap => t = s
           /\ Len(s) > cap => Len(t) = cap
<1>1. PICK X : X = Range(s) /\ s \in Seq(X)
  BY DEF Listed
<1>2. Len(s) \in Nat
  BY <1>1
<1>3. CASE Len(s) <= cap
  <2>1. s = Newest(s, cap)
    BY <1>3 DEF Newest
  <2>2. Len(s) + 0 = Len(s) /\ \A i \in 1..Len(s) : i + 0 = i
    BY <1>2
  <2>3. /\ s = Newest(s, cap) /\ Listed(s) /\ Len(s) <= cap
        /\ Len(s) + 0 = Len(s) /\ \A i \in 1..Len(s) : s[i] = s[i + 0]
        /\ Len(s) <= cap => s = s
    BY <1>3, <2>1, <2>2
  <2>4. Len(s) > cap => Len(s) = cap
    BY <1>2, <1>3
  <2> QED
    BY <2>3, <2>4
<1>4. CASE ~(Len(s) <= cap)
  <2>1. PICK k \in Nat : k = Len(s) - cap
    BY <1>2, <1>4
  <2>2. PICK t : t = SubSeq(s, k + 1, Len(s))
    OBVIOUS
  <2>3. t = Newest(s, cap)
    BY <1>2, <1>4, <2>1, <2>2 DEF Newest
  <2>4. k + 1 \in 1..(Len(s) + 1) /\ Len(s) \in (k + 1 - 1)..Len(s)
    BY <1>2, <1>4, <2>1
  <2>5. t \in Seq(X) /\ Len(t) = Len(s) - (k + 1) + 1 /\ \A i \in 1..(Len(s) - (k + 1) + 1) : t[i] = s[(k + 1) + i - 1]
    BY <1>1, <1>2, <2>1, <2>2, <2>4, SubSeqProperties
  <2>6. Listed(t)
    BY <2>5, SeqListed
  <2>7. Len(t) = cap /\ \A i \in 1..Len(t) : t[i] = s[i + k]
    <3>1. Len(t) = cap
      BY <1>2, <2>1, <2>5
    <3>2. \A i \in 1..cap : t[i] = s[(k + 1) + i - 1] /\ (k + 1) + i - 1 = i + k
      BY <1>2, <2>1, <2>5
    <3> QED
      BY <3>1, <3>2
  <2>8. /\ Len(t) <= cap /\ Len(t) + k = Len(s) /\ (Len(s) <= cap => t = s)
        /\ Len(s) > cap => Len(t) = cap
    BY <1>2, <1>4, <2>1, <2>7
  <2> QED
    BY <2>1, <2>3, <2>6, <2>7, <2>8
<1> QED
  BY <1>3, <1>4

----------------------------------------------------------------------------
(* The ledger. *)

Ledgered(L) ==
  /\ Listed(L)
  /\ \A e \in Range(L) :
       /\ e = [cmd |-> e.cmd, phase |-> e.phase, since |-> e.since, handoff |-> e.handoff,
               displacedAt |-> e.displacedAt]
       /\ e.phase \in {"pending", "confirmed"}
       /\ Displaced(e) => e.phase = "confirmed"
  /\ \A i, j \in DOMAIN L : L[i].cmd = L[j].cmd => i = j

Cmds(L) == {e.cmd : e \in Range(L)}

\* The commands whose start is not known.
Open(L) == {e.cmd : e \in {x \in Range(L) : x.phase = "pending"}}

LEMMA OnlyLedgered ==
  ASSUME NEW L, Ledgered(L), NEW S
  PROVE  /\ Ledgered(Only(L, S)) /\ Range(Only(L, S)) = Range(L) \cap S
         /\ Len(Only(L, S)) <= Len(L)
         /\ \E e : Part(Only(L, S), L, e)
<1>1. PICK t : t = Only(L, S)
  OBVIOUS
<1>2. /\ Listed(t) /\ Range(t) = Range(L) \cap S /\ Len(t) <= Len(L)
      /\ \E e : Part(t, L, e)
  BY <1>1, OnlyListed DEF Ledgered
<1>3. PICK e : Part(t, L, e)
  BY <1>2
<1>4. Len(t) \in Nat /\ DOMAIN t = 1..Len(t) /\ Len(L) \in Nat /\ DOMAIN L = 1..Len(L)
  BY <1>2, ListedShape DEF Ledgered
<1>5. ASSUME NEW i \in DOMAIN t, NEW j \in DOMAIN t, t[i].cmd = t[j].cmd
      PROVE  i = j
  <2>1. L[e[i]].cmd = L[e[j]].cmd /\ e[i] \in DOMAIN L /\ e[j] \in DOMAIN L
    BY <1>3, <1>4, <1>5 DEF Part
  <2>2. e[i] = e[j]
    BY <2>1 DEF Ledgered
  <2>3. e[i] \in Int /\ i \in Int /\ j \in Int
    BY <1>4, <2>1
  <2> QED
    BY <1>3, <1>4, <2>2, <2>3 DEF Part
<1>6. Ledgered(t)
  BY <1>2, <1>5 DEF Ledgered
<1> QED
  BY <1>1, <1>2, <1>6

\* The caps of the ledger hold, whatever they have to drop.
LEMMA WithinCapsHold ==
  ASSUME NEW L, Ledgered(L), GlobalCap \in Nat
  PROVE  /\ Ledgered(WithinCaps(L)) /\ Range(WithinCaps(L)) \subseteq Range(L)
         /\ Len(WithinCaps(L)) <= GlobalCap
<1> DEFINE newer(i) == {j \in DOMAIN L : /\ j > i
                          /\ Sent[L[j].cmd].bridge = Sent[L[i].cmd].bridge}
           kept == {i \in DOMAIN L : Cardinality(newer(i)) < BridgeCap}
           last == {i \in kept : Cardinality({j \in kept : j > i}) < GlobalCap}
<1>1. PICK K : K = kept
  OBVIOUS
<1>2. PICK M : M = last /\ M = {i \in K : Cardinality({j \in K : j > i}) < GlobalCap}
  BY <1>1
<1>3. PICK S : S = {L[i] : i \in M}
  OBVIOUS
<1>4. WithinCaps(L) = Only(L, S)
  BY <1>2, <1>3 DEF WithinCaps
<1>5. K \subseteq DOMAIN L
  BY <1>1
<1> HIDE DEF newer, kept, last
<1>6. Len(L) \in Nat /\ DOMAIN L = 1..Len(L) /\ IsFiniteSet(1..Len(L))
  BY ListedShape, FS_Interval DEF Ledgered
<1>7. M \subseteq K /\ IsFiniteSet(K) /\ IsFiniteSet(M) /\ M \in SUBSET Nat
  <2>1. M \subseteq K /\ K \subseteq 1..Len(L)
    BY <1>2, <1>5, <1>6
  <2>2. IsFiniteSet(K)
    BY <1>6, <2>1, FS_Subset
  <2>3. IsFiniteSet(M)
    BY <2>1, <2>2, FS_Subset
  <2>4. 1..Len(L) \subseteq Nat
    BY <1>6
  <2> QED
    BY <2>1, <2>2, <2>3, <2>4
<1>8. Cardinality(M) \in Nat /\ Cardinality(M) <= GlobalCap
  <2>1. Cardinality(M) \in Nat
    BY <1>7, FS_CardinalityType
  <2>2. CASE M = {}
    BY <2>2, FS_EmptySet
  <2>3. CASE M # {}
    <3>1. PICK i \in M : \A j \in M : i <= j
      BY <1>7, <2>3, LeastNat
    <3>2. PICK N : N = {j \in K : j > i}
      OBVIOUS
    <3>3. IsFiniteSet(N) /\ Cardinality(N) \in Nat /\ Cardinality(N) < GlobalCap
      <4>1. N \subseteq K
        BY <3>2
      <4> QED
        BY <1>2, <1>7, <3>1, <3>2, <4>1, FS_Subset, FS_CardinalityType
    <3>4. M \ {i} \subseteq N
      <4>1. \A j \in M : j \in K /\ j \in Nat /\ i \in Nat /\ i <= j
        BY <1>7, <3>1
      <4> QED
        BY <3>2, <4>1
    <3>5. Cardinality(M \ {i}) = Cardinality(M) - 1
      BY <1>7, <3>1, FS_RemoveElement
    <3>6. Cardinality(M \ {i}) <= Cardinality(N)
      BY <3>3, <3>4, FS_Subset
    <3> QED
      BY <2>1, <3>3, <3>5, <3>6
  <2> QED
    BY <2>1, <2>2, <2>3
<1>9. PICK t : t = Only(L, S)
  OBVIOUS
<1>10. /\ Ledgered(t) /\ Range(t) = Range(L) \cap S
       /\ \E e : Part(t, L, e)
  BY <1>9, OnlyLedgered
<1>11. PICK e : Part(t, L, e)
  BY <1>10
<1>12. Len(t) \in Nat /\ DOMAIN t = 1..Len(t)
  BY <1>10, ListedShape DEF Ledgered
<1>13. \A p \in 1..Len(t) : e[p] \in M
  <2>1. SUFFICES ASSUME NEW p \in 1..Len(t) PROVE e[p] \in M
    OBVIOUS
  <2>2. t[p] = L[e[p]] /\ e[p] \in DOMAIN L
    BY <1>6, <1>11 DEF Part
  <2>3. t[p] \in S
    BY <1>10, <1>12, <2>1 DEF Range
  <2>4. PICK i \in M : t[p] = L[i]
    BY <1>3, <2>3
  <2>5. i = e[p]
    BY <1>5, <1>7, <2>2, <2>4 DEF Ledgered
  <2> QED
    BY <2>4, <2>5
<1>14. Len(t) <= Cardinality(M)
  <2>1. e \in [1..Len(t) -> M]
    BY <1>11, <1>13 DEF Part
  <2>2. IsInjective(e)
    <3>1. \A p, q \in 1..Len(t) : p < q => e[p] < e[q]
      BY <1>11 DEF Part
    <3>2. \A p \in 1..Len(t) : e[p] \in Nat
      BY <1>7, <2>1
    <3>3. ASSUME NEW p \in 1..Len(t), NEW q \in 1..Len(t), e[p] = e[q] PROVE p = q
      BY <1>12, <3>1, <3>2, <3>3
    <3> QED
      BY <2>1, <3>3 DEF IsInjective
  <2>3. Cardinality(1..Len(t)) = Len(t)
    <3>1. PICK n \in Nat : n = Len(t)
      BY <1>12
    <3>2. Cardinality(1..n) = n
      BY FS_Interval
    <3> QED
      BY <3>1, <3>2
  <2>4. e \in Injection(1..Len(t), M)
    BY <2>1, <2>2 DEF Injection
  <2>5. Cardinality(1..Len(t)) <= Cardinality(M)
    BY <1>7, <2>4, FS_Injection
  <2> QED
    BY <2>3, <2>5
<1> QED
  BY <1>4, <1>8, <1>9, <1>10, <1>12, <1>14

LEMMA WithoutDrops ==
  ASSUME NEW L, Ledgered(L), NEW c
  PROVE  /\ Ledgered(Without(L, c)) /\ Range(Without(L, c)) = {e \in Range(L) : e.cmd # c}
         /\ Len(Without(L, c)) <= Len(L)
         /\ Cmds(Without(L, c)) = Cmds(L) \ {c} /\ Open(Without(L, c)) = Open(L) \ {c}
<1>1. PICK S : S = {e \in Range(L) : e.cmd # c} /\ Without(L, c) = Only(L, S)
  BY SetIsRange DEF Without
<1>2. Ledgered(Without(L, c)) /\ Range(Without(L, c)) = S /\ Len(Without(L, c)) <= Len(L)
  BY <1>1, OnlyLedgered
<1> QED
  BY <1>1, <1>2 DEF Cmds, Open

\* Entries are changed in place: `f` is what becomes of them.
LEMMA ChangeKeeps ==
  ASSUME NEW L, Ledgered(L), NEW f,
         f = [i \in DOMAIN L |-> f[i]],
         \A i \in DOMAIN L :
           /\ f[i] = [cmd |-> L[i].cmd, phase |-> f[i].phase, since |-> f[i].since,
                      handoff |-> f[i].handoff, displacedAt |-> f[i].displacedAt]
           /\ f[i].phase \in {"pending", "confirmed"}
           /\ Displaced(f[i]) => f[i].phase = "confirmed"
  PROVE  Ledgered(f) /\ Len(f) = Len(L) /\ Cmds(f) = Cmds(L)
<1>1. Len(L) \in Nat /\ DOMAIN L = 1..Len(L)
  BY ListedShape DEF Ledgered
<1>2. DOMAIN f = 1..Len(L)
  BY <1>1
<1>3. f \in [1..Len(L) -> Range(f)]
  BY <1>2 DEF Range
<1>4. f \in Seq(Range(f))
  BY <1>1, <1>3, IsASeq
<1>5. Listed(f) /\ Len(f) = Len(L)
  BY <1>1, <1>2, <1>4, LenProperties DEF Listed
<1>6. \A e \in Range(f) : /\ e = [cmd |-> e.cmd, phase |-> e.phase, since |-> e.since,
                                  handoff |-> e.handoff, displacedAt |-> e.displacedAt]
                          /\ e.phase \in {"pending", "confirmed"}
                          /\ Displaced(e) => e.phase = "confirmed"
  <2>1. SUFFICES ASSUME NEW i \in DOMAIN L
                 PROVE  /\ f[i] = [cmd |-> f[i].cmd, phase |-> f[i].phase, since |-> f[i].since,
                                   handoff |-> f[i].handoff, displacedAt |-> f[i].displacedAt]
                        /\ f[i].phase \in {"pending", "confirmed"}
                        /\ Displaced(f[i]) => f[i].phase = "confirmed"
    BY <1>1, <1>2 DEF Range
  <2> QED
    OBVIOUS
<1>7. \A i \in DOMAIN L : f[i].cmd = L[i].cmd
  OBVIOUS
<1>8. \A i, j \in DOMAIN f : f[i].cmd = f[j].cmd => i = j
  BY <1>1, <1>2, <1>7 DEF Ledgered
<1>9. Cmds(f) = Cmds(L)
  BY <1>1, <1>2, <1>7 DEF Cmds, Range
<1> QED
  BY <1>5, <1>6, <1>8, <1>9 DEF Ledgered

LEMMA RegisteredOpens ==
  ASSUME NEW L, Ledgered(L), NEW c, GlobalCap \in Nat
  PROVE  /\ Ledgered(Registered(L, c)) /\ Len(Registered(L, c)) <= GlobalCap
         /\ Cmds(Registered(L, c)) \subseteq Cmds(L) \cup {c}
         /\ Open(Registered(L, c)) \subseteq Open(L) \cup {c}
<1>1. PICK W : /\ W = Without(L, c) /\ Ledgered(W)
               /\ Cmds(W) = Cmds(L) \ {c} /\ Open(W) = Open(L) \ {c}
  BY WithoutDrops
<1>2. PICK x : x = Pending(c)
  OBVIOUS
<1>3. PICK t : t = Append(W, x)
  OBVIOUS
<1>4. /\ Listed(t) /\ Range(t) = Range(W) \cup {x}
      /\ Len(t) = Len(W) + 1 /\ t[Len(W) + 1] = x /\ \A i \in 1..Len(W) : t[i] = W[i]
  BY <1>1, <1>3, AppendListed DEF Ledgered
<1>5. /\ x = [cmd |-> x.cmd, phase |-> x.phase, since |-> x.since, handoff |-> x.handoff,
              displacedAt |-> x.displacedAt]
      /\ x.phase = "pending" /\ ~Displaced(x) /\ x.cmd = c
  BY <1>2 DEF Pending, Displaced
<1>6. /\ Len(W) \in Nat /\ DOMAIN W = 1..Len(W) /\ Range(W) = {W[i] : i \in 1..Len(W)}
      /\ DOMAIN t = 1..Len(t)
  BY <1>1, <1>4, ListedShape DEF Ledgered
<1>7. \A i \in 1..Len(W) : W[i].cmd # c
  BY <1>1, <1>6 DEF Cmds
<1>8. \A i, j \in DOMAIN t : t[i].cmd = t[j].cmd => i = j
  <2>1. SUFFICES ASSUME NEW i \in 1..(Len(W) + 1), NEW j \in 1..(Len(W) + 1), t[i].cmd = t[j].cmd
                 PROVE  i = j
    BY <1>4, <1>6
  <2>2. CASE i \in 1..Len(W) /\ j \in 1..Len(W)
    BY <1>1, <1>4, <1>6, <2>1, <2>2 DEF Ledgered
  <2>3. CASE i = Len(W) + 1 \/ j = Len(W) + 1
    BY <1>4, <1>5, <1>6, <1>7, <2>1, <2>3
  <2> QED
    BY <1>6, <2>2, <2>3
<1>9. Ledgered(t)
  BY <1>1, <1>4, <1>5, <1>8 DEF Ledgered
<1>10. PICK u : u = WithinCaps(t)
  OBVIOUS
<1>11. Ledgered(u) /\ Range(u) \subseteq Range(t) /\ Len(u) <= GlobalCap
  BY <1>9, <1>10, WithinCapsHold
<1>12. u = Registered(L, c)
  BY <1>1, <1>2, <1>3, <1>10 DEF Registered
<1>13. Cmds(u) \subseteq Cmds(W) \cup {c} /\ Open(u) \subseteq Open(W) \cup {c}
  BY <1>4, <1>5, <1>11 DEF Cmds, Open
<1> QED
  BY <1>1, <1>11, <1>12, <1>13

\* Entries changed in place leave those open that they leave pending.
LEMMA ChangeLeavesOpen ==
  ASSUME NEW L, NEW f, NEW S, DOMAIN f = DOMAIN L,
         \A i \in DOMAIN L : f[i].cmd = L[i].cmd,
         \A i \in DOMAIN L : f[i].phase = "pending" <=> L[i].phase = "pending" /\ L[i].cmd \notin S
  PROVE  Open(f) = Open(L) \ S
<1>1. ASSUME NEW x \in Open(f) PROVE x \in Open(L) \ S
  <2>1. PICK i \in DOMAIN L : f[i].phase = "pending" /\ f[i].cmd = x
    BY <1>1 DEF Open, Range
  <2> QED
    BY <2>1 DEF Open, Range
<1>2. ASSUME NEW x \in Open(L) \ S PROVE x \in Open(f)
  <2>1. PICK i \in DOMAIN L : L[i].phase = "pending" /\ L[i].cmd = x
    BY <1>2 DEF Open, Range
  <2>2. f[i].phase = "pending" /\ f[i].cmd = x
    BY <1>2, <2>1
  <2> QED
    BY <2>2 DEF Open, Range
<1> QED
  BY <1>1, <1>2

LEMMA ConfirmedCloses ==
  ASSUME NEW L, Ledgered(L), NEW c, NEW at
  PROVE  /\ Ledgered(Confirmed(L, c, at)) /\ Len(Confirmed(L, c, at)) = Len(L)
         /\ Cmds(Confirmed(L, c, at)) = Cmds(L)
         /\ Open(Confirmed(L, c, at)) = Open(L) \ {c}
<1>1. PICK f : f = Confirmed(L, c, at)
  OBVIOUS
<1>2. f = [i \in DOMAIN L |-> IF L[i].cmd = c
                              THEN IF Displaced(L[i]) THEN L[i]
                                   ELSE [L[i] EXCEPT !.phase = "confirmed", !.handoff = at]
                              ELSE L[i]]
  BY <1>1 DEF Confirmed, Updated
<1>3. ASSUME NEW i \in DOMAIN L
      PROVE  /\ f[i] = [cmd |-> L[i].cmd, phase |-> f[i].phase, since |-> f[i].since,
                        handoff |-> f[i].handoff, displacedAt |-> f[i].displacedAt]
             /\ f[i].phase \in {"pending", "confirmed"}
             /\ Displaced(f[i]) => f[i].phase = "confirmed"
             /\ f[i].phase = "pending" <=> L[i].phase = "pending" /\ L[i].cmd # c
             /\ f[i].cmd = L[i].cmd
  <2>1. PICK e : e = L[i]
    OBVIOUS
  <2>2. /\ e = [cmd |-> e.cmd, phase |-> e.phase, since |-> e.since, handoff |-> e.handoff,
                displacedAt |-> e.displacedAt]
        /\ e.phase \in {"pending", "confirmed"} /\ (Displaced(e) => e.phase = "confirmed")
    BY <2>1 DEF Ledgered, Range
  <2>3. f[i] = IF e.cmd = c
               THEN IF Displaced(e) THEN e ELSE [e EXCEPT !.phase = "confirmed", !.handoff = at]
               ELSE e
    BY <1>2, <2>1
  <2>4. [e EXCEPT !.phase = "confirmed", !.handoff = at] =
          [cmd |-> e.cmd, phase |-> "confirmed", since |-> e.since, handoff |-> at,
           displacedAt |-> e.displacedAt]
    <3>1. PICK d : d = [e EXCEPT !.phase = "confirmed"]
      OBVIOUS
    <3>2. d = [cmd |-> e.cmd, phase |-> "confirmed", since |-> e.since, handoff |-> e.handoff,
               displacedAt |-> e.displacedAt]
      BY <2>2, <3>1
    <3>3. [d EXCEPT !.handoff = at] =
            [cmd |-> e.cmd, phase |-> "confirmed", since |-> e.since, handoff |-> at,
             displacedAt |-> e.displacedAt]
      BY <3>2
    <3> QED
      BY <3>1, <3>3
  <2> QED
    BY <2>1, <2>2, <2>3, <2>4
<1>4. f = [i \in DOMAIN L |-> f[i]]
  BY <1>2
<1>5. Ledgered(f) /\ Len(f) = Len(L) /\ Cmds(f) = Cmds(L)
  BY <1>3, <1>4, ChangeKeeps
<1>6. Open(f) = Open(L) \ {c}
  <2>1. DOMAIN f = DOMAIN L
    BY <1>2
  <2>2. \A i \in DOMAIN L : f[i].cmd = L[i].cmd
    BY <1>3
  <2>3. PICK S : S = {c}
    OBVIOUS
  <2>4. \A i \in DOMAIN L : f[i].phase = "pending" <=> L[i].phase = "pending" /\ L[i].cmd \notin S
    BY <1>3, <2>3
  <2>5. Open(f) = Open(L) \ S
    BY <2>1, <2>2, <2>4, ChangeLeavesOpen
  <2> QED
    BY <2>3, <2>5
<1> QED
  BY <1>1, <1>5, <1>6

LEMMA DisplaceCloses ==
  ASSUME NEW L, Ledgered(L), NEW c, NEW at
  PROVE  /\ Ledgered(Displace(L, c, at)) /\ Len(Displace(L, c, at)) <= Len(L)
         /\ Cmds(Displace(L, c, at)) \subseteq Cmds(L)
         /\ Open(Displace(L, c, at)) \subseteq Open(L) \ {c}
<1>1. CASE \E e \in ToSet(L) : e.cmd = c /\ e.phase = "pending"
  <2>1. Displace(L, c, at) = Without(L, c)
    BY <1>1 DEF Displace
  <2> QED
    BY <2>1, WithoutDrops
<1>2. CASE ~\E e \in ToSet(L) : e.cmd = c /\ e.phase = "pending"
  <2>1. PICK f : f = Displace(L, c, at)
    OBVIOUS
  <2>2. f = [i \in DOMAIN L |-> IF L[i].cmd = c THEN [L[i] EXCEPT !.displacedAt = at] ELSE L[i]]
    BY <1>2, <2>1 DEF Displace, Updated
  <2>3. ASSUME NEW i \in DOMAIN L
        PROVE  /\ f[i] = [cmd |-> L[i].cmd, phase |-> f[i].phase, since |-> f[i].since,
                          handoff |-> f[i].handoff, displacedAt |-> f[i].displacedAt]
               /\ f[i].phase \in {"pending", "confirmed"}
               /\ Displaced(f[i]) => f[i].phase = "confirmed"
               /\ f[i].phase = "pending" <=> L[i].phase = "pending" /\ L[i].cmd # c
               /\ f[i].cmd = L[i].cmd
    <3>1. PICK e : e = L[i]
      OBVIOUS
    <3>2. /\ e = [cmd |-> e.cmd, phase |-> e.phase, since |-> e.since, handoff |-> e.handoff,
                  displacedAt |-> e.displacedAt]
          /\ e.phase \in {"pending", "confirmed"} /\ (Displaced(e) => e.phase = "confirmed")
      BY <3>1 DEF Ledgered, Range
    <3>3. e.cmd = c => e.phase # "pending"
      BY <1>2, <3>1, SetIsRange DEF Range
    <3>4. f[i] = IF e.cmd = c THEN [e EXCEPT !.displacedAt = at] ELSE e
      BY <2>2, <3>1
    <3>5. [e EXCEPT !.displacedAt = at] =
            [cmd |-> e.cmd, phase |-> e.phase, since |-> e.since, handoff |-> e.handoff,
             displacedAt |-> at]
      BY <3>2
    <3> QED
      BY <3>1, <3>2, <3>3, <3>4, <3>5
  <2>4. f = [i \in DOMAIN L |-> f[i]]
    BY <2>2
  <2>5. Ledgered(f) /\ Len(f) = Len(L) /\ Cmds(f) = Cmds(L)
    BY <2>3, <2>4, ChangeKeeps
  <2>6. Open(f) \subseteq Open(L) \ {c}
    <3>1. DOMAIN f = DOMAIN L
      BY <2>2
    <3>2. \A i \in DOMAIN L : f[i].cmd = L[i].cmd
      BY <2>3
    <3>3. PICK S : S = {c}
      OBVIOUS
    <3>4. \A i \in DOMAIN L : f[i].phase = "pending" <=> L[i].phase = "pending" /\ L[i].cmd \notin S
      BY <2>3, <3>3
    <3>5. Open(f) = Open(L) \ S
      BY <3>1, <3>2, <3>4, ChangeLeavesOpen
    <3> QED
      BY <3>3, <3>5
  <2>7. Len(L) \in Nat
    BY ListedShape DEF Ledgered
  <2> QED
    BY <2>1, <2>5, <2>6, <2>7
<1> QED
  BY <1>1, <1>2

LEMMA CollectedKeeps ==
  ASSUME NEW L, Ledgered(L), NEW at, GlobalCap \in Nat
  PROVE  /\ Ledgered(Collected(L, at)) /\ Len(Collected(L, at)) <= GlobalCap
         /\ Cmds(Collected(L, at)) \subseteq Cmds(L)
         /\ Open(Collected(L, at)) \subseteq Open(L)
<1>1. PICK f : f = [i \in DOMAIN L |->
                      IF L[i].phase = "pending" /\ L[i].since = Never
                      THEN [L[i] EXCEPT !.since = at] ELSE L[i]]
  OBVIOUS
<1>2. PICK S : Collected(L, at) = WithinCaps(Only(f, S))
  BY <1>1 DEF Collected
<1>3. ASSUME NEW i \in DOMAIN L
      PROVE  /\ f[i] = [cmd |-> L[i].cmd, phase |-> f[i].phase, since |-> f[i].since,
                        handoff |-> f[i].handoff, displacedAt |-> f[i].displacedAt]
             /\ f[i].phase \in {"pending", "confirmed"}
             /\ Displaced(f[i]) => f[i].phase = "confirmed"
             /\ f[i].phase = L[i].phase /\ f[i].cmd = L[i].cmd
  <2>1. PICK e : e = L[i]
    OBVIOUS
  <2>2. /\ e = [cmd |-> e.cmd, phase |-> e.phase, since |-> e.since, handoff |-> e.handoff,
                displacedAt |-> e.displacedAt]
        /\ e.phase \in {"pending", "confirmed"} /\ (Displaced(e) => e.phase = "confirmed")
    BY <2>1 DEF Ledgered, Range
  <2>3. f[i] = IF e.phase = "pending" /\ e.since = Never THEN [e EXCEPT !.since = at] ELSE e
    BY <1>1, <2>1
  <2>4. [e EXCEPT !.since = at] =
          [cmd |-> e.cmd, phase |-> e.phase, since |-> at, handoff |-> e.handoff,
           displacedAt |-> e.displacedAt]
    BY <2>2
  <2>5. Displaced([e EXCEPT !.since = at]) <=> Displaced(e)
    BY <2>4 DEF Displaced
  <2> QED
    BY <2>1, <2>2, <2>3, <2>4, <2>5
<1>4. f = [i \in DOMAIN L |-> f[i]]
  BY <1>1
<1>5. Ledgered(f) /\ Cmds(f) = Cmds(L)
  BY <1>3, <1>4, ChangeKeeps
<1>6. Open(f) = Open(L)
  <2>1. DOMAIN f = DOMAIN L
    BY <1>1
  <2>2. \A i \in DOMAIN L : f[i].cmd = L[i].cmd
    BY <1>3
  <2>3. \A i \in DOMAIN L : f[i].phase = "pending" <=> L[i].phase = "pending" /\ L[i].cmd \notin {}
    BY <1>3
  <2>4. Open(f) = Open(L) \ {}
    BY <2>1, <2>2, <2>3, ChangeLeavesOpen
  <2> QED
    BY <2>4
<1>7. PICK t : t = Only(f, S) /\ Ledgered(t) /\ Range(t) \subseteq Range(f)
  BY <1>5, OnlyLedgered
<1>8. PICK u : u = WithinCaps(t) /\ Ledgered(u) /\ Range(u) \subseteq Range(t) /\ Len(u) <= GlobalCap
  BY <1>7, WithinCapsHold
<1>9. Cmds(u) \subseteq Cmds(f) /\ Open(u) \subseteq Open(f)
  BY <1>7, <1>8 DEF Cmds, Open
<1> QED
  BY <1>2, <1>5, <1>6, <1>7, <1>8, <1>9

\* Only an entry whose start is not known makes a capture wait.
LEMMA MatchWaits ==
  ASSUME NEW L, Ledgered(L), NEW sig, NEW at, Match(L, sig, at).phase = "pending"
  PROVE  Match(L, sig, at).cmd \in Open(L)
<1>1. PICK F : /\ F[1] \subseteq DOMAIN L /\ F[2] \subseteq DOMAIN L /\ F[3] \subseteq DOMAIN L
               /\ Match(L, sig, at) = Choice(L, F)
  <2>1. PICK A \in SUBSET DOMAIN L : A = {i \in DOMAIN L : Fits(L, L[i], sig, at, FALSE)}
    OBVIOUS
  <2>2. PICK B \in SUBSET DOMAIN L : B = {i \in DOMAIN L : Fits(L, L[i], sig, at, TRUE)}
    OBVIOUS
  <2>3. PICK C \in SUBSET DOMAIN L : C = {i \in DOMAIN L : FlushedEarly(L, i, sig, at)}
    OBVIOUS
  <2>4. Match(L, sig, at) = Choice(L, <<A, B, C>>)
    BY <2>1, <2>2, <2>3 DEF Match
  <2> QED
    BY <2>4
<1>2. PICK kinds \in SUBSET (1..3) : kinds = {k \in 1..3 : F[k] # {}}
  OBVIOUS
<1>3. Choice(L, F) = IF kinds = {} THEN NoMatch ELSE Hit(L[Max(F[Min(kinds)])])
  BY <1>2 DEF Choice
<1>4. kinds # {}
  BY <1>1, <1>3 DEF NoMatch
<1>5. PICK k \in kinds : k = Min(kinds)
  <2>1. kinds \in SUBSET Nat
    OBVIOUS
  <2> QED
    BY <1>4, <2>1, MinOf
<1>6. F[k] # {} /\ F[k] \subseteq DOMAIN L
  BY <1>1, <1>2
<1>7. Len(L) \in Nat /\ DOMAIN L = 1..Len(L) /\ 1..Len(L) \subseteq 0..Len(L)
  BY ListedShape DEF Ledgered
<1>8. PICK i \in DOMAIN L : i = Max(F[k])
  <2>1. PICK S \in SUBSET (0..Len(L)) : S = F[k] /\ S # {}
    BY <1>6, <1>7
  <2>2. Max(S) \in S
    BY <1>7, <2>1, MaxOf
  <2> QED
    BY <1>6, <2>1, <2>2
<1>9. Match(L, sig, at) = Hit(L[i])
  BY <1>1, <1>3, <1>4, <1>5, <1>8
<1> QED
  BY <1>9 DEF Hit, Open, Range

----------------------------------------------------------------------------
(* The consumer: what is held, what is settled, and the tables beside them. *)

Fields == {"ledger", "holds", "debounce", "starts", "exact", "settled", "dispatched",
           "proven", "deaf"}

HeldSet(L) == {Exact(h.cap) : h \in Range(L)}
HeldOnce(L) == \A i, j \in DOMAIN L : Exact(L[i].cap) = Exact(L[j].cap) => i = j

\* Everything the consumer took in and answers for.
Taken(r) == r.settled \cup HeldSet(r.holds)

Tables(r) ==
  /\ Ledgered(r.ledger) /\ Len(r.ledger) <= GlobalCap
  /\ Listed(r.holds) /\ Len(r.holds) <= HoldCap
  /\ Listed(r.debounce) /\ Len(r.debounce) <= CacheCap
  /\ Listed(r.starts) /\ Len(r.starts) <= CacheCap
  /\ Listed(r.exact) /\ Len(r.exact) <= CacheCap

Tidy(r) ==
  /\ DOMAIN r = Fields
  /\ Tables(r)
  /\ HeldOnce(r.holds)
  /\ HeldSet(r.holds) \cap r.settled = {}

LEMMA HeldAppend ==
  ASSUME NEW L, Listed(L), HeldOnce(L), NEW x, Exact(x.cap) \notin HeldSet(L)
  PROVE  /\ Listed(Append(L, x)) /\ HeldOnce(Append(L, x))
         /\ HeldSet(Append(L, x)) = HeldSet(L) \cup {Exact(x.cap)}
         /\ Len(Append(L, x)) = Len(L) + 1 /\ Range(Append(L, x)) = Range(L) \cup {x}
<1>1. PICK t : t = Append(L, x)
  OBVIOUS
<1>2. /\ Listed(t) /\ Range(t) = Range(L) \cup {x} /\ Len(t) = Len(L) + 1
      /\ t[Len(L) + 1] = x /\ \A i \in 1..Len(L) : t[i] = L[i]
  BY <1>1, AppendListed
<1>3. /\ Len(L) \in Nat /\ DOMAIN L = 1..Len(L) /\ Range(L) = {L[i] : i \in 1..Len(L)}
      /\ DOMAIN t = 1..Len(t)
  BY <1>2, ListedShape
<1>4. \A i \in 1..Len(L) : Exact(L[i].cap) # Exact(x.cap)
  BY <1>3 DEF HeldSet
<1>5. HeldOnce(t)
  <2>1. SUFFICES ASSUME NEW i \in 1..(Len(L) + 1), NEW j \in 1..(Len(L) + 1),
                        Exact(t[i].cap) = Exact(t[j].cap)
                 PROVE  i = j
    BY <1>2, <1>3 DEF HeldOnce
  <2>2. CASE i \in 1..Len(L) /\ j \in 1..Len(L)
    BY <1>2, <1>3, <2>1, <2>2 DEF HeldOnce
  <2>3. CASE i = Len(L) + 1 \/ j = Len(L) + 1
    BY <1>2, <1>3, <1>4, <2>1, <2>3
  <2> QED
    BY <1>3, <2>2, <2>3
<1>6. HeldSet(t) = HeldSet(L) \cup {Exact(x.cap)}
  BY <1>2 DEF HeldSet
<1> QED
  BY <1>1, <1>2, <1>5, <1>6

LEMMA HeldTail ==
  ASSUME NEW L, Listed(L), HeldOnce(L), L # <<>>
  PROVE  /\ Listed(Tail(L)) /\ HeldOnce(Tail(L)) /\ Head(L) \in Range(L)
         /\ HeldSet(Tail(L)) \cup {Exact(Head(L).cap)} = HeldSet(L)
         /\ Exact(Head(L).cap) \notin HeldSet(Tail(L))
         /\ Len(L) \in Nat \ {0} /\ Len(Tail(L)) = Len(L) - 1 /\ Range(Tail(L)) \subseteq Range(L)
<1>1. PICK t : t = Tail(L)
  OBVIOUS
<1>2. /\ Listed(t) /\ Range(L) = Range(t) \cup {Head(L)}
      /\ Len(L) \in Nat \ {0} /\ Len(t) = Len(L) - 1
      /\ \A i \in 1..Len(t) : t[i] = L[i + 1]
      /\ Head(L) = L[1]
  BY <1>1, TailListed
<1>3. DOMAIN L = 1..Len(L) /\ DOMAIN t = 1..Len(t) /\ Range(t) = {t[i] : i \in 1..Len(t)}
  BY <1>2, ListedShape
<1>4. HeldOnce(t)
  <2>1. SUFFICES ASSUME NEW i \in 1..Len(t), NEW j \in 1..Len(t), Exact(t[i].cap) = Exact(t[j].cap)
                 PROVE  i = j
    BY <1>3 DEF HeldOnce
  <2>2. i + 1 \in DOMAIN L /\ j + 1 \in DOMAIN L
    BY <1>2, <1>3
  <2>3. i + 1 = j + 1
    BY <1>2, <2>1, <2>2 DEF HeldOnce
  <2> QED
    BY <2>3
<1>5. Exact(Head(L).cap) \notin HeldSet(t)
  <2>1. SUFFICES ASSUME NEW i \in 1..Len(t), Exact(t[i].cap) = Exact(L[1].cap) PROVE FALSE
    BY <1>2, <1>3 DEF HeldSet
  <2>2. i + 1 \in DOMAIN L /\ 1 \in DOMAIN L /\ i + 1 # 1
    BY <1>2, <1>3
  <2> QED
    BY <1>2, <2>1, <2>2 DEF HeldOnce
<1>6. HeldSet(t) \cup {Exact(Head(L).cap)} = HeldSet(L)
  BY <1>2 DEF HeldSet
<1> QED
  BY <1>1, <1>2, <1>4, <1>5, <1>6

\* A part of what is held and the rest of it share no event.
LEMMA HeldOnly ==
  ASSUME NEW L, Listed(L), HeldOnce(L), NEW S
  PROVE  /\ Listed(Only(L, S)) /\ HeldOnce(Only(L, S)) /\ Range(Only(L, S)) = Range(L) \cap S
         /\ Len(Only(L, S)) <= Len(L)
         /\ HeldSet(Only(L, S)) \cup HeldSet(Only(L, Range(L) \ S)) = HeldSet(L)
         /\ HeldSet(Only(L, S)) \cap HeldSet(Only(L, Range(L) \ S)) = {}
<1>1. PICK t : t = Only(L, S)
  OBVIOUS
<1>2. /\ Listed(t) /\ Range(t) = Range(L) \cap S /\ Len(t) <= Len(L)
      /\ \E e : Part(t, L, e)
  BY <1>1, OnlyListed
<1>3. PICK e : Part(t, L, e)
  BY <1>2
<1>4. Len(t) \in Nat /\ DOMAIN t = 1..Len(t) /\ Len(L) \in Nat /\ DOMAIN L = 1..Len(L)
  BY <1>2, ListedShape
<1>5. HeldOnce(t)
  <2>1. SUFFICES ASSUME NEW i \in 1..Len(t), NEW j \in 1..Len(t), Exact(t[i].cap) = Exact(t[j].cap)
                 PROVE  i = j
    BY <1>4 DEF HeldOnce
  <2>2. e[i] \in DOMAIN L /\ e[j] \in DOMAIN L /\ t[i] = L[e[i]] /\ t[j] = L[e[j]]
    BY <1>3, <1>4 DEF Part
  <2>3. e[i] = e[j]
    BY <2>1, <2>2 DEF HeldOnce
  <2>4. e[i] \in Int /\ i \in Int /\ j \in Int
    BY <1>4, <2>2
  <2> QED
    BY <1>3, <2>1, <2>3, <2>4 DEF Part
<1>6. Range(Only(L, Range(L) \ S)) = Range(L) \ S
  BY OnlyListed
<1>7. HeldSet(t) \cup HeldSet(Only(L, Range(L) \ S)) = HeldSet(L)
  BY <1>2, <1>6 DEF HeldSet
<1>8. HeldSet(t) \cap HeldSet(Only(L, Range(L) \ S)) = {}
  <2>1. SUFFICES ASSUME NEW g \in Range(L) \cap S, NEW h \in Range(L) \ S, Exact(g.cap) = Exact(h.cap)
                 PROVE  FALSE
    BY <1>2, <1>6 DEF HeldSet
  <2>2. PICK i \in DOMAIN L, j \in DOMAIN L : g = L[i] /\ h = L[j]
    BY <2>1 DEF Range
  <2> QED
    BY <2>1, <2>2 DEF HeldOnce
<1> QED
  BY <1>1, <1>2, <1>5, <1>7, <1>8

\* What settling a capture leaves: the event is settled, the rest as it was.
SettledTo(r, s, ev) ==
  /\ Tidy(s)
  /\ s.ledger = r.ledger /\ s.holds = r.holds /\ s.exact = r.exact /\ s.starts = r.starts
  /\ s.settled = r.settled \cup {ev}

LEMMA StampedKept ==
  ASSUME NEW r, Tidy(r), NEW cap, NEW at, CacheCap \in Nat
  PROVE  Listed(Stamped(r, cap, at)) /\ Len(Stamped(r, cap, at)) <= CacheCap
<1>1. PICK S : Stamped(r, cap, at) =
                 Newest(Append(Only(r.debounce, S),
                               [sig |-> cap.sig, heard |-> cap.heard, seen |-> at]), CacheCap)
  BY DEF Stamped
<1>2. PICK t : t = Only(r.debounce, S) /\ Listed(t)
  BY OnlyListed DEF Tidy, Tables
<1>3. PICK u : u = Append(t, [sig |-> cap.sig, heard |-> cap.heard, seen |-> at]) /\ Listed(u)
  BY <1>2, AppendListed
<1>4. Stamped(r, cap, at) = Newest(u, CacheCap)
  BY <1>1, <1>2, <1>3
<1> QED
  BY <1>3, <1>4, NewestListed

LEMMA DispatchSettles ==
  ASSUME NEW r, Tidy(r), NEW cap, Exact(cap) \notin HeldSet(r.holds),
         NEW received, NEW at, CacheCap \in Nat
  PROVE  SettledTo(r, DispatchPress(r, cap, received, at), Exact(cap))
<1>1. PICK ev : ev = Exact(cap)
  OBVIOUS
<1>2. PICK done : done = [r EXCEPT !.settled = @ \cup {ev}]
  OBVIOUS
<1>3. PICK S : S = Superseding(r, cap, received)
  OBVIOUS
<1>4. PICK stamped : stamped = Stamped(r, cap, at)
  OBVIOUS
<1>5. PICK deaf : deaf = (done.deaf \/ \A s \in S : cap.received < s.at)
  OBVIOUS
<1>6. PICK presses : presses = Append(done.dispatched, cap)
  OBVIOUS
<1>7. PICK s : s = DispatchPress(r, cap, received, at)
  OBVIOUS
<1>8. \/ s = done
      \/ s = [done EXCEPT !.deaf = deaf]
      \/ s = [done EXCEPT !.debounce = stamped, !.dispatched = presses]
  <2>1. s = CASE OlderThanAPress(r, cap) -> done
              [] ~OlderThanAPress(r, cap) /\ S # {} -> [done EXCEPT !.deaf = deaf]
              [] ~OlderThanAPress(r, cap) /\ S = {} /\ Debounced(r, cap) -> done
              [] OTHER -> [done EXCEPT !.debounce = stamped, !.dispatched = presses]
    BY <1>1, <1>2, <1>3, <1>4, <1>5, <1>6, <1>7 DEF DispatchPress
  <2> QED
    BY <2>1
<1>9. /\ DOMAIN done = Fields /\ done.settled = r.settled \cup {ev}
      /\ done.ledger = r.ledger /\ done.holds = r.holds /\ done.exact = r.exact
      /\ done.starts = r.starts /\ done.debounce = r.debounce
  BY <1>2 DEF Tidy, Fields
<1>10. /\ DOMAIN s = Fields /\ s.settled = r.settled \cup {ev}
       /\ s.ledger = r.ledger /\ s.holds = r.holds /\ s.exact = r.exact /\ s.starts = r.starts
       /\ s.debounce = r.debounce \/ s.debounce = stamped
  BY <1>8, <1>9 DEF Fields
<1>11. Listed(stamped) /\ Len(stamped) <= CacheCap
  BY <1>4, StampedKept
<1>12. Tables(s)
  BY <1>10, <1>11 DEF Tidy, Tables
<1>13. HeldSet(s.holds) \cap s.settled = {} /\ HeldOnce(s.holds)
  BY <1>1, <1>10 DEF Tidy
<1> QED
  BY <1>1, <1>7, <1>10, <1>12, <1>13 DEF SettledTo, Tidy

LEMMA SettleSettles ==
  ASSUME NEW r, Tidy(r), NEW cap, Exact(cap) \notin HeldSet(r.holds), NEW match,
         NEW received, NEW at, CacheCap \in Nat
  PROVE  SettledTo(r, SettleAs(r, cap, match, received, at), Exact(cap))
<1>1. CASE match.phase = "confirmed"
  <2>1. PICK s : s = SettleAs(r, cap, match, received, at)
    OBVIOUS
  <2>2. PICK ev : ev = Exact(cap)
    OBVIOUS
  <2>3. PICK proven : s = [r EXCEPT !.settled = @ \cup {ev}, !.proven = proven]
    BY <1>1, <2>1, <2>2 DEF SettleAs, Echo
  <2>4. /\ DOMAIN s = Fields /\ s.settled = r.settled \cup {ev}
        /\ s.ledger = r.ledger /\ s.holds = r.holds /\ s.exact = r.exact /\ s.starts = r.starts
        /\ s.debounce = r.debounce
    BY <2>3 DEF Tidy, Fields
  <2>5. Tables(s)
    BY <2>4 DEF Tidy, Tables
  <2>6. HeldSet(s.holds) \cap s.settled = {} /\ HeldOnce(s.holds)
    BY <2>2, <2>4 DEF Tidy
  <2> QED
    BY <2>1, <2>2, <2>4, <2>5, <2>6 DEF SettledTo, Tidy
<1>2. CASE match.phase # "confirmed"
  <2>1. SettleAs(r, cap, match, received, at) = DispatchPress(r, cap, received, at)
    BY <1>2 DEF SettleAs
  <2> QED
    BY <2>1, DispatchSettles
<1> QED
  BY <1>1, <1>2

\* What a classification leaves: the events E are answered for, and a hold
\* that is new waits for a command whose start is not known.
ClassifiedTo(r, s, E, at) ==
  /\ Tidy(s)
  /\ s.ledger = r.ledger /\ s.exact = r.exact
  /\ Taken(s) = Taken(r) \cup E
  /\ \A h \in Range(s.holds) :
       h \in Range(r.holds) \/ (h.cmd \in Open(r.ledger) /\ h.seen = at)

LEMMA HoldHolds ==
  ASSUME NEW r, Tidy(r), NEW cap, Exact(cap) \notin Taken(r), NEW c \in Open(r.ledger),
         NEW at, CacheCap \in Nat, HoldCap \in Nat \ {0}
  PROVE  ClassifiedTo(r, Hold(r, cap, c, at), {Exact(cap)}, at)
<1>1. PICK x : /\ x = [cap |-> cap, cmd |-> c, seen |-> at]
               /\ x.cap = cap /\ x.cmd = c /\ x.seen = at
  <2>1. PICK x : x = [cap |-> cap, cmd |-> c, seen |-> at]
    OBVIOUS
  <2>2. x.cap = cap /\ x.cmd = c /\ x.seen = at
    BY <2>1
  <2> QED
    BY <2>1, <2>2
<1>2. PICK all : all = Append(r.holds, x)
  OBVIOUS
<1>3. Listed(r.holds) /\ HeldOnce(r.holds) /\ Len(r.holds) <= HoldCap
  BY DEF Tidy, Tables
<1>4. /\ Listed(all) /\ HeldOnce(all)
      /\ HeldSet(all) = HeldSet(r.holds) \cup {Exact(cap)}
      /\ Len(all) = Len(r.holds) + 1 /\ Range(all) = Range(r.holds) \cup {x}
  BY <1>1, <1>2, <1>3, HeldAppend DEF Taken
<1>5. Len(all) \in Nat /\ Len(r.holds) \in Nat
  BY <1>3, <1>4, ListedShape
<1>6. PICK s : s = Hold(r, cap, c, at)
  OBVIOUS
<1>7. HeldSet(all) \cap r.settled = {}
  BY <1>4 DEF Tidy, Taken
<1>8. CASE Len(all) <= HoldCap
  <2>1. s = [r EXCEPT !.holds = all]
    BY <1>1, <1>2, <1>6, <1>8 DEF Hold
  <2>2. /\ DOMAIN s = Fields /\ s.settled = r.settled /\ s.ledger = r.ledger /\ s.holds = all
        /\ s.exact = r.exact /\ s.starts = r.starts /\ s.debounce = r.debounce
    BY <2>1 DEF Tidy, Fields
  <2>3. Tidy(s)
    BY <1>4, <1>7, <1>8, <2>2 DEF Tidy, Tables
  <2>4. Taken(s) = Taken(r) \cup {Exact(cap)}
    BY <1>4, <2>2 DEF Taken
  <2> QED
    BY <1>1, <1>4, <1>6, <2>2, <2>3, <2>4 DEF ClassifiedTo
<1>9. CASE ~(Len(all) <= HoldCap)
  <2>1. PICK old : old = Head(all)
    OBVIOUS
  <2>2. PICK rest : rest = Tail(all)
    OBVIOUS
  <2>3. PICK q : q = [r EXCEPT !.holds = rest]
    OBVIOUS
  <2>4. all # <<>>
    BY <1>5, <1>9, EmptyListed
  <2>5. /\ Listed(rest) /\ HeldOnce(rest)
        /\ HeldSet(rest) \cup {Exact(old.cap)} = HeldSet(all)
        /\ Exact(old.cap) \notin HeldSet(rest)
        /\ Len(rest) = Len(all) - 1 /\ Range(rest) \subseteq Range(all)
    BY <1>4, <2>1, <2>2, <2>4, HeldTail
  <2>6. /\ DOMAIN q = Fields /\ q.settled = r.settled /\ q.ledger = r.ledger /\ q.holds = rest
        /\ q.exact = r.exact /\ q.starts = r.starts /\ q.debounce = r.debounce
    BY <2>3 DEF Tidy, Fields
  <2>7. Len(rest) <= HoldCap
    BY <1>3, <1>4, <1>5, <2>5
  <2>8. Tidy(q)
    BY <1>7, <2>5, <2>6, <2>7 DEF Tidy, Tables
  <2>9. PICK match : s = SettleAs(q, old.cap, match, old.seen, at)
    BY <1>1, <1>2, <1>6, <1>9, <2>1, <2>2, <2>3 DEF Hold, Settle
  <2>10. SettledTo(q, s, Exact(old.cap))
    BY <2>5, <2>6, <2>8, <2>9, SettleSettles
  <2>11. Taken(s) = Taken(r) \cup {Exact(cap)}
    BY <1>4, <2>5, <2>6, <2>10 DEF Taken, SettledTo
  <2>12. \A h \in Range(s.holds) : h \in Range(r.holds) \/ (h.cmd \in Open(r.ledger) /\ h.seen = at)
    BY <1>1, <1>4, <2>5, <2>6, <2>10 DEF SettledTo
  <2> QED
    BY <1>6, <2>6, <2>10, <2>11, <2>12 DEF ClassifiedTo, SettledTo
<1> QED
  BY <1>8, <1>9

LEMMA ClassifyClassifies ==
  ASSUME NEW r, Tidy(r), NEW cap, Exact(cap) \notin Taken(r), NEW received,
         NEW at, CacheCap \in Nat, HoldCap \in Nat \ {0}
  PROVE  ClassifiedTo(r, Classify(r, cap, received, TRUE, at), {Exact(cap)}, at)
<1>1. PICK match : match = Match(r.ledger, cap.sig, cap.heard)
  OBVIOUS
<1>2. PICK s : s = Classify(r, cap, received, TRUE, at)
  OBVIOUS
<1>3. CASE match.phase = "pending"
  <2>1. match.cmd \in Open(r.ledger)
    BY <1>1, <1>3, MatchWaits DEF Tidy, Tables
  <2>2. s = Hold(r, cap, match.cmd, at)
    BY <1>1, <1>2, <1>3 DEF Classify, ClassifyAs
  <2> QED
    BY <1>2, <2>1, <2>2, HoldHolds
<1>4. CASE match.phase # "pending"
  <2>1. s = SettleAs(r, cap, match, received, at)
    BY <1>1, <1>2, <1>4 DEF Classify, ClassifyAs
  <2>2. SettledTo(r, s, Exact(cap))
    BY <2>1, SettleSettles DEF Taken
  <2> QED
    BY <1>2, <2>2 DEF ClassifiedTo, SettledTo, Taken
<1> QED
  BY <1>3, <1>4

LEMMA SettleClassifies ==
  ASSUME NEW r, Tidy(r), NEW cap, Exact(cap) \notin Taken(r), NEW received,
         NEW at, CacheCap \in Nat
  PROVE  /\ ClassifiedTo(r, Classify(r, cap, received, FALSE, at), {Exact(cap)}, at)
         /\ Classify(r, cap, received, FALSE, at).holds = r.holds
<1>1. PICK match : match = Match(r.ledger, cap.sig, cap.heard)
  OBVIOUS
<1>2. PICK s : s = Classify(r, cap, received, FALSE, at)
  OBVIOUS
<1>3. s = SettleAs(r, cap, match, received, at)
  BY <1>1, <1>2 DEF Classify, ClassifyAs
<1>4. SettledTo(r, s, Exact(cap))
  BY <1>3, SettleSettles DEF Taken
<1> QED
  BY <1>2, <1>4 DEF ClassifiedTo, SettledTo, Taken

\* The fold of ClassifyAll, spelled out so that it can be named: the library
\* defines it on the subsets of the positions, greatest position first.
FoldStep(r, held, hold, at, iter, T) ==
  IF T = {} THEN r
  ELSE Classify(iter[T \ {Max(T)}], held[Max(T)].cap, held[Max(T)].seen, hold, at)

FoldRec(r, held, hold, at, iter) ==
  iter = [T \in SUBSET DOMAIN held |-> FoldStep(r, held, hold, at, iter, T)]

\* What the fold has made of the first n captures.
ClassifyStep(r, held, hold, at, f, n) ==
  IF n = 0 THEN r
  ELSE Classify(f[n - 1], held[n].cap, held[n].seen, hold, at)

ClassifyRec(r, held, hold, at, f, n) ==
  f = [i \in 0..n |-> ClassifyStep(r, held, hold, at, f, i)]

\* Every recursive call of the fold is for a smaller set.
LEMMA SmallerFold ==
  ASSUME NEW n \in Nat, NEW T \in SUBSET (1..n), T # {}
  PROVE  /\ Max(T) \in T /\ T \ {Max(T)} \in SUBSET (1..n)
         /\ Cardinality(T \ {Max(T)}) = Cardinality(T) - 1
         /\ Cardinality(T) \in Nat \ {0}
<1>1. IsFiniteSet(T)
  <2>1. IsFiniteSet(1..n)
    BY FS_Interval
  <2> QED
    BY <2>1, FS_Subset
<1>2. T \in SUBSET (0..n)
  OBVIOUS
<1>3. PICK x \in T : x = Max(T)
  BY <1>2, MaxOf
<1>4. Cardinality(T \ {x}) = Cardinality(T) - 1
  BY <1>1, <1>3, FS_RemoveElement
<1>5. Cardinality(T) \in Nat \ {0}
  BY <1>1, FS_CardinalityType, FS_EmptySet
<1> QED
  BY <1>3, <1>4, <1>5

\* The fold is an entry of a function that satisfies its recursion.
LEMMA FoldUnfolds ==
  ASSUME NEW r, NEW held, NEW hold, NEW at, Len(held) \in Nat, DOMAIN held = 1..Len(held)
  PROVE  \E iter : /\ FoldRec(r, held, hold, at, iter)
                   /\ ClassifyAll(r, held, hold, at) = iter[DOMAIN held]
<1> DEFINE S == DOMAIN held
           Reached(iter, k) == iter = [T \in Small(S, k) |-> FoldStep(r, held, hold, at, iter, T)]
           W == {k \in Nat : \E iter : Reached(iter, k)}
<1>1. /\ Cardinality(S) \in Nat
      /\ \A T \in SUBSET S : /\ IsFiniteSet(T) /\ Cardinality(T) \in Nat
                              /\ Cardinality(T) <= Cardinality(S)
  <2>1. IsFiniteSet(S)
    BY FS_Interval
  <2> QED
    BY <2>1, FS_CardinalityType, FS_Subset
<1>2. 0 \in W
  <2>1. \A T \in Small(S, 0) : T = {}
    BY <1>1, FS_EmptySet DEF Small
  <2>2. Reached([T \in Small(S, 0) |-> r], 0)
    BY <2>1 DEF FoldStep
  <2> QED
    BY <2>2
<1>3. ASSUME NEW k \in 1..Cardinality(S), k - 1 \in W PROVE k \in W
  <2>1. PICK h : Reached(h, k - 1)
    BY <1>3
  <2> DEFINE g == [T \in Small(S, k) |->
                     IF Cardinality(T) = k THEN FoldStep(r, held, hold, at, h, T) ELSE h[T]]
  <2>2. \A T \in Small(S, k - 1) : h[T] = FoldStep(r, held, hold, at, h, T)
    BY <2>1
  <2>3. ASSUME NEW T \in Small(S, k) PROVE g[T] = FoldStep(r, held, hold, at, g, T)
    <3>1. ASSUME T # {} PROVE g[T \ {Max(T)}] = h[T \ {Max(T)}]
      <4>1. PICK U : U = T \ {Max(T)}
        OBVIOUS
      <4>2. U \in Small(S, k) /\ Cardinality(U) # k
        BY <1>1, <3>1, <4>1, SmallerFold DEF Small
      <4> QED
        BY <4>1, <4>2
    <3>2. FoldStep(r, held, hold, at, g, T) = FoldStep(r, held, hold, at, h, T)
      <4> HIDE DEF g
      <4> QED
        BY <3>1 DEF FoldStep
    <3>3. Cardinality(T) # k => T \in Small(S, k - 1)
      BY <1>1 DEF Small
    <3>4. g[T] = IF Cardinality(T) = k THEN FoldStep(r, held, hold, at, h, T) ELSE h[T]
      OBVIOUS
    <3> QED
      BY <2>2, <3>2, <3>3, <3>4
  <2>4. Reached(g, k)
    <3>1. g = [T \in Small(S, k) |-> g[T]]
      OBVIOUS
    <3> HIDE DEF g
    <3> QED
      BY <2>3, <3>1
  <2>5. k \in Nat
    OBVIOUS
  <2> QED
    BY <2>4, <2>5
<1>4. \E iter : FoldRec(r, held, hold, at, iter)
  <2>1. Small(S, Cardinality(S)) = SUBSET S
    BY <1>1 DEF Small
  <2>2. Cardinality(S) \in W
    <3> HIDE DEF W
    <3>1. \A k \in 0..Cardinality(S) : k \in W
      BY <1>1, <1>2, <1>3, Induction
    <3> QED
      BY <1>1, <3>1
  <2> QED
    BY <2>1, <2>2 DEF FoldRec
<1>5. ClassifyAll(r, held, hold, at) = (CHOOSE iter : FoldRec(r, held, hold, at, iter))[DOMAIN held]
  BY DEF ClassifyAll, FoldLeft, MapThenFoldSet, FoldRec, FoldStep
<1>6. PICK iter : iter = CHOOSE g : FoldRec(r, held, hold, at, g)
  OBVIOUS
<1> QED
  BY <1>4, <1>5, <1>6

LEMMA ClassifyUnfolds ==
  ASSUME NEW r, NEW held, NEW hold, NEW at, Len(held) \in Nat, DOMAIN held = 1..Len(held)
  PROVE  \E f : /\ ClassifyRec(r, held, hold, at, f, Len(held))
                /\ ClassifyAll(r, held, hold, at) = f[Len(held)]
<1>1. PICK iter : /\ FoldRec(r, held, hold, at, iter)
                  /\ ClassifyAll(r, held, hold, at) = iter[DOMAIN held]
  BY FoldUnfolds
<1> DEFINE f == [i \in 0..Len(held) |-> iter[1..i]]
<1>2. ASSUME NEW i \in 0..Len(held) PROVE f[i] = ClassifyStep(r, held, hold, at, f, i)
  <2>1. 1..i \in SUBSET DOMAIN held
    OBVIOUS
  <2>2. f[i] = FoldStep(r, held, hold, at, iter, 1..i)
    BY <1>1, <2>1 DEF FoldRec
  <2>3. CASE i = 0
    BY <2>2, <2>3 DEF FoldStep, ClassifyStep
  <2>4. CASE i # 0
    <3>1. i \in Nat /\ i - 1 \in 0..Len(held) /\ 1..i # {} /\ (1..i) \ {i} = 1..(i - 1)
      BY <2>4
    <3>2. Max(1..i) \in 1..i /\ i <= Max(1..i)
      <4>1. 1..i \in SUBSET (0..i) /\ i \in 1..i
        BY <3>1
      <4> QED
        BY <3>1, <4>1, MaxOf
    <3>3. Max(1..i) = i
      <4>1. PICK m \in 1..i : m = Max(1..i) /\ i <= m
        BY <3>2
      <4> QED
        BY <3>1, <4>1
    <3>4. f[i] = Classify(iter[1..(i - 1)], held[i].cap, held[i].seen, hold, at)
      BY <2>2, <3>1, <3>3 DEF FoldStep
    <3>5. f[i - 1] = iter[1..(i - 1)]
      BY <3>1
    <3> HIDE DEF f
    <3> QED
      BY <2>4, <3>4, <3>5 DEF ClassifyStep
  <2> QED
    BY <2>3, <2>4
<1>3. ClassifyRec(r, held, hold, at, f, Len(held))
  <2>1. f = [i \in 0..Len(held) |-> f[i]]
    OBVIOUS
  <2> HIDE DEF f
  <2> QED
    BY <1>2, <2>1 DEF ClassifyRec
<1>4. f[Len(held)] = iter[DOMAIN held]
  OBVIOUS
<1> QED
  BY <1>1, <1>3, <1>4

\* The events of the first n held captures.
Upto(held, n) == {Exact(held[i].cap) : i \in 1..n}

LEMMA ClassifyAllClassifies ==
  ASSUME NEW r, Tidy(r), NEW held, Listed(held), HeldOnce(held),
         HeldSet(held) \cap Taken(r) = {}, NEW hold \in BOOLEAN,
         NEW at, CacheCap \in Nat, HoldCap \in Nat \ {0}
  PROVE  /\ ClassifiedTo(r, ClassifyAll(r, held, hold, at), HeldSet(held), at)
         /\ ~hold => ClassifyAll(r, held, hold, at).holds = r.holds
<1>1. Len(held) \in Nat /\ DOMAIN held = 1..Len(held) /\ Range(held) = {held[i] : i \in 1..Len(held)}
  BY ListedShape
<1>2. PICK f : /\ ClassifyRec(r, held, hold, at, f, Len(held))
               /\ ClassifyAll(r, held, hold, at) = f[Len(held)]
  BY <1>1, ClassifyUnfolds
<1>3. \A k \in 0..Len(held) : f[k] = ClassifyStep(r, held, hold, at, f, k)
  BY <1>2 DEF ClassifyRec
<1> DEFINE T == {k \in 0..Len(held) : /\ ClassifiedTo(r, f[k], Upto(held, k), at)
                                      /\ ~hold => f[k].holds = r.holds}
<1>4. 0 \in T
  <2>1. f[0] = r
    BY <1>1, <1>3 DEF ClassifyStep
  <2>2. Upto(held, 0) = {}
    BY DEF Upto
  <2>3. ClassifiedTo(r, r, {}, at)
    BY DEF ClassifiedTo
  <2>4. ClassifiedTo(r, f[0], Upto(held, 0), at) /\ f[0].holds = r.holds
    BY <2>1, <2>2, <2>3
  <2>5. 0 \in 0..Len(held)
    BY <1>1
  <2> QED
    BY <2>4, <2>5
<1>5. ASSUME NEW k \in 1..Len(held), k - 1 \in T PROVE k \in T
  <2>1. PICK q : q = f[k - 1] /\ ClassifiedTo(r, q, Upto(held, k - 1), at) /\ (~hold => q.holds = r.holds)
    BY <1>5
  <2>2. PICK h : h = held[k]
    OBVIOUS
  <2>3. PICK s : s = f[k]
    OBVIOUS
  <2>4. s = Classify(q, h.cap, h.seen, hold, at)
    <3>1. k \in 0..Len(held) /\ k # 0
      BY <1>1
    <3> QED
      BY <1>3, <2>1, <2>2, <2>3, <3>1 DEF ClassifyStep
  <2>5. Exact(h.cap) \notin Taken(q)
    <3>1. Exact(h.cap) \notin Taken(r)
      BY <1>1, <2>2 DEF HeldSet
    <3>2. ASSUME NEW i \in 1..(k - 1), Exact(held[i].cap) = Exact(h.cap) PROVE FALSE
      <4>1. i \in DOMAIN held /\ k \in DOMAIN held /\ i # k
        BY <1>1
      <4> QED
        BY <2>2, <3>2, <4>1 DEF HeldOnce
    <3> QED
      BY <2>1, <3>1, <3>2 DEF ClassifiedTo, Upto
  <2>6. Upto(held, k) = Upto(held, k - 1) \cup {Exact(h.cap)}
    <3>1. 1..k = (1..(k - 1)) \cup {k}
      BY <1>1
    <3> QED
      BY <2>2, <3>1 DEF Upto
  <2>7. Tidy(q) /\ q.ledger = r.ledger
    BY <2>1 DEF ClassifiedTo
  <2>8. ClassifiedTo(q, s, {Exact(h.cap)}, at) /\ (~hold => s.holds = q.holds)
    <3>1. CASE hold
      BY <2>4, <2>5, <2>7, <3>1, ClassifyClassifies
    <3>2. CASE ~hold
      <4>1. hold = FALSE
        BY <3>2
      <4>2. s = Classify(q, h.cap, h.seen, FALSE, at)
        BY <2>4, <4>1
      <4> QED
        BY <2>5, <2>7, <4>2, SettleClassifies
    <3> QED
      BY <3>1, <3>2
  <2>9. ClassifiedTo(r, s, Upto(held, k), at)
    BY <2>1, <2>6, <2>8 DEF ClassifiedTo
  <2>10. k \in 0..Len(held)
    BY <1>1
  <2> QED
    BY <2>1, <2>3, <2>8, <2>9, <2>10
<1>6. Len(held) \in T
  <2> HIDE DEF T
  <2>1. \A k \in 0..Len(held) : k \in T
    BY <1>1, <1>4, <1>5, Induction
  <2> QED
    BY <1>1, <2>1
<1>7. Upto(held, Len(held)) = HeldSet(held)
  BY <1>1 DEF Upto, HeldSet
<1> QED
  BY <1>2, <1>6, <1>7

LEMMA YoungKept ==
  ASSUME NEW s, Listed(s), NEW at
  PROVE  /\ Listed(Young(s, at)) /\ Len(Young(s, at)) <= Len(s)
         /\ Range(Young(s, at)) = {x \in Range(s) : at - x.seen <= CacheTtl}
         /\ \E e : Part(Young(s, at), s, e)
<1>1. PICK S : S = {x \in Range(s) : at - x.seen <= CacheTtl} /\ Young(s, at) = Only(s, S)
  BY SetIsRange DEF Young
<1>2. PICK t : t = Only(s, S)
  OBVIOUS
<1>3. /\ Listed(t) /\ Range(t) = Range(s) \cap S /\ Len(t) <= Len(s)
      /\ \E e : Part(t, s, e)
  BY <1>2, OnlyListed
<1> QED
  BY <1>1, <1>2, <1>3

\* What a collection leaves: no event is lost, no hold is too old, and the
\* ledger has no entry that it had not.
MaintainedTo(r, s, at) ==
  /\ Tidy(s)
  /\ Cmds(s.ledger) \subseteq Cmds(r.ledger) /\ Open(s.ledger) \subseteq Open(r.ledger)
  /\ s.exact = Young(r.exact, at)
  /\ Taken(s) = Taken(r)
  /\ Range(s.holds) \subseteq {h \in Range(r.holds) : ~HeldTooLong(h, at)}

LEMMA MaintainMaintains ==
  ASSUME NEW r, Tidy(r), NEW at, CacheCap \in Nat, HoldCap \in Nat \ {0}, GlobalCap \in Nat
  PROVE  MaintainedTo(r, Maintain(r, at), at)
<1>1. PICK old : old = {h \in Range(r.holds) : HeldTooLong(h, at)}
  OBVIOUS
<1>2. PICK L : L = r.holds /\ Listed(L) /\ HeldOnce(L) /\ Len(L) <= HoldCap
  BY DEF Tidy, Tables
<1>3. PICK kept, others : others = Range(L) \ old /\ kept = Only(L, others)
  OBVIOUS
<1>4. PICK gone : gone = Only(L, old)
  OBVIOUS
<1>5. PICK ledger : ledger = Collected(r.ledger, at)
  OBVIOUS
<1>6. PICK exact : exact = Young(r.exact, at)
  OBVIOUS
<1>7. PICK debounce : debounce = Young(r.debounce, at)
  OBVIOUS
<1>8. PICK starts : starts = Young(r.starts, at)
  OBVIOUS
<1>9. PICK clean : clean = [r EXCEPT !.ledger = ledger, !.exact = exact, !.debounce = debounce,
                                     !.starts = starts, !.holds = kept]
  OBVIOUS
<1>10. Maintain(r, at) = ClassifyAll(clean, gone, FALSE, at)
  BY <1>1, <1>2, <1>3, <1>4, <1>5, <1>6, <1>7, <1>8, <1>9, SetIsRange DEF Maintain
<1>11. /\ DOMAIN clean = Fields /\ clean.ledger = ledger /\ clean.exact = exact
       /\ clean.debounce = debounce /\ clean.starts = starts /\ clean.holds = kept
       /\ clean.settled = r.settled
  <2>1. PICK q : q = [r EXCEPT !.ledger = ledger, !.exact = exact, !.debounce = debounce]
    OBVIOUS
  <2>2. /\ DOMAIN q = Fields /\ q.ledger = ledger /\ q.exact = exact /\ q.debounce = debounce
        /\ q.settled = r.settled
    BY <2>1 DEF Tidy, Fields
  <2>3. clean = [q EXCEPT !.starts = starts, !.holds = kept]
    BY <1>9, <2>1
  <2> QED
    BY <2>2, <2>3 DEF Fields
<1>12. /\ Listed(gone) /\ HeldOnce(gone) /\ Range(gone) = old
       /\ HeldSet(gone) \cup HeldSet(kept) = HeldSet(L)
       /\ HeldSet(gone) \cap HeldSet(kept) = {}
  BY <1>1, <1>2, <1>3, <1>4, HeldOnly
<1>13. Listed(kept) /\ HeldOnce(kept) /\ Range(kept) = Range(L) \ old /\ Len(kept) <= Len(L)
  <2>1. Listed(kept) /\ HeldOnce(kept) /\ Range(kept) = Range(L) \cap others /\ Len(kept) <= Len(L)
    BY <1>2, <1>3, HeldOnly
  <2> QED
    BY <1>3, <2>1
<1>14. /\ Ledgered(ledger) /\ Len(ledger) <= GlobalCap
       /\ Cmds(ledger) \subseteq Cmds(r.ledger) /\ Open(ledger) \subseteq Open(r.ledger)
  BY <1>5, CollectedKeeps DEF Tidy, Tables
<1>15. /\ Listed(r.exact) /\ Len(r.exact) <= CacheCap /\ Len(r.exact) \in Nat
       /\ Listed(r.debounce) /\ Len(r.debounce) <= CacheCap /\ Len(r.debounce) \in Nat
       /\ Listed(r.starts) /\ Len(r.starts) <= CacheCap /\ Len(r.starts) \in Nat
  BY ListedShape DEF Tidy, Tables
<1>16. Listed(exact) /\ Len(exact) <= CacheCap
  <2>1. Listed(exact) /\ Len(exact) <= Len(r.exact)
    BY <1>6, <1>15, YoungKept
  <2>2. Len(exact) \in Nat
    BY <2>1, ListedShape
  <2> QED
    BY <1>15, <2>1, <2>2
<1>17. Listed(debounce) /\ Len(debounce) <= CacheCap
  <2>1. Listed(debounce) /\ Len(debounce) <= Len(r.debounce)
    BY <1>7, <1>15, YoungKept
  <2>2. Len(debounce) \in Nat
    BY <2>1, ListedShape
  <2> QED
    BY <1>15, <2>1, <2>2
<1>18. Listed(starts) /\ Len(starts) <= CacheCap
  <2>1. Listed(starts) /\ Len(starts) <= Len(r.starts)
    BY <1>8, <1>15, YoungKept
  <2>2. Len(starts) \in Nat
    BY <2>1, ListedShape
  <2> QED
    BY <1>15, <2>1, <2>2
<1>19. Len(kept) <= HoldCap
  <2>1. Len(kept) \in Nat /\ Len(L) \in Nat
    BY <1>2, <1>13, ListedShape
  <2> QED
    BY <1>2, <1>13, <2>1
<1>20. HeldSet(L) \cap r.settled = {}
  BY <1>2 DEF Tidy
<1>21. Tidy(clean)
  BY <1>11, <1>12, <1>13, <1>14, <1>16, <1>17, <1>18, <1>19, <1>20 DEF Tidy, Tables
<1>22. HeldSet(gone) \cap Taken(clean) = {}
  BY <1>11, <1>12, <1>20 DEF Taken
<1>23. PICK s : s = ClassifyAll(clean, gone, FALSE, at)
  OBVIOUS
<1>24. ClassifiedTo(clean, s, HeldSet(gone), at) /\ s.holds = clean.holds
  BY <1>12, <1>21, <1>22, <1>23, ClassifyAllClassifies
<1>25. Taken(s) = Taken(r)
  BY <1>2, <1>11, <1>12, <1>24 DEF Taken, ClassifiedTo
<1>26. Range(s.holds) \subseteq {h \in Range(r.holds) : ~HeldTooLong(h, at)}
  BY <1>1, <1>2, <1>11, <1>13, <1>24
<1> QED
  BY <1>6, <1>10, <1>11, <1>14, <1>23, <1>24, <1>25, <1>26 DEF MaintainedTo, ClassifiedTo

\* What a resumption leaves for commands other than c, whose start is known.
ResumedTo(r, s, c, at) ==
  /\ Tidy(s)
  /\ Cmds(s.ledger) \subseteq Cmds(r.ledger) /\ Open(s.ledger) \subseteq Open(r.ledger)
  /\ s.exact = Young(r.exact, at)
  /\ Taken(s) = Taken(r)
  /\ \A h \in Range(s.holds) :
       /\ ~HeldTooLong(h, at)
       /\ \/ h \in Range(r.holds) /\ h.cmd # c
          \/ h.cmd \in Open(r.ledger) /\ h.seen = at

LEMMA ResumeResumes ==
  ASSUME NEW r, Tidy(r), NEW c, NEW at, CacheCap \in Nat, HoldCap \in Nat \ {0}, GlobalCap \in Nat
  PROVE  ResumedTo(r, ResumeHolds(r, c, at), c, at)
<1>1. PICK waited : waited = {h \in Range(r.holds) : h.cmd = c}
  OBVIOUS
<1>2. PICK L : L = r.holds /\ Listed(L) /\ HeldOnce(L) /\ Len(L) <= HoldCap
  BY DEF Tidy, Tables
<1>3. PICK kept, others : others = Range(L) \ waited /\ kept = Only(L, others)
  OBVIOUS
<1>4. PICK gone : gone = Only(L, waited)
  OBVIOUS
<1>5. PICK rest : rest = [r EXCEPT !.holds = kept]
  OBVIOUS
<1>6. PICK q : q = ClassifyAll(rest, gone, TRUE, at)
  OBVIOUS
<1>7. ResumeHolds(r, c, at) = Maintain(q, at)
  BY <1>1, <1>2, <1>3, <1>4, <1>5, <1>6, SetIsRange DEF ResumeHolds
<1>8. /\ DOMAIN rest = Fields /\ rest.ledger = r.ledger /\ rest.exact = r.exact
      /\ rest.debounce = r.debounce /\ rest.starts = r.starts /\ rest.holds = kept
      /\ rest.settled = r.settled
  BY <1>5 DEF Tidy, Fields
<1>9. /\ Listed(gone) /\ HeldOnce(gone) /\ Range(gone) = waited
      /\ HeldSet(gone) \cup HeldSet(kept) = HeldSet(L)
      /\ HeldSet(gone) \cap HeldSet(kept) = {}
  BY <1>1, <1>2, <1>3, <1>4, HeldOnly
<1>10. Listed(kept) /\ HeldOnce(kept) /\ Range(kept) = Range(L) \ waited /\ Len(kept) <= Len(L)
  <2>1. Listed(kept) /\ HeldOnce(kept) /\ Range(kept) = Range(L) \cap others /\ Len(kept) <= Len(L)
    BY <1>2, <1>3, HeldOnly
  <2> QED
    BY <1>3, <2>1
<1>11. Len(kept) <= HoldCap
  <2>1. Len(kept) \in Nat /\ Len(L) \in Nat
    BY <1>2, <1>10, ListedShape
  <2> QED
    BY <1>2, <1>10, <2>1
<1>12. HeldSet(L) \cap r.settled = {}
  BY <1>2 DEF Tidy
<1>13. Tidy(rest)
  <2>1. Tables(rest)
    BY <1>8, <1>10, <1>11 DEF Tidy, Tables
  <2> QED
    BY <1>8, <1>9, <1>10, <1>12, <2>1 DEF Tidy
<1>14. HeldSet(gone) \cap Taken(rest) = {}
  BY <1>8, <1>9, <1>12 DEF Taken
<1>15. ClassifiedTo(rest, q, HeldSet(gone), at)
  BY <1>6, <1>9, <1>13, <1>14, ClassifyAllClassifies
<1>16. PICK s : s = Maintain(q, at)
  OBVIOUS
<1>17. MaintainedTo(q, s, at)
  BY <1>15, <1>16, MaintainMaintains DEF ClassifiedTo
<1>18. q.ledger = r.ledger /\ q.exact = r.exact /\ Taken(q) = Taken(r)
  BY <1>2, <1>8, <1>9, <1>15 DEF ClassifiedTo, Taken
<1>19. \A h \in Range(q.holds) : \/ h \in Range(r.holds) /\ h.cmd # c
                                 \/ h.cmd \in Open(r.ledger) /\ h.seen = at
  BY <1>1, <1>2, <1>8, <1>10, <1>15 DEF ClassifiedTo
<1> QED
  BY <1>7, <1>16, <1>17, <1>18, <1>19 DEF MaintainedTo, ResumedTo

\* A start that is recorded changes the table of starts alone.
LEMMA StartRecorded ==
  ASSUME NEW r, Tidy(r), NEW c, NEW t, NEW at, CacheCap \in Nat
  PROVE  LET s == RecordCommandedStart(r, c, t, at)
         IN  /\ Tidy(s) /\ Taken(s) = Taken(r)
             /\ s.ledger = r.ledger /\ s.holds = r.holds /\ s.exact = r.exact
<1>1. PICK young : young = Young(r.starts, at) /\ Listed(young)
  BY YoungKept DEF Tidy, Tables
<1>2. PICK S, x : RecordCommandedStart(r, c, t, at) =
                    [r EXCEPT !.starts = Newest(Append(Only(young, S), x), CacheCap)]
  BY <1>1 DEF RecordCommandedStart
<1>3. PICK u : u = Only(young, S) /\ Listed(u)
  BY <1>1, OnlyListed
<1>4. PICK v : v = Append(u, x) /\ Listed(v)
  BY <1>3, AppendListed
<1>5. PICK starts : starts = Newest(v, CacheCap) /\ Listed(starts) /\ Len(starts) <= CacheCap
  BY <1>4, NewestListed
<1>6. PICK s : s = [r EXCEPT !.starts = starts]
  OBVIOUS
<1>7. s = RecordCommandedStart(r, c, t, at)
  BY <1>2, <1>3, <1>4, <1>5, <1>6
<1>8. /\ DOMAIN s = Fields /\ s.ledger = r.ledger /\ s.holds = r.holds /\ s.exact = r.exact
      /\ s.debounce = r.debounce /\ s.settled = r.settled /\ s.starts = starts
  BY <1>6 DEF Tidy, Fields
<1>9. Tidy(s) /\ Taken(s) = Taken(r)
  BY <1>5, <1>8 DEF Tidy, Tables, Taken
<1> QED
  BY <1>7, <1>8, <1>9

\* What a report leaves: remembered already, or remembered and answered for.
HandledTo(r, s, ev, at) ==
  /\ Tidy(s)
  /\ Cmds(s.ledger) \subseteq Cmds(r.ledger) /\ Open(s.ledger) \subseteq Open(r.ledger)
  /\ LET young == Young(r.exact, at)
     IN  \/ /\ \E x \in Range(young) : x.event = ev
            /\ s.exact = young /\ Taken(s) = Taken(r)
         \/ /\ ~\E x \in Range(young) : x.event = ev
            /\ s.exact = Newest(Append(young, [event |-> ev, seen |-> at]), CacheCap)
            /\ Taken(s) = Taken(r) \cup {ev}
  /\ \A h \in Range(s.holds) :
       h \in Range(r.holds) \/ (h.cmd \in Open(r.ledger) /\ h.seen = at)

LEMMA HandleHandles ==
  ASSUME NEW r, Tidy(r), NEW cap, NEW at, CacheCap \in Nat, HoldCap \in Nat \ {0}, GlobalCap \in Nat,
         Exact(cap) \in Taken(r) => \E x \in Range(Young(r.exact, at)) : x.event = Exact(cap)
  PROVE  HandledTo(r, HandleRx(r, cap, at), Exact(cap), at)
<1>1. PICK ev : ev = Exact(cap)
  OBVIOUS
<1>2. PICK q : q = Maintain(r, at) /\ MaintainedTo(r, q, at)
  BY MaintainMaintains
<1>3. PICK young : young = Young(r.exact, at) /\ q.exact = young
  BY <1>2 DEF MaintainedTo
<1>4. Tidy(q) /\ Listed(young)
  BY <1>2, <1>3 DEF MaintainedTo, Tidy, Tables
<1>5. PICK s : s = HandleRx(r, cap, at)
  OBVIOUS
<1>6. s = Remember(q, cap, at)
  BY <1>2, <1>5 DEF HandleRx
<1>7. CASE \E x \in Range(young) : x.event = ev
  <2>1. s = q
    BY <1>1, <1>3, <1>6, <1>7, SetIsRange DEF Remember
  <2> QED
    BY <1>1, <1>2, <1>3, <1>5, <1>7, <2>1 DEF HandledTo, MaintainedTo
<1>8. CASE ~\E x \in Range(young) : x.event = ev
  <2>1. PICK key : key = [event |-> ev, seen |-> at]
    OBVIOUS
  <2>2. PICK u : u = Append(young, key) /\ Listed(u)
    BY <1>4, AppendListed
  <2>3. PICK exact : exact = Newest(u, CacheCap) /\ Listed(exact) /\ Len(exact) <= CacheCap
    BY <2>2, NewestListed
  <2>4. PICK p : p = [q EXCEPT !.exact = exact]
    OBVIOUS
  <2>5. s = Classify(p, cap, at, TRUE, at)
    BY <1>1, <1>3, <1>6, <1>8, <2>1, <2>2, <2>3, <2>4, SetIsRange DEF Remember
  <2>6. /\ DOMAIN p = Fields /\ p.ledger = q.ledger /\ p.holds = q.holds /\ p.exact = exact
        /\ p.debounce = q.debounce /\ p.settled = q.settled /\ p.starts = q.starts
    BY <1>4, <2>4 DEF Tidy, Fields
  <2>7. Tidy(p)
    BY <1>4, <2>3, <2>6 DEF Tidy, Tables
  <2>8. Taken(p) = Taken(r)
    BY <1>2, <2>6 DEF MaintainedTo, Taken
  <2>9. ev \notin Taken(r)
    BY <1>1, <1>3, <1>8
  <2>10. ClassifiedTo(p, s, {ev}, at)
    BY <1>1, <2>5, <2>7, <2>8, <2>9, ClassifyClassifies
  <2>11. s.exact = Newest(Append(young, [event |-> ev, seen |-> at]), CacheCap)
    BY <2>1, <2>2, <2>3, <2>6, <2>10 DEF ClassifiedTo
  <2>12. Taken(s) = Taken(r) \cup {ev}
    BY <2>8, <2>10 DEF ClassifiedTo
  <2>13. Cmds(s.ledger) \subseteq Cmds(r.ledger) /\ Open(s.ledger) \subseteq Open(r.ledger)
    BY <1>2, <2>6, <2>10 DEF ClassifiedTo, MaintainedTo
  <2>14. \A h \in Range(s.holds) : h \in Range(r.holds) \/ (h.cmd \in Open(r.ledger) /\ h.seen = at)
    BY <1>2, <2>6, <2>10 DEF ClassifiedTo, MaintainedTo
  <2> QED
    BY <1>1, <1>3, <1>5, <1>8, <2>10, <2>11, <2>12, <2>13, <2>14 DEF HandledTo, ClassifiedTo
<1> QED
  BY <1>7, <1>8

----------------------------------------------------------------------------
(* The memory of what was heard: how many events it can have to tell apart. *)

LEMMA ImageSmall ==
  ASSUME NEW S, IsFiniteSet(S), NEW T, NEW f \in [S -> T], \A y \in T : \E x \in S : y = f[x]
  PROVE  IsFiniteSet(T) /\ Cardinality(T) <= Cardinality(S)
<1>1. f \in Surjection(S, T)
  BY DEF Surjection
<1> QED
  BY <1>1, FS_Surjection

\* An event by a bridge at an instant: told by its sender's frame.
EventOf(ev) == ev = [by |-> ev.by, at |-> ev.at, sig |-> ev.sig]

\* At one instant every bridge can report what few senders sent.
LEMMA InstantSmall ==
  ASSUME NEW W, NEW S, NEW t, IsFiniteSet(Bridge), IsFiniteSet(S), Cardinality(S) <= Cardinality(Bridge),
         \A ev \in W : EventOf(ev) /\ ev.by \in Bridge /\ ev.at = t /\ ev.sig \in S
  PROVE  IsFiniteSet(W) /\ Cardinality(W) <= Cardinality(Bridge) * Cardinality(Bridge)
<1>1. PICK P : P = Bridge \X S
  OBVIOUS
<1>2. IsFiniteSet(P) /\ Cardinality(P) = Cardinality(Bridge) * Cardinality(S)
  BY <1>1, FS_Product
<1>3. PICK f : f = [ev \in W |-> <<ev.by, ev.sig>>]
  OBVIOUS
<1>4. f \in Injection(W, P)
  <2>1. f \in [W -> P]
    BY <1>1, <1>3
  <2>2. ASSUME NEW a \in W, NEW b \in W, f[a] = f[b] PROVE a = b
    <3>1. a.by = b.by /\ a.sig = b.sig /\ a.at = b.at
      BY <1>3, <2>2
    <3>2. /\ a = [by |-> a.by, at |-> a.at, sig |-> a.sig]
          /\ b = [by |-> b.by, at |-> b.at, sig |-> b.sig]
      BY DEF EventOf
    <3> QED
      BY <3>1, <3>2
  <2> QED
    BY <2>1, <2>2 DEF Injection, IsInjective
<1>5. IsFiniteSet(W) /\ Cardinality(W) <= Cardinality(P)
  BY <1>2, <1>4, FS_Injection
<1>6. \A a, b, c \in Nat : c <= b => a * c <= a * b
  OBVIOUS
<1>7. Cardinality(Bridge) \in Nat /\ Cardinality(S) \in Nat /\ Cardinality(W) \in Nat
  BY <1>5, FS_CardinalityType
<1>8. Cardinality(Bridge) * Cardinality(S) <= Cardinality(Bridge) * Cardinality(Bridge)
  BY <1>6, <1>7
<1>9. PICK n \in Nat, m \in Nat : n = Cardinality(Bridge) * Cardinality(S)
                                  /\ m = Cardinality(Bridge) * Cardinality(Bridge)
  BY <1>7
<1> QED
  BY <1>2, <1>5, <1>7, <1>8, <1>9

\* Over n instants: as many times as many.
LEMMA WindowSmall ==
  ASSUME NEW W, NEW lo \in Int, NEW n \in Nat, NEW Q \in Nat,
         \A ev \in W : ev.at \in lo..(lo + n - 1),
         \A t \in Int : /\ IsFiniteSet({ev \in W : ev.at = t})
                        /\ Cardinality({ev \in W : ev.at = t}) <= Q
  PROVE  IsFiniteSet(W) /\ Cardinality(W) <= Q * n
<1> DEFINE Early(k) == {ev \in W : ev.at < lo + k}
           T == {k \in 0..n : IsFiniteSet(Early(k)) /\ Cardinality(Early(k)) <= Q * k}
<1>1. 0 \in T
  <2>1. Early(0) = {}
    OBVIOUS
  <2>2. 0 \in 0..n /\ Q * 0 = 0
    OBVIOUS
  <2>3. IsFiniteSet(Early(0)) /\ Cardinality(Early(0)) <= Q * 0
    <3>1. PICK E : E = Early(0) /\ E = {}
      BY <2>1
    <3>2. IsFiniteSet(E) /\ Cardinality(E) = 0
      BY <3>1, FS_EmptySet
    <3> QED
      BY <2>2, <3>1, <3>2
  <2> QED
    BY <2>2, <2>3
<1>2. ASSUME NEW k \in 1..n, k - 1 \in T PROVE k \in T
  <2>1. PICK E : E = Early(k - 1) /\ IsFiniteSet(E) /\ Cardinality(E) <= Q * (k - 1)
    BY <1>2
  <2>2. PICK t \in Int : t = lo + k - 1
    OBVIOUS
  <2>3. PICK D : D = {ev \in W : ev.at = t} /\ IsFiniteSet(D) /\ Cardinality(D) <= Q
    OBVIOUS
  <2>4. Early(k) = E \cup D
    <3>1. \A ev \in W : ev.at < lo + k <=> ev.at < lo + (k - 1) \/ ev.at = lo + k - 1
      OBVIOUS
    <3> QED
      BY <2>1, <2>2, <2>3, <3>1
  <2>5. /\ IsFiniteSet(E \cup D) /\ Cardinality(E \cup D) = Cardinality(E) + Cardinality(D) - Cardinality(E \cap D)
        /\ IsFiniteSet(E \cap D)
    <3>1. E \cap D \subseteq E
      OBVIOUS
    <3> QED
      BY <2>1, <2>3, <3>1, FS_Union, FS_Subset
  <2>6. Cardinality(E) \in Nat /\ Cardinality(D) \in Nat /\ Cardinality(E \cap D) \in Nat
    BY <2>1, <2>3, <2>5, FS_CardinalityType
  <2>7. Q * (k - 1) + Q = Q * k /\ Q * (k - 1) \in Int /\ Q * k \in Int
    OBVIOUS
  <2>8. Cardinality(E \cup D) <= Q * k
    BY <2>1, <2>3, <2>5, <2>6, <2>7
  <2>9. k \in 0..n
    OBVIOUS
  <2> QED
    BY <2>4, <2>5, <2>8, <2>9
<1>3. n \in T
  <2> HIDE DEF T
  <2>1. \A k \in 0..n : k \in T
    BY <1>1, <1>2, Induction
  <2> QED
    BY <2>1
<1>4. Early(n) = W
  <2>1. \A ev \in W : ev.at < lo + n
    OBVIOUS
  <2> QED
    BY <2>1
<1> QED
  BY <1>3, <1>4

\* The memory is in the order in which events were taken in, each of them once.
Memo(E) == \A i, j \in DOMAIN E : i < j => E[i].seen <= E[j].seen /\ E[i].event # E[j].event

EventsIn(E) == {x.event : x \in Range(E)}

LEMMA MemoYoung ==
  ASSUME NEW E, Listed(E), Memo(E), NEW at
  PROVE  Memo(Young(E, at))
<1>1. PICK t : t = Young(E, at)
  OBVIOUS
<1>2. Listed(t) /\ \E e : Part(t, E, e)
  BY <1>1, YoungKept
<1>3. PICK e : Part(t, E, e)
  BY <1>2
<1>4. DOMAIN t = 1..Len(t) /\ DOMAIN E = 1..Len(E)
  BY <1>2, ListedShape
<1>5. ASSUME NEW i \in 1..Len(t), NEW j \in 1..Len(t), i < j
      PROVE  t[i].seen <= t[j].seen /\ t[i].event # t[j].event
  <2>1. e[i] \in DOMAIN E /\ e[j] \in DOMAIN E /\ e[i] < e[j] /\ t[i] = E[e[i]] /\ t[j] = E[e[j]]
    BY <1>3, <1>4, <1>5 DEF Part
  <2> QED
    BY <2>1 DEF Memo
<1> QED
  BY <1>1, <1>4, <1>5 DEF Memo

\* A new event enters a memory; only its oldest may have to go, and only when
\* it is full.
LEMMA MemoNewest ==
  ASSUME NEW E, Listed(E), Memo(E), CacheCap \in Nat \ {0}, Len(E) <= CacheCap, NEW at \in Int,
         NEW key, key.seen = at, key.event \notin EventsIn(E),
         \A x \in Range(E) : x.seen \in Int /\ x.seen <= at
  PROVE  LET t == Newest(Append(E, key), CacheCap)
         IN  /\ Memo(t) /\ Range(t) \subseteq Range(E) \cup {key}
             /\ key \in Range(t)
             /\ \A x \in Range(E) :
                  \/ x \in Range(t)
                  \/ Len(E) = CacheCap /\ \A y \in Range(E) : x.seen <= y.seen
<1>1. PICK u : u = Append(E, key)
  OBVIOUS
<1>2. PICK n \in Nat : n = Len(E) /\ DOMAIN E = 1..n /\ Range(E) = {E[i] : i \in 1..n}
  BY ListedShape
<1>3. /\ Listed(u) /\ Range(u) = Range(E) \cup {key} /\ Len(u) = n + 1
      /\ u[n + 1] = key /\ \A i \in 1..n : u[i] = E[i]
  BY <1>1, <1>2, AppendListed
<1>4. PICK t : /\ t = Newest(u, CacheCap)
               /\ \E k \in Nat :
                    /\ Listed(t) /\ Len(t) <= CacheCap
                    /\ Len(t) + k = Len(u) /\ \A i \in 1..Len(t) : t[i] = u[i + k]
                    /\ Len(u) <= CacheCap => t = u
                    /\ Len(u) > CacheCap => Len(t) = CacheCap
  BY <1>3, NewestListed
<1>5. PICK k \in Nat : /\ Listed(t) /\ Len(t) <= CacheCap
                       /\ Len(t) + k = n + 1 /\ \A i \in 1..Len(t) : t[i] = u[i + k]
                       /\ n + 1 <= CacheCap => t = u
                       /\ n + 1 > CacheCap => Len(t) = CacheCap
  BY <1>3, <1>4
<1>6. PICK m \in Nat : m = Len(t) /\ DOMAIN t = 1..m /\ Range(t) = {t[i] : i \in 1..m}
  BY <1>5, ListedShape
<1>7. m >= 1 /\ m + k = n + 1 /\ (k = 0 \/ (k = 1 /\ n = CacheCap))
  <2>1. CASE n + 1 <= CacheCap
    BY <1>2, <1>3, <1>5, <1>6, <2>1
  <2>2. CASE n + 1 > CacheCap
    <3>1. n = CacheCap /\ m = CacheCap
      BY <1>2, <1>5, <1>6, <2>2
    <3> QED
      BY <1>5, <1>6, <3>1
  <2> QED
    BY <2>1, <2>2
<1>8. ASSUME NEW i \in 1..(n + 1), NEW j \in 1..(n + 1), i < j
      PROVE  u[i].seen <= u[j].seen /\ u[i].event # u[j].event
  <2>1. i \in 1..n /\ u[i] = E[i] /\ u[i] \in Range(E)
    BY <1>2, <1>3, <1>8
  <2>2. CASE j \in 1..n
    BY <1>2, <1>3, <1>8, <2>1, <2>2 DEF Memo
  <2>3. CASE j = n + 1
    BY <1>3, <2>1, <2>3 DEF EventsIn
  <2> QED
    BY <2>2, <2>3
<1>9. Memo(t)
  <2>1. ASSUME NEW i \in 1..m, NEW j \in 1..m, i < j
        PROVE  t[i].seen <= t[j].seen /\ t[i].event # t[j].event
    <3>1. i + k \in 1..(n + 1) /\ j + k \in 1..(n + 1) /\ i + k < j + k
      BY <1>7, <2>1
    <3>2. t[i] = u[i + k] /\ t[j] = u[j + k]
      BY <1>5, <1>6
    <3> QED
      BY <1>8, <3>1, <3>2
  <2> QED
    BY <1>6, <2>1 DEF Memo
<1>10. Range(t) \subseteq Range(E) \cup {key}
  <2>1. ASSUME NEW i \in 1..m PROVE t[i] \in Range(u)
    <3>1. t[i] = u[i + k] /\ i + k \in DOMAIN u
      <4>1. DOMAIN u = 1..(n + 1)
        BY <1>3, ListedShape
      <4> QED
        BY <1>5, <1>6, <1>7, <4>1
    <3> QED
      BY <3>1 DEF Range
  <2> QED
    BY <1>3, <1>6, <2>1
<1>11. key \in Range(t)
  <2>1. m \in 1..m /\ m + k = n + 1
    BY <1>7
  <2>2. t[m] = u[n + 1]
    BY <1>5, <1>6, <2>1
  <2> QED
    BY <1>3, <1>6, <2>1, <2>2
<1>12. ASSUME NEW x \in Range(E), x \notin Range(t)
       PROVE  n = CacheCap /\ \A y \in Range(E) : x.seen <= y.seen
  <2>1. PICK i \in 1..n : x = E[i] /\ x = u[i]
    BY <1>2, <1>3
  <2>2. k = 1 /\ n = CacheCap /\ i = 1
    <3>1. CASE i - k \in 1..m
      <4>1. t[i - k] = u[i - k + k] /\ i - k + k = i
        BY <1>5, <1>6, <3>1
      <4> QED
        BY <1>6, <1>12, <2>1, <3>1, <4>1
    <3>2. CASE i - k \notin 1..m
      BY <1>7, <3>2
    <3> QED
      BY <3>1, <3>2
  <2>3. ASSUME NEW y \in Range(E) PROVE x.seen <= y.seen
    <3>1. PICK j \in 1..n : y = E[j]
      BY <1>2
    <3>2. CASE j = 1
      <4>1. y = x /\ x.seen \in Int
        BY <2>1, <2>2, <3>1, <3>2
      <4> QED
        BY <4>1
    <3>3. CASE j # 1
      <4>1. 1 \in DOMAIN E /\ j \in DOMAIN E /\ 1 < j /\ x = E[1]
        <5>1. x = E[1] /\ DOMAIN E = 1..n
          BY <1>2, <2>1, <2>2
        <5>2. 1 \in 1..n /\ 1 < j
          BY <3>3
        <5> QED
          BY <5>1, <5>2
      <4> QED
        BY <3>1, <4>1 DEF Memo
    <3> QED
      BY <3>2, <3>3
  <2> QED
    BY <2>2, <2>3
<1> QED
  BY <1>1, <1>2, <1>4, <1>9, <1>10, <1>11, <1>12

LEMMA MemoCount ==
  ASSUME NEW E, Listed(E), Memo(E), NEW V, IsFiniteSet(V), EventsIn(E) \subseteq V
  PROVE  Len(E) <= Cardinality(V)
<1>1. PICK n \in Nat : n = Len(E) /\ DOMAIN E = 1..n /\ Range(E) = {E[i] : i \in 1..n}
  BY ListedShape
<1>2. PICK f : f = [i \in 1..n |-> E[i].event]
  OBVIOUS
<1>3. f \in Injection(1..n, V)
  <2>1. f \in [1..n -> V]
    BY <1>1, <1>2 DEF EventsIn
  <2>2. ASSUME NEW i \in 1..n, NEW j \in 1..n, f[i] = f[j] PROVE i = j
    <3>1. E[i].event = E[j].event
      BY <1>2, <2>2
    <3>2. ~(i < j) /\ ~(j < i)
      BY <1>1, <3>1 DEF Memo
    <3> QED
      BY <3>2
  <2> QED
    BY <2>1, <2>2 DEF Injection, IsInjective
<1>4. Cardinality(1..n) <= Cardinality(V)
  BY <1>3, FS_Injection
<1>5. Cardinality(1..n) = n
  BY FS_Interval
<1> QED
  BY <1>1, <1>4, <1>5

\* An event is close to the oldest report and to the present, or is the present one.
LEMMA NearBy ==
  ASSUME NEW at \in Int, NEW R \in Nat, NEW a \in Int, a <= at,
         \/ at - a <= R
         \/ \E b \in Int : \E c \in Int : \E d \in Int :
              d <= c /\ c <= b /\ b <= a + R /\ b <= at /\ at - d <= R
  PROVE  at - 2 * R <= a /\ a <= at - 2 * R + (2 * R + 1) - 1
<1>1. CASE at - a <= R
  BY <1>1
<1>2. CASE \E b \in Int : \E c \in Int : \E d \in Int :
             d <= c /\ c <= b /\ b <= a + R /\ b <= at /\ at - d <= R
  <2>1. PICK b \in Int, c \in Int, d \in Int :
          d <= c /\ c <= b /\ b <= a + R /\ b <= at /\ at - d <= R
    BY <1>2
  <2> QED
    BY <2>1
<1> QED
  BY <1>1, <1>2

\* No event that is still reported is forgotten: a memory whose oldest one
\* were would be full of events too close to it to be that many.
LEMMA MemoryLasts ==
  ASSUME SyncAssumption, NEW E, Listed(E), Memo(E), Len(E) = CacheCap, NEW at \in Int,
         NEW V, EventsIn(E) \subseteq V,
         \A ev \in V : EventOf(ev) /\ ev.by \in Bridge /\ ev.at \in Int,
         \A t \in Int : LET S == {ev.sig : ev \in {x \in V : x.at = t}}
                        IN  IsFiniteSet(S) /\ Cardinality(S) <= Cardinality(Bridge),
         \A x \in Range(E) : /\ x.seen \in Int /\ x.seen <= at
                             /\ x.event.at <= x.seen /\ x.seen <= x.event.at + ReportDelay,
         NEW x \in Range(E), \A y \in Range(E) : x.seen <= y.seen, at - x.event.at <= ReportDelay,
         NEW ev \in V, ev \notin EventsIn(E), ev.at <= at, at - ev.at <= ReportDelay
  PROVE  FALSE
<1>1. ReportDelay \in Nat /\ IsFiniteSet(Bridge) /\ CacheCap \in Nat
  BY DEF SyncAssumption
<1>2. PICK lo \in Int, n \in Nat : lo = at - 2 * ReportDelay /\ n = 2 * ReportDelay + 1
  BY <1>1
<1>3. PICK Q \in Nat : Q = Cardinality(Bridge) * Cardinality(Bridge)
  <2>1. PICK b \in Nat : b = Cardinality(Bridge)
    BY <1>1, FS_CardinalityType
  <2>2. b * b \in Nat
    OBVIOUS
  <2> QED
    BY <2>1, <2>2
<1>4. PICK W : W = EventsIn(E) \cup {ev}
  OBVIOUS
<1>5. ASSUME NEW w \in W PROVE w.at \in lo..(lo + n - 1)
  <2>1. w.at \in Int
    BY <1>4
  <2>2. CASE w = ev
    <3>1. PICK R \in Nat, a \in Int : R = ReportDelay /\ a = w.at
      BY <1>1, <2>1
    <3>2. a <= at /\ at - a <= R
      BY <2>2, <3>1
    <3>3. lo = at - 2 * R /\ n = 2 * R + 1
      BY <1>2, <3>1
    <3>4. at - 2 * R <= a /\ a <= at - 2 * R + (2 * R + 1) - 1
      BY <3>1, <3>2, NearBy
    <3> QED
      BY <3>1, <3>3, <3>4
  <2>3. CASE w \in EventsIn(E)
    <3>1. PICK y \in Range(E) : w = y.event
      BY <2>3 DEF EventsIn
    <3>2. x.event.at \in Int
      BY DEF EventsIn
    <3>3. x.event.at <= x.seen /\ x.seen <= y.seen /\ y.seen <= y.event.at + ReportDelay
      OBVIOUS
    <3>4. y.seen \in Int /\ x.seen \in Int /\ y.seen <= at /\ y.event.at <= y.seen
      OBVIOUS
    <3>5. PICK R \in Nat, a \in Int, b \in Int, c \in Int, d \in Int :
            R = ReportDelay /\ a = w.at /\ b = y.seen /\ c = x.seen /\ d = x.event.at
      BY <1>1, <2>1, <3>2, <3>4
    <3>6. d <= c /\ c <= b /\ b <= a + R /\ b <= at /\ a <= b /\ at - d <= R
      BY <3>1, <3>3, <3>4, <3>5
    <3>7. lo = at - 2 * R /\ n = 2 * R + 1
      BY <1>2, <3>5
    <3>8. at - 2 * R <= a /\ a <= at - 2 * R + (2 * R + 1) - 1
      <4>1. a <= at
        BY <3>6
      <4> QED
        BY <3>6, <4>1, NearBy
    <3> QED
      BY <3>5, <3>7, <3>8
  <2> QED
    BY <1>4, <2>2, <2>3
<1>6. ASSUME NEW t \in Int
      PROVE  IsFiniteSet({w \in W : w.at = t}) /\ Cardinality({w \in W : w.at = t}) <= Q
  <2>1. PICK S : S = {w.sig : w \in {v \in V : v.at = t}} /\ IsFiniteSet(S) /\ Cardinality(S) <= Cardinality(Bridge)
    OBVIOUS
  <2>2. PICK D : D = {w \in W : w.at = t}
    OBVIOUS
  <2>3. \A w \in D : EventOf(w) /\ w.by \in Bridge /\ w.at = t /\ w.sig \in S
    BY <1>4, <2>1, <2>2
  <2>4. IsFiniteSet(D) /\ Cardinality(D) <= Cardinality(Bridge) * Cardinality(Bridge)
    BY <1>1, <2>1, <2>3, InstantSmall
  <2> QED
    BY <1>3, <2>2, <2>4
<1>7. IsFiniteSet(W) /\ Cardinality(W) <= Q * n
  BY <1>5, <1>6, WindowSmall
<1>8. Q * n <= CacheCap
  BY <1>2, <1>3 DEF SyncAssumption
<1>9. EventsIn(E) = W \ {ev}
  BY <1>4
<1>10. IsFiniteSet(W \ {ev}) /\ Cardinality(W \ {ev}) = Cardinality(W) - 1
  BY <1>4, <1>7, FS_RemoveElement
<1>11. Len(E) <= Cardinality(W \ {ev})
  BY <1>9, <1>10, MemoCount
<1>12. PICK a \in Nat, b \in Nat, c \in Nat : a = Cardinality(W) /\ b = Q * n /\ c = CacheCap
  <2>1. Cardinality(W) \in Nat /\ Q * n \in Nat
    BY <1>7, FS_CardinalityType
  <2> QED
    BY <1>1, <2>1
<1>13. a <= b /\ b <= c /\ c <= a - 1
  BY <1>7, <1>8, <1>10, <1>11, <1>12
<1> QED
  BY <1>13

----------------------------------------------------------------------------
(* The invariant.  A capture that waits, waits for a command whose caller   *)
(* is still in _async_execute; the age of a hold is counted from the last   *)
(* sweep; and what can still be reported is few enough to be remembered.    *)

Waited(c) == c \in Command /\ phase[c] \in {"published", "known", "displaced"}

\* What was or may yet be taken in.
Events == {Exact(m) : m \in air} \cup Taken(rx)
SigsAt(t) == {ev.sig : ev \in {x \in Events : x.at = t}}

Jobs == [cmd : Command, button : Buttons, left : Int]

Typed ==
  /\ now \in 0..MaxTime /\ cast \in Casts
  /\ swept \in 0..now /\ now - swept <= Interval
  /\ phase \in [Command -> Phases] /\ fate \in [Command -> Fates]
  /\ queued \subseteq cast \cap Command
  /\ \A c \in Command : phase[c] # "new" => c \in cast
  /\ sent \in [Command -> {Never} \cup 0..now]
  /\ start \in [Command -> {Never} \cup 0..now]
  /\ anchor \in [Command -> {Never} \cup 0..now]
  /\ \A c \in Command : anchor[c] # Never => start[c] # Never /\ start[c] <= anchor[c]
  /\ radio \in [Bridge -> Seq(Jobs)]
  /\ spoken \in [Press -> {Never} \cup 0..now]

Grounded ==
  /\ Cmds(rx.ledger) \subseteq cast
  /\ \A c \in Open(rx.ledger) : Waited(c)
  /\ \A h \in Range(rx.holds) :
       Waited(h.cmd) /\ h.seen \in 0..now /\ swept - h.seen <= HoldTtl

Dated ==
  /\ \A m \in air : /\ DOMAIN m = {"src", "sig", "at", "by", "heard", "received"}
                    /\ now - m.at <= ReportDelay /\ m.sig.button \in Buttons
  /\ \A ev \in Events : /\ EventOf(ev) /\ ev.by \in Bridge /\ ev.at \in 0..now
                        /\ ev.at = now => \E p \in Press : spoken[p] = now
  /\ \A t \in Int : IsFiniteSet(SigsAt(t)) /\ Cardinality(SigsAt(t)) <= Cardinality(Bridge)

Remembering ==
  /\ Memo(rx.exact)
  /\ \A x \in Range(rx.exact) :
       /\ x.event \in Taken(rx) /\ x.seen \in 0..now
       /\ x.event.at <= x.seen /\ x.seen <= x.event.at + ReportDelay
  /\ \A m \in air : Exact(m) \in Taken(rx) => \E x \in Range(rx.exact) : x.event = Exact(m)

IInv == Typed /\ Tidy(rx) /\ Grounded /\ Dated /\ Remembering

LEMMA Bounds ==
  ASSUME SyncAssumption
  PROVE  /\ CacheCap \in Nat \ {0} /\ HoldCap \in Nat \ {0} /\ GlobalCap \in Nat \ {0}
         /\ ReportDelay \in Nat \ {0} /\ CacheTtl \in Nat /\ ReportDelay <= CacheTtl
         /\ HoldTtl \in Nat /\ Interval \in Nat \ {0} /\ MaxTime \in Nat
         /\ IsFiniteSet(Bridge) /\ IsFiniteSet(Command)
BY DEF SyncAssumption

LEMMA ExactFields ==
  ASSUME NEW m
  PROVE  /\ Exact(m) = [by |-> m.by, at |-> m.at, sig |-> m.sig]
         /\ Exact(m).at = m.at /\ Exact(m).by = m.by /\ Exact(m).sig = m.sig
         /\ EventOf(Exact(m))
<1>1. PICK ev : ev = [by |-> m.by, at |-> m.at, sig |-> m.sig]
  OBVIOUS
<1>2. ev.at = m.at /\ ev.by = m.by /\ ev.sig = m.sig
  BY <1>1
<1>3. ev = Exact(m)
  BY <1>1 DEF Exact
<1> QED
  BY <1>1, <1>2, <1>3 DEF EventOf

\* A report under way that was taken in is in the young part of the memory.
LEMMA StillYoung ==
  ASSUME SyncAssumption, Typed, Tidy(rx), Dated, Remembering, NEW m \in air, Exact(m) \in Taken(rx)
  PROVE  \E x \in Range(Young(rx.exact, now)) : x.event = Exact(m)
<1>1. PICK x \in Range(rx.exact) : x.event = Exact(m)
  BY DEF Remembering
<1>2. x.event.at = m.at /\ now - m.at <= ReportDelay /\ x.event.at <= x.seen /\ x.seen \in 0..now
  BY <1>1, ExactFields DEF Dated, Remembering
<1>3. x.event.at \in 0..now
  BY <1>1 DEF Dated, Events
<1>4. now - x.seen <= CacheTtl
  <2>1. PICK a \in Nat, b \in Nat, R \in Nat, C \in Nat, n \in Nat :
          a = x.event.at /\ b = x.seen /\ R = ReportDelay /\ C = CacheTtl /\ n = now
    <3>1. now \in Nat
      BY Bounds DEF Typed
    <3>2. x.event.at \in Nat /\ x.seen \in Nat
      BY <1>2, <1>3, <3>1
    <3>3. ReportDelay \in Nat /\ CacheTtl \in Nat
      BY Bounds
    <3> QED
      BY <3>1, <3>2, <3>3
  <2>2. n - a <= R /\ a <= b /\ R <= C
    BY <1>2, <2>1, Bounds
  <2>3. n - b <= C
    BY <2>2
  <2> QED
    BY <2>1, <2>3
<1>5. Listed(rx.exact)
  BY DEF Tidy, Tables
<1>6. x \in Range(Young(rx.exact, now))
  BY <1>4, <1>5, YoungKept
<1> QED
  BY <1>1, <1>6

\* Steps that take no report in.
LEMMA EventsStay ==
  ASSUME SyncAssumption, Typed, Tidy(rx), Dated, Remembering,
         UNCHANGED <<now, air, spoken>>, Taken(rx') = Taken(rx),
         rx'.exact = rx.exact \/ rx'.exact = Young(rx.exact, now)
  PROVE  Dated' /\ Remembering'
<1>1. Events' = Events
  BY DEF Events
<1>2. Dated'
  <2>1. \A t : SigsAt(t)' = SigsAt(t)
    BY <1>1 DEF SigsAt
  <2> QED
    BY <1>1, <2>1 DEF Dated
<1>3. Remembering'
  <2>1. CASE rx'.exact = rx.exact
    BY <2>1 DEF Remembering
  <2>2. CASE rx'.exact = Young(rx.exact, now)
    <3>1. PICK young : young = Young(rx.exact, now) /\ rx'.exact = young
      BY <2>2
    <3>2. Listed(rx.exact) /\ Memo(rx.exact)
      BY DEF Tidy, Tables, Remembering
    <3>3. Memo(young) /\ Range(young) \subseteq Range(rx.exact)
      BY <3>1, <3>2, MemoYoung, YoungKept
    <3>4. \A m \in air : Exact(m) \in Taken(rx) => \E x \in Range(young) : x.event = Exact(m)
      BY <3>1, StillYoung
    <3> QED
      BY <3>1, <3>3, <3>4 DEF Remembering
  <2> QED
    BY <2>1, <2>2
<1> QED
  BY <1>2, <1>3

LEMMA WithLedger ==
  ASSUME NEW r, Tidy(r), NEW L, Ledgered(L), Len(L) <= GlobalCap
  PROVE  LET s == [r EXCEPT !.ledger = L]
         IN  /\ Tidy(s) /\ Taken(s) = Taken(r)
             /\ s.ledger = L /\ s.holds = r.holds /\ s.exact = r.exact
<1>1. PICK s : s = [r EXCEPT !.ledger = L]
  OBVIOUS
<1>2. /\ DOMAIN s = Fields /\ s.ledger = L /\ s.holds = r.holds /\ s.exact = r.exact
      /\ s.debounce = r.debounce /\ s.settled = r.settled /\ s.starts = r.starts
  BY <1>1 DEF Tidy, Fields
<1>3. Tidy(s) /\ Taken(s) = Taken(r)
  BY <1>2 DEF Tidy, Tables, Taken
<1> QED
  BY <1>1, <1>2, <1>3

LEMMA NoAge ==
  ASSUME NEW n \in Nat, NEW s \in 0..n, NEW t \in Nat
  PROVE  n \in 0..n /\ s - n <= t
OBVIOUS

\* The end of every step of the hub: what waited for c is classified again.
LEMMA ResumeStep ==
  ASSUME SyncAssumption, IInv, NEW c, NEW L, Ledgered(L), Len(L) <= GlobalCap,
         Cmds(L) \subseteq Cmds(rx.ledger), Open(L) \subseteq Open(rx.ledger) \ {c},
         rx' = ResumeHolds([rx EXCEPT !.ledger = L], c, now),
         UNCHANGED <<now, cast, swept, air, spoken>>,
         \A d : d # c /\ Waited(d) => Waited(d)'
  PROVE  Tidy(rx)' /\ Grounded' /\ Dated' /\ Remembering'
<1>1. PICK r : /\ r = [rx EXCEPT !.ledger = L] /\ Tidy(r) /\ Taken(r) = Taken(rx)
               /\ r.ledger = L /\ r.holds = rx.holds /\ r.exact = rx.exact
  BY WithLedger DEF IInv
<1>2. ResumedTo(r, rx', c, now)
  BY <1>1, ResumeResumes, Bounds
<1>3. Tidy(rx') /\ Taken(rx') = Taken(rx) /\ rx'.exact = Young(rx.exact, now)
  BY <1>1, <1>2 DEF ResumedTo
<1>4. Dated' /\ Remembering'
  BY <1>3, EventsStay DEF IInv
<1>5. Cmds(rx'.ledger) \subseteq cast
  BY <1>1, <1>2 DEF ResumedTo, IInv, Grounded
<1>6. ASSUME NEW d \in Open(L) PROVE d # c /\ Waited(d)'
  BY <1>6 DEF IInv, Grounded
<1>7. \A d \in Open(rx'.ledger) : Waited(d)'
  BY <1>1, <1>2, <1>6 DEF ResumedTo
<1>8. now \in Nat /\ swept \in 0..now
  BY Bounds DEF IInv, Typed
<1>9. ASSUME NEW h \in Range(rx'.holds)
      PROVE  Waited(h.cmd)' /\ h.seen \in 0..now /\ swept - h.seen <= HoldTtl
  <2>1. \/ h \in Range(rx.holds) /\ h.cmd # c
        \/ h.cmd \in Open(L) /\ h.seen = now
    BY <1>1, <1>2 DEF ResumedTo
  <2>2. CASE h \in Range(rx.holds) /\ h.cmd # c
    BY <2>2 DEF IInv, Grounded
  <2>3. CASE h.cmd \in Open(L) /\ h.seen = now
    <3>1. h.seen \in 0..now /\ swept - h.seen <= HoldTtl
      <4>1. HoldTtl \in Nat
        BY Bounds
      <4>2. now \in 0..now /\ swept - now <= HoldTtl
        BY <1>8, <4>1, NoAge
      <4> QED
        BY <2>3, <4>2
    <3> QED
      BY <1>6, <2>3, <3>1
  <2> QED
    BY <2>1, <2>2, <2>3
<1>10. Grounded'
  BY <1>5, <1>7, <1>9 DEF Grounded
<1> QED
  BY <1>3, <1>4, <1>10

----------------------------------------------------------------------------
(* The steps of the hub. *)

LEMMA Below ==
  ASSUME NEW a \in Nat, NEW b \in Nat, NEW c \in Nat, a <= b, b <= c
  PROVE  a <= c
OBVIOUS

LEMMA PublishKeeps ==
  ASSUME SyncAssumption, IInv, NEW c \in Command, Publish(c)
  PROVE  IInv'
<1>1. PICK L : L = Registered(rx.ledger, c)
  OBVIOUS
<1>2. /\ Ledgered(L) /\ Len(L) <= GlobalCap
      /\ Cmds(L) \subseteq Cmds(rx.ledger) \cup {c} /\ Open(L) \subseteq Open(rx.ledger) \cup {c}
  BY <1>1, RegisteredOpens, Bounds DEF IInv, Tidy, Tables
<1>3. PICK s : /\ s = [rx EXCEPT !.ledger = L] /\ Tidy(s) /\ Taken(s) = Taken(rx)
               /\ s.ledger = L /\ s.holds = rx.holds /\ s.exact = rx.exact
  BY <1>2, WithLedger DEF IInv
<1>4. rx' = s
  BY <1>1, <1>3 DEF Publish
<1>5. UNCHANGED <<now, cast, swept, air, spoken>>
  BY DEF Publish, world
<1>6. Dated' /\ Remembering'
  BY <1>3, <1>4, <1>5, EventsStay DEF IInv
<1>7. Typed'
  <2>1. phase' = [phase EXCEPT ![c] = "published"] /\ sent' = [sent EXCEPT ![c] = now] /\ c \in cast
    BY DEF Publish
  <2>2. now \in 0..now
    BY Bounds DEF IInv, Typed
  <2>3. sent' \in [Command -> {Never} \cup 0..now]
    BY <2>1, <2>2 DEF IInv, Typed
  <2>4. phase' \in [Command -> Phases] /\ \A d \in Command : phase'[d] # "new" => d \in cast
    BY <2>1 DEF IInv, Typed, Phases
  <2> QED
    BY <1>5, <2>3, <2>4 DEF Publish, world, IInv, Typed
<1>8. phase \in [Command -> Phases] /\ phase' = [phase EXCEPT ![c] = "published"] /\ c \in cast
  BY DEF Publish, IInv, Typed
<1>9. \A d : Waited(d) => Waited(d)'
  BY <1>8 DEF Waited
<1>10. Waited(c)'
  BY <1>8 DEF Waited
<1>11. Grounded'
  <2>1. Cmds(L) \subseteq cast
    BY <1>2, <1>8 DEF IInv, Grounded
  <2>2. \A d \in Open(L) : Waited(d)'
    BY <1>2, <1>9, <1>10 DEF IInv, Grounded
  <2>3. \A h \in Range(s.holds) : Waited(h.cmd)' /\ h.seen \in 0..now /\ swept - h.seen <= HoldTtl
    BY <1>3, <1>9 DEF IInv, Grounded
  <2> QED
    BY <1>3, <1>4, <1>5, <2>1, <2>2, <2>3 DEF Grounded
<1> QED
  BY <1>3, <1>4, <1>6, <1>7, <1>11 DEF IInv

LEMMA StartedStatusKeeps ==
  ASSUME SyncAssumption, IInv, NEW c \in Command, StartedStatus(c)
  PROVE  IInv'
<1>1. PICK at \in start[c]..now : /\ anchor' = [anchor EXCEPT ![c] = at]
                                    /\ rx' = RecordCommandedStart(rx, c, at, now)
  BY DEF StartedStatus
<1>2. PICK s : /\ s = rx' /\ Tidy(s) /\ Taken(s) = Taken(rx)
               /\ s.ledger = rx.ledger /\ s.holds = rx.holds /\ s.exact = rx.exact
  BY <1>1, StartRecorded, Bounds DEF IInv
<1>3. UNCHANGED <<now, cast, swept, air, spoken>>
  BY DEF StartedStatus, world
<1>4. Dated' /\ Remembering'
  BY <1>2, <1>3, EventsStay DEF IInv
<1>5. phase \in [Command -> Phases] /\ phase' = [phase EXCEPT ![c] = "known"]
      /\ phase[c] = "published" /\ start[c] # Never
  BY DEF StartedStatus, IInv, Typed
<1>6. Typed'
  <2>1. now \in Nat /\ start[c] \in 0..now
    BY <1>5, Bounds DEF IInv, Typed, Never
  <2>2. at \in 0..now /\ start[c] <= at /\ start' = start
    BY <2>1 DEF StartedStatus, world
  <2>3. anchor' \in [Command -> {Never} \cup 0..now]
    BY <1>1, <2>2 DEF IInv, Typed
  <2>4. \A d \in Command : anchor'[d] # Never => start[d] # Never /\ start[d] <= anchor'[d]
    BY <1>1, <1>5, <2>2 DEF IInv, Typed
  <2>5. phase' \in [Command -> Phases] /\ \A d \in Command : phase'[d] # "new" => d \in cast
    BY <1>5 DEF IInv, Typed, Phases
  <2> QED
    BY <1>3, <2>2, <2>3, <2>4, <2>5 DEF IInv, Typed, StartedStatus, world
<1>7. \A d : Waited(d) => Waited(d)'
  BY <1>5 DEF Waited
<1>8. Grounded'
  BY <1>2, <1>3, <1>7 DEF IInv, Grounded
<1> QED
  BY <1>2, <1>4, <1>6, <1>8 DEF IInv

LEMMA ConfirmKeeps ==
  ASSUME SyncAssumption, IInv, NEW c \in Command, Confirm(c)
  PROVE  IInv'
<1>1. PICK L : L = Confirmed(rx.ledger, c, anchor[c])
  OBVIOUS
<1>2. Ledgered(L) /\ Len(L) <= GlobalCap /\ Cmds(L) = Cmds(rx.ledger) /\ Open(L) = Open(rx.ledger) \ {c}
  BY <1>1, ConfirmedCloses DEF IInv, Tidy, Tables
<1>3. rx' = ResumeHolds([rx EXCEPT !.ledger = L], c, now)
  BY <1>1 DEF Confirm
<1>4. UNCHANGED <<now, cast, swept, air, spoken>>
  BY DEF Confirm, world
<1>5. phase \in [Command -> Phases] /\ phase' = [phase EXCEPT ![c] = "confirmed"] /\ phase[c] = "known"
  BY DEF Confirm, IInv, Typed
<1>6. \A d : d # c /\ Waited(d) => Waited(d)'
  BY <1>5 DEF Waited
<1>7. Tidy(rx)' /\ Grounded' /\ Dated' /\ Remembering'
  BY <1>2, <1>3, <1>4, <1>6, ResumeStep
<1>8. Typed'
  <2>1. phase' \in [Command -> Phases] /\ \A d \in Command : phase'[d] # "new" => d \in cast
    BY <1>5 DEF IInv, Typed, Phases
  <2> QED
    BY <1>4, <2>1 DEF IInv, Typed, Confirm, world
<1> QED
  BY <1>7, <1>8 DEF IInv

LEMMA FailKeeps ==
  ASSUME SyncAssumption, IInv, NEW c \in Command, Fail(c)
  PROVE  IInv'
<1>1. PICK L : L = Without(rx.ledger, c)
  OBVIOUS
<1>2. /\ Ledgered(L) /\ Len(L) <= Len(rx.ledger) /\ Len(rx.ledger) <= GlobalCap /\ Ledgered(rx.ledger)
      /\ Cmds(L) \subseteq Cmds(rx.ledger) /\ Open(L) = Open(rx.ledger) \ {c}
  BY <1>1, WithoutDrops DEF IInv, Tidy, Tables
<1>3. Len(L) <= GlobalCap
  <2>1. Len(L) \in Nat /\ Len(rx.ledger) \in Nat
    BY <1>2, ListedShape DEF Ledgered
  <2>2. GlobalCap \in Nat
    BY Bounds
  <2> QED
    BY <1>2, <2>1, <2>2, Below
<1>4. rx' = ResumeHolds([rx EXCEPT !.ledger = L], c, now)
  BY <1>1 DEF Fail
<1>5. UNCHANGED <<now, cast, swept, air, spoken>>
  BY DEF Fail, world
<1>6. /\ phase \in [Command -> Phases] /\ phase' = [phase EXCEPT ![c] = "failed"]
      /\ phase[c] \in {"published", "known", "displaced"}
  BY DEF Fail, IInv, Typed
<1>7. \A d : d # c /\ Waited(d) => Waited(d)'
  BY <1>6 DEF Waited
<1>8. Tidy(rx)' /\ Grounded' /\ Dated' /\ Remembering'
  BY <1>2, <1>3, <1>4, <1>5, <1>7, ResumeStep
<1>9. Typed'
  <2>1. phase' \in [Command -> Phases] /\ \A d \in Command : phase'[d] # "new" => d \in cast
    BY <1>6 DEF IInv, Typed, Phases
  <2> QED
    BY <1>5, <2>1 DEF IInv, Typed, Fail, world
<1> QED
  BY <1>8, <1>9 DEF IInv

LEMMA FutureKeeps ==
  ASSUME Typed, NEW c \in Command, FutureDisplaced(c)
  PROVE  /\ phase' \in [Command -> Phases]
         /\ \A d \in Command : phase'[d] # "new" => d \in cast
         /\ \A d : Waited(d) => Waited(d)'
<1>1. phase \in [Command -> Phases] /\ phase' = [phase EXCEPT ![c] = IF @ = "published" THEN "displaced" ELSE @]
  BY DEF Typed, FutureDisplaced
<1>2. \A d \in Command : phase'[d] = phase[d] \/ (phase[d] = "published" /\ phase'[d] = "displaced")
  <2>1. PICK v : v = IF phase[c] = "published" THEN "displaced" ELSE phase[c]
    OBVIOUS
  <2>2. phase' = [phase EXCEPT ![c] = v]
    BY <1>1, <2>1
  <2> QED
    BY <1>1, <2>1, <2>2
<1>3. DOMAIN phase' = Command /\ phase' = [d \in Command |-> phase'[d]]
  BY <1>1
<1>4. phase' \in [Command -> Phases]
  BY <1>1, <1>2, <1>3 DEF Phases
<1> QED
  BY <1>2, <1>4 DEF Typed, Waited

LEMMA DisplacedStatusKeeps ==
  ASSUME SyncAssumption, IInv, NEW c \in Command, DisplacedStatus(c)
  PROVE  IInv'
<1>1. PICK K : K = IF phase[c] = "known" THEN Confirmed(rx.ledger, c, anchor[c]) ELSE rx.ledger
  OBVIOUS
<1>2. Ledgered(rx.ledger) /\ Len(rx.ledger) <= GlobalCap /\ Len(rx.ledger) \in Nat
  BY ListedShape DEF IInv, Tidy, Tables, Ledgered
<1>3. /\ Ledgered(K) /\ Len(K) = Len(rx.ledger)
      /\ Cmds(K) = Cmds(rx.ledger) /\ Open(K) \subseteq Open(rx.ledger)
  <2>1. CASE phase[c] = "known"
    <3>1. K = Confirmed(rx.ledger, c, anchor[c])
      BY <1>1, <2>1
    <3> QED
      BY <1>2, <3>1, ConfirmedCloses
  <2>2. CASE phase[c] # "known"
    BY <1>1, <1>2, <2>2
  <2> QED
    BY <2>1, <2>2
<1>4. PICK L : L = Displace(K, c, now)
  OBVIOUS
<1>5. /\ Ledgered(L) /\ Len(L) <= Len(K)
      /\ Cmds(L) \subseteq Cmds(K) /\ Open(L) \subseteq Open(K) \ {c}
  BY <1>3, <1>4, DisplaceCloses
<1>6. Len(L) <= GlobalCap
  <2>1. Len(L) \in Nat
    BY <1>5, ListedShape DEF Ledgered
  <2>2. GlobalCap \in Nat
    BY Bounds
  <2> QED
    BY <1>2, <1>3, <1>5, <2>1, <2>2, Below
<1>7. rx' = ResumeHolds([rx EXCEPT !.ledger = L], c, now)
  BY <1>1, <1>4 DEF DisplacedStatus
<1>8. UNCHANGED <<now, cast, swept, air, spoken>> /\ FutureDisplaced(c)
  BY DEF DisplacedStatus
<1>9. /\ phase' \in [Command -> Phases]
      /\ \A d \in Command : phase'[d] # "new" => d \in cast
      /\ \A d : Waited(d) => Waited(d)'
  BY <1>8, FutureKeeps DEF IInv
<1>10. Cmds(L) \subseteq Cmds(rx.ledger) /\ Open(L) \subseteq Open(rx.ledger) \ {c}
  BY <1>3, <1>5
<1>11. Tidy(rx)' /\ Grounded' /\ Dated' /\ Remembering'
  BY <1>5, <1>6, <1>7, <1>8, <1>9, <1>10, ResumeStep
<1>12. Typed'
  <2>1. fate' \in [Command -> Fates]
    BY DEF DisplacedStatus, IInv, Typed, Fates
  <2> QED
    BY <1>8, <1>9, <2>1 DEF IInv, Typed, DisplacedStatus
<1> QED
  BY <1>11, <1>12 DEF IInv

LEMMA DisarmedKeeps ==
  ASSUME SyncAssumption, IInv, NEW c \in Command, Disarmed(c)
  PROVE  IInv'
<1>1. PICK kept \in BOOLEAN : kept = \E e \in ToSet(rx.ledger) : e.cmd = c /\ Displaced(e)
  OBVIOUS
<1>2. PICK L : L = IF kept THEN rx.ledger ELSE Without(rx.ledger, c)
  OBVIOUS
<1>3. Ledgered(rx.ledger) /\ Len(rx.ledger) <= GlobalCap /\ Len(rx.ledger) \in Nat
  BY ListedShape DEF IInv, Tidy, Tables, Ledgered
<1>4. /\ Ledgered(L) /\ Len(L) <= Len(rx.ledger)
      /\ Cmds(L) \subseteq Cmds(rx.ledger) /\ Open(L) \subseteq Open(rx.ledger) \ {c}
  <2>1. CASE kept
    <3>1. L = rx.ledger
      BY <1>2, <2>1
    <3>2. PICK e \in Range(rx.ledger) : e.cmd = c /\ Displaced(e)
      BY <1>1, <2>1, SetIsRange
    <3>3. e.phase = "confirmed"
      BY <1>3, <3>2 DEF Ledgered
    <3>4. ASSUME NEW x \in Range(rx.ledger), x.phase = "pending" PROVE x.cmd # c
      <4>1. PICK i \in DOMAIN rx.ledger, j \in DOMAIN rx.ledger : x = rx.ledger[i] /\ e = rx.ledger[j]
        BY DEF Range
      <4> QED
        BY <1>3, <3>2, <3>3, <3>4, <4>1 DEF Ledgered
    <3>5. ASSUME NEW d \in Open(L) PROVE d \in Open(rx.ledger) /\ d # c
      BY <3>1, <3>4 DEF Open
    <3> QED
      BY <1>3, <3>1, <3>5
  <2>2. CASE ~kept
    <3>1. L = Without(rx.ledger, c)
      BY <1>2, <2>2
    <3> QED
      BY <1>3, <3>1, WithoutDrops
  <2> QED
    BY <2>1, <2>2
<1>5. Len(L) <= GlobalCap
  <2>1. Len(L) \in Nat
    BY <1>4, ListedShape DEF Ledgered
  <2>2. GlobalCap \in Nat
    BY Bounds
  <2> QED
    BY <1>3, <1>4, <2>1, <2>2, Below
<1>6. rx' = ResumeHolds([rx EXCEPT !.ledger = L], c, now)
  BY <1>1, <1>2 DEF Disarmed
<1>7. UNCHANGED <<now, cast, swept, air, spoken>> /\ FutureDisplaced(c)
  BY DEF Disarmed
<1>8. /\ phase' \in [Command -> Phases]
      /\ \A d \in Command : phase'[d] # "new" => d \in cast
      /\ \A d : Waited(d) => Waited(d)'
  BY <1>7, FutureKeeps DEF IInv
<1>9. Tidy(rx)' /\ Grounded' /\ Dated' /\ Remembering'
  BY <1>4, <1>5, <1>6, <1>7, <1>8, ResumeStep
<1>10. Typed'
  <2>1. fate' \in [Command -> Fates]
    BY DEF Disarmed, IInv, Typed, Fates
  <2> QED
    BY <1>7, <1>8, <2>1 DEF IInv, Typed, Disarmed
<1> QED
  BY <1>9, <1>10 DEF IInv

LEMMA SweepKeeps ==
  ASSUME SyncAssumption, IInv, Sweep
  PROVE  IInv'
<1>1. rx' = Maintain(rx, now) /\ swept' = now /\ UNCHANGED <<now, cast, air, spoken, phase>>
  BY DEF Sweep, hub, world
<1>2. MaintainedTo(rx, rx', now)
  BY <1>1, MaintainMaintains, Bounds DEF IInv
<1>3. Tidy(rx') /\ Taken(rx') = Taken(rx) /\ rx'.exact = Young(rx.exact, now)
  BY <1>2 DEF MaintainedTo
<1>4. Dated' /\ Remembering'
  BY <1>1, <1>3, EventsStay DEF IInv
<1>5. now \in Nat /\ now' = now
  BY <1>1, Bounds DEF IInv, Typed
<1>6. Typed'
  <2>1. now \in 0..now /\ now - now <= Interval
    BY <1>5, Bounds
  <2> QED
    BY <1>1, <2>1 DEF Sweep, hub, world, IInv, Typed
<1>7. \A d : Waited(d)' <=> Waited(d)
  BY <1>1 DEF Waited
<1>8. ASSUME NEW h \in Range(rx'.holds)
      PROVE  Waited(h.cmd)' /\ h.seen \in 0..now /\ now - h.seen <= HoldTtl
  <2>1. h \in Range(rx.holds) /\ ~HeldTooLong(h, now)
    BY <1>2 DEF MaintainedTo
  <2>2. Waited(h.cmd)' /\ h.seen \in 0..now
    BY <1>7, <2>1 DEF IInv, Grounded
  <2>3. now - h.seen <= HoldTtl
    <3>1. ~(now - h.seen > HoldTtl) /\ HoldTtl \in Nat
      BY <2>1, Bounds DEF HeldTooLong
    <3>2. PICK t \in Int, n \in Nat, d \in Nat : t = h.seen /\ n = now /\ d = HoldTtl
      BY <1>5, <2>2, <3>1
    <3>3. ~(n - t > d)
      BY <3>1, <3>2
    <3>4. n - t <= d
      BY <3>3
    <3> QED
      BY <3>2, <3>4
  <2> QED
    BY <2>2, <2>3
<1>9. Grounded'
  BY <1>1, <1>2, <1>7, <1>8 DEF IInv, Grounded, MaintainedTo
<1> QED
  BY <1>3, <1>4, <1>6, <1>9 DEF IInv

\* The report m is taken in, or known.
LEMMA DeliverKeeps ==
  ASSUME SyncAssumption, IInv, NEW m \in air, Deliver(m)
  PROVE  IInv'
<1>0. PICK dated : rx' = HandleRx(rx, [m EXCEPT !.heard = dated, !.received = now], now)
  BY DEF Deliver
<1>1. PICK cap : cap = [m EXCEPT !.heard = dated, !.received = now]
  OBVIOUS
<1>2. PICK ev : ev = Exact(m)
  OBVIOUS
<1>3. Exact(cap) = ev
  <2>1. DOMAIN m = {"src", "sig", "at", "by", "heard", "received"}
    BY DEF IInv, Dated
  <2>2. cap.by = m.by /\ cap.at = m.at /\ cap.sig = m.sig
    BY <1>1, <2>1
  <2> QED
    BY <1>2, <2>2 DEF Exact
<1>4. rx' = HandleRx(rx, cap, now) /\ UNCHANGED <<now, cast, swept, air, spoken, phase>>
  BY <1>0, <1>1 DEF Deliver, hub, world
<1>5. PICK young : young = Young(rx.exact, now)
  OBVIOUS
<1>6. ev \in Taken(rx) => \E x \in Range(young) : x.event = ev
  BY <1>2, <1>5, StillYoung DEF IInv
<1>7. HandledTo(rx, rx', ev, now)
  BY <1>3, <1>4, <1>5, <1>6, HandleHandles, Bounds DEF IInv
<1>8. Listed(rx.exact) /\ Memo(rx.exact)
  BY DEF IInv, Tidy, Tables, Remembering
<1>9. Listed(young) /\ Memo(young) /\ Range(young) \subseteq Range(rx.exact) /\ Len(young) <= Len(rx.exact)
  BY <1>5, <1>8, MemoYoung, YoungKept
<1>10. now \in Nat
  BY Bounds DEF IInv, Typed
<1>11. ev \in Events /\ ev.at = m.at /\ now - ev.at <= ReportDelay /\ ev.at \in 0..now
  BY <1>2, ExactFields DEF IInv, Dated, Events
<1>12. \A x \in Range(young) : /\ x.event \in Taken(rx) /\ x.seen \in 0..now
                               /\ x.event.at <= x.seen /\ x.seen <= x.event.at + ReportDelay
  BY <1>9 DEF IInv, Remembering
<1>13. Taken(rx') = Taken(rx) \/ Taken(rx') = Taken(rx) \cup {ev}
  BY <1>7 DEF HandledTo
<1>14. Events' = Events
  BY <1>4, <1>11, <1>13 DEF Events
<1>15. Dated'
  <2>1. \A t : SigsAt(t)' = SigsAt(t)
    BY <1>14 DEF SigsAt
  <2> QED
    BY <1>4, <1>14, <2>1 DEF IInv, Dated
<1>16. Remembering'
  <2>1. CASE /\ \E x \in Range(young) : x.event = ev
             /\ rx'.exact = young /\ Taken(rx') = Taken(rx)
    <3>1. \A k \in air : Exact(k) \in Taken(rx) => \E x \in Range(young) : x.event = Exact(k)
      BY <1>5, StillYoung DEF IInv
    <3> QED
      BY <1>4, <1>9, <1>12, <2>1, <3>1 DEF Remembering
  <2>2. CASE /\ ~\E x \in Range(young) : x.event = ev
             /\ rx'.exact = Newest(Append(young, [event |-> ev, seen |-> now]), CacheCap)
             /\ Taken(rx') = Taken(rx) \cup {ev}
    <3>1. PICK key : key = [event |-> ev, seen |-> now]
      OBVIOUS
    <3>2. key.event = ev /\ key.seen = now
      BY <3>1
    <3>3. PICK t : t = Newest(Append(young, key), CacheCap) /\ rx'.exact = t
      BY <2>2, <3>1
    <3>4. key.event \notin EventsIn(young)
      BY <2>2, <3>2 DEF EventsIn
    <3>5. Len(young) <= CacheCap
      <4>1. Len(young) \in Nat /\ Len(rx.exact) \in Nat /\ Len(rx.exact) <= CacheCap
        BY <1>8, <1>9, ListedShape DEF IInv, Tidy, Tables
      <4>2. CacheCap \in Nat
        BY Bounds
      <4> QED
        BY <1>9, <4>1, <4>2, Below
    <3>6. \A x \in Range(young) : x.seen \in Int /\ x.seen <= now
      BY <1>10, <1>12
    <3>7. /\ Memo(t) /\ Range(t) \subseteq Range(young) \cup {key} /\ key \in Range(t)
          /\ \A x \in Range(young) :
               \/ x \in Range(t)
               \/ Len(young) = CacheCap /\ \A y \in Range(young) : x.seen <= y.seen
      <4>1. CacheCap \in Nat \ {0} /\ now \in Int
        BY <1>10, Bounds
      <4>2. LET u == Newest(Append(young, key), CacheCap)
            IN  /\ Memo(u) /\ Range(u) \subseteq Range(young) \cup {key} /\ key \in Range(u)
                /\ \A x \in Range(young) :
                     \/ x \in Range(u)
                     \/ Len(young) = CacheCap /\ \A y \in Range(young) : x.seen <= y.seen
        BY <1>9, <3>2, <3>4, <3>5, <3>6, <4>1, MemoNewest
      <4> QED
        BY <3>3, <4>2
    <3>8. \A x \in Range(t) : /\ x.event \in Taken(rx') /\ x.seen \in 0..now
                              /\ x.event.at <= x.seen /\ x.seen <= x.event.at + ReportDelay
      <4>1. now \in 0..now /\ ev.at <= now /\ now <= ev.at + ReportDelay
        <5>1. PICK a \in Nat, R \in Nat : a = ev.at /\ R = ReportDelay
          BY <1>10, <1>11, Bounds
        <5>2. a \in 0..now /\ now - a <= R
          BY <1>11, <5>1
        <5>3. now \in 0..now /\ a <= now /\ now <= a + R
          BY <1>10, <5>2
        <5> QED
          BY <5>1, <5>3
      <4> QED
        BY <1>12, <2>2, <3>2, <3>7, <4>1
    <3>9. ASSUME NEW k \in air, Exact(k) \in Taken(rx')
          PROVE  \E x \in Range(t) : x.event = Exact(k)
      <4>1. CASE Exact(k) = ev
        BY <3>2, <3>7, <4>1
      <4>2. CASE Exact(k) # ev
        <5>1. Exact(k) \in Taken(rx)
          BY <2>2, <3>9, <4>2
        <5>2. PICK x \in Range(young) : x.event = Exact(k)
          BY <1>5, <5>1, StillYoung DEF IInv
        <5>3. CASE x \in Range(t)
          BY <5>2, <5>3
        <5>4. CASE x \notin Range(t)
          <6>1. Len(young) = CacheCap /\ \A y \in Range(young) : x.seen <= y.seen
            BY <3>7, <5>4
          <6>2. EventsIn(young) \subseteq Events
            BY <1>12 DEF EventsIn, Events
          <6>3. \A w \in Events : EventOf(w) /\ w.by \in Bridge /\ w.at \in Int
            BY <1>10 DEF IInv, Dated
          <6>4. \A i \in Int : LET S == {w.sig : w \in {v \in Events : v.at = i}}
                               IN  IsFiniteSet(S) /\ Cardinality(S) <= Cardinality(Bridge)
            BY DEF IInv, Dated, SigsAt
          <6>5. \A y \in Range(young) : /\ y.seen \in Int /\ y.seen <= now
                                        /\ y.event.at <= y.seen /\ y.seen <= y.event.at + ReportDelay
            BY <1>12, <3>6
          <6>6. now - x.event.at <= ReportDelay
            BY <5>2, ExactFields DEF IInv, Dated
          <6>7. ev.at <= now /\ now \in Int /\ ev \notin EventsIn(young)
            BY <1>10, <1>11, <3>2, <3>4
          <6>8. PICK V : V = Events
            OBVIOUS
          <6>9. /\ EventsIn(young) \subseteq V /\ ev \in V
                /\ \A w \in V : EventOf(w) /\ w.by \in Bridge /\ w.at \in Int
                /\ \A i \in Int : LET S == {w.sig : w \in {v \in V : v.at = i}}
                                  IN  IsFiniteSet(S) /\ Cardinality(S) <= Cardinality(Bridge)
            BY <1>11, <6>2, <6>3, <6>4, <6>8
          <6> QED
            BY <1>9, <1>11, <6>1, <6>5, <6>6, <6>7, <6>9, MemoryLasts
        <5> QED
          BY <5>3, <5>4
      <4> QED
        BY <4>1, <4>2
    <3> QED
      BY <1>4, <3>3, <3>7, <3>8, <3>9 DEF Remembering
  <2> QED
    BY <1>5, <1>7, <2>1, <2>2 DEF HandledTo
<1>17. \A d : Waited(d)' <=> Waited(d)
  BY <1>4 DEF Waited
<1>18. ASSUME NEW h \in Range(rx'.holds)
       PROVE  Waited(h.cmd)' /\ h.seen \in 0..now /\ swept - h.seen <= HoldTtl
  <2>1. h \in Range(rx.holds) \/ (h.cmd \in Open(rx.ledger) /\ h.seen = now)
    BY <1>7 DEF HandledTo
  <2>2. CASE h \in Range(rx.holds)
    BY <1>17, <2>2 DEF IInv, Grounded
  <2>3. CASE h.cmd \in Open(rx.ledger) /\ h.seen = now
    <3>1. swept \in 0..now /\ HoldTtl \in Nat
      BY Bounds DEF IInv, Typed
    <3>2. now \in 0..now /\ swept - now <= HoldTtl
      BY <1>10, <3>1, NoAge
    <3> QED
      BY <1>17, <2>3, <3>2 DEF IInv, Grounded
  <2> QED
    BY <2>1, <2>2, <2>3
<1>19. Grounded'
  <2>1. Cmds(rx'.ledger) \subseteq cast /\ \A d \in Open(rx'.ledger) : Waited(d)'
    BY <1>7, <1>17 DEF HandledTo, IInv, Grounded
  <2> QED
    BY <1>4, <1>18, <2>1 DEF Grounded
<1>20. Typed'
  BY <1>4 DEF Deliver, hub, world, IInv, Typed
<1> QED
  BY <1>7, <1>15, <1>16, <1>19, <1>20 DEF IInv, HandledTo

----------------------------------------------------------------------------
(* The steps of the air. *)

LEMMA JobIsJob ==
  ASSUME SyncAssumption, NEW c \in Command, NEW button \in Buttons
  PROVE  Job(c, button, Sent[c].repeats) \in Jobs
<1>1. Sent[c].repeats \in Int
  BY DEF SyncAssumption
<1> QED
  BY <1>1 DEF Job, Jobs

LEMMA JobsOfKept ==
  ASSUME Typed, NEW b \in Bridge, NEW cs
  PROVE  JobsOf(b, cs) \in Seq(Jobs)
<1>1. PICK s \in Seq(Jobs) : s = radio[b]
  BY DEF Typed
<1>2. PICK S : S = {j \in ToSet(s) : j.cmd \in cs}
  OBVIOUS
<1>3. JobsOf(b, cs) = Only(s, S)
  BY <1>1, <1>2 DEF JobsOf
<1> QED
  BY <1>3, OnlyKeeps

LEMMA StopsListed ==
  ASSUME SyncAssumption, NEW D \in SUBSET Command
  PROVE  SetToSeq({Job(d, "STOP", Sent[d].repeats) : d \in D}) \in Seq(Jobs)
<1>1. IsFiniteSet(D)
  BY Bounds, FS_Subset
<1>2. PICK T : T = {Job(d, "STOP", Sent[d].repeats) : d \in D}
  OBVIOUS
<1>3. PICK f : f = [d \in D |-> Job(d, "STOP", Sent[d].repeats)]
  OBVIOUS
<1>4. f \in [D -> T] /\ \A y \in T : \E d \in D : y = f[d]
  BY <1>2, <1>3
<1>5. IsFiniteSet(T)
  BY <1>1, <1>4, ImageSmall
<1>6. T \in SUBSET Jobs
  <2>1. "STOP" \in Buttons
    BY DEF Buttons
  <2>2. \A d \in D : Job(d, "STOP", Sent[d].repeats) \in Jobs
    BY <2>1, JobIsJob
  <2> QED
    BY <1>2, <2>2
<1> QED
  BY <1>2, <1>5, <1>6, SetToSeqLists

LEMMA AdmitKeeps ==
  ASSUME SyncAssumption, IInv, NEW c \in Command, Admit(c)
  PROVE  IInv'
<1>1. PICK b \in Bridge : b = Sent[c].bridge
  BY DEF SyncAssumption
<1>2. PICK begun : \E older \in SUBSET Command, owed \in SUBSET Command :
        /\ radio' = [radio EXCEPT ![b] =
                        (Only(radio[b], begun) \o SetToSeq({Job(d, "STOP", Sent[d].repeats) : d \in owed}))
                        \o Append(JobsOf(b, Command \ older), Job(c, Sent[c].button, Sent[c].repeats))]
        /\ fate' = [d \in Command |-> IF d \in older THEN "flushed" ELSE fate[d]]
  <2>1. PICK older : older = {d \in queued : /\ Sent[d].bridge = b /\ fate[d] = "whole"
                                              /\ Overlap(Sent[d].chans, Sent[c].chans)
                                              /\ \/ JobsOf(b, {d}) # <<>>
                                                 \/ Armed(d)}
    OBVIOUS
  <2>2. PICK owed : owed = {d \in older : Armed(d)}
    OBVIOUS
  <2>3. PICK begun : begun = {j \in ToSet(radio[b]) : j.cmd \in older /\ j.button = "STOP" /\ Timed(j.cmd)}
    OBVIOUS
  <2>4. older \subseteq Command /\ owed \subseteq Command
    BY <2>1, <2>2 DEF IInv, Typed
  <2>5. /\ radio' = [radio EXCEPT ![b] =
                        (Only(radio[b], begun) \o SetToSeq({Job(d, "STOP", Sent[d].repeats) : d \in owed}))
                        \o Append(JobsOf(b, Command \ older), Job(c, Sent[c].button, Sent[c].repeats))]
        /\ fate' = [d \in Command |-> IF d \in older THEN "flushed" ELSE fate[d]]
    BY <1>1, <2>1, <2>2, <2>3 DEF Admit
  <2> QED
    BY <2>4, <2>5
<1>3. PICK older \in SUBSET Command, owed \in SUBSET Command :
        /\ radio' = [radio EXCEPT ![b] =
                        (Only(radio[b], begun) \o SetToSeq({Job(d, "STOP", Sent[d].repeats) : d \in owed}))
                        \o Append(JobsOf(b, Command \ older), Job(c, Sent[c].button, Sent[c].repeats))]
        /\ fate' = [d \in Command |-> IF d \in older THEN "flushed" ELSE fate[d]]
  BY <1>2
<1>4. radio' \in [Bridge -> Seq(Jobs)]
  <2>1. PICK s : s = Only(radio[b], begun) /\ s \in Seq(Jobs)
    BY OnlyKeeps DEF IInv, Typed
  <2>2. PICK t : t = SetToSeq({Job(d, "STOP", Sent[d].repeats) : d \in owed}) /\ t \in Seq(Jobs)
    BY <1>3, StopsListed
  <2>3. PICK u : u = JobsOf(b, Command \ older) /\ u \in Seq(Jobs)
    BY JobsOfKept DEF IInv
  <2>4. PICK j : j = Job(c, Sent[c].button, Sent[c].repeats) /\ j \in Jobs
    <3>1. Sent[c].button \in Buttons
      BY DEF SyncAssumption
    <3> QED
      BY <3>1, JobIsJob
  <2>5. Append(u, j) \in Seq(Jobs)
    BY <2>3, <2>4
  <2>6. s \o t \in Seq(Jobs)
    BY <2>1, <2>2, ConcatKeeps
  <2>7. PICK w : w = (s \o t) \o Append(u, j) /\ w \in Seq(Jobs)
    BY <2>5, <2>6, ConcatKeeps
  <2>8. radio' = [radio EXCEPT ![b] = w]
    BY <1>3, <2>1, <2>2, <2>3, <2>4, <2>7
  <2> QED
    BY <2>7, <2>8 DEF IInv, Typed
<1>5. fate' \in [Command -> Fates]
  BY <1>3 DEF IInv, Typed, Fates
<1>6. queued' \subseteq cast \cap Command
  BY DEF Admit, IInv, Typed
<1>7. UNCHANGED <<now, cast, rx, phase, sent, anchor, swept, start, spoken, air>>
  BY DEF Admit, hub
<1>8. Typed'
  BY <1>4, <1>5, <1>6, <1>7 DEF IInv, Typed
<1>9. Tidy(rx)' /\ Grounded' /\ Dated' /\ Remembering'
  BY <1>7 DEF IInv, Grounded, Waited, Dated, Events, SigsAt, Remembering
<1> QED
  BY <1>8, <1>9 DEF IInv

LEMMA AbortKeeps ==
  ASSUME SyncAssumption, IInv, NEW c \in Command, Abort(c)
  PROVE  IInv'
<1>1. PICK b \in Bridge : b = Sent[c].bridge
  BY DEF SyncAssumption
<1>2. PICK u : u = JobsOf(b, Command \ {c}) /\ u \in Seq(Jobs)
  BY JobsOfKept DEF IInv
<1>3. radio' = [radio EXCEPT ![b] = u]
  BY <1>1, <1>2 DEF Abort
<1>4. radio' \in [Bridge -> Seq(Jobs)]
  BY <1>2, <1>3 DEF IInv, Typed
<1>5. fate' \in [Command -> Fates]
  BY DEF Abort, IInv, Typed, Fates
<1>6. UNCHANGED <<now, cast, rx, phase, sent, anchor, swept, start, queued, spoken, air>>
  BY DEF Abort, hub
<1>7. Typed'
  BY <1>4, <1>5, <1>6 DEF IInv, Typed
<1>8. Tidy(rx)' /\ Grounded' /\ Dated' /\ Remembering'
  BY <1>6 DEF IInv, Grounded, Waited, Dated, Events, SigsAt, Remembering
<1> QED
  BY <1>7, <1>8 DEF IInv

LEMMA ReportShape ==
  ASSUME NEW src, NEW sig, NEW ls, NEW m \in Reports(src, sig, ls)
  PROVE  /\ DOMAIN m = {"src", "sig", "at", "by", "heard", "received"}
         /\ m.at = now /\ m.sig = sig /\ m.by \in ls
<1>1. PICK b \in ls : m = [src |-> src, sig |-> sig, at |-> now, by |-> b, heard |-> Never, received |-> Never]
  BY DEF Reports
<1> QED
  BY <1>1

LEMMA SmallerYet ==
  ASSUME NEW S, NEW T, NEW B, IsFiniteSet(S), IsFiniteSet(B),
         Cardinality(S) <= Cardinality(B), T \subseteq S
  PROVE  IsFiniteSet(T) /\ Cardinality(T) <= Cardinality(B)
<1>1. IsFiniteSet(T) /\ Cardinality(T) <= Cardinality(S)
  BY FS_Subset
<1>2. Cardinality(T) \in Nat /\ Cardinality(S) \in Nat /\ Cardinality(B) \in Nat
  BY <1>1, FS_CardinalityType
<1> QED
  BY <1>1, <1>2, Below

\* New reports of the present instant, at which there was no event yet, by
\* no more senders than there are bridges.
LEMMA ReportsAdded ==
  ASSUME SyncAssumption, Typed, Tidy(rx), Dated, Remembering, rx' = rx,
         NEW new, air' \subseteq air \cup new,
         \A m \in new : /\ DOMAIN m = {"src", "sig", "at", "by", "heard", "received"}
                        /\ m.at = now /\ m.by \in Bridge /\ m.sig.button \in Buttons,
         \A m \in air' : now' - m.at <= ReportDelay,
         now' \in Nat, now <= now',
         \A ev \in Events : ev.at # now \/ new = {},
         now' = now => \E p \in Press : spoken'[p] = now,
         NEW S, IsFiniteSet(S), Cardinality(S) <= Cardinality(Bridge), \A m \in new : m.sig \in S
  PROVE  Dated' /\ Remembering'
<1>1. now \in Nat
  BY Bounds DEF Typed
<1>2. \A ev \in Events' : ev \in Events \/ \E m \in new : ev = Exact(m)
  BY DEF Events
<1>3. \A m \in new : /\ EventOf(Exact(m)) /\ Exact(m).at = now /\ Exact(m).by \in Bridge
                     /\ Exact(m).sig \in S
  BY ExactFields
<1>4. ASSUME NEW m \in air'
      PROVE  /\ DOMAIN m = {"src", "sig", "at", "by", "heard", "received"}
             /\ now' - m.at <= ReportDelay /\ m.sig.button \in Buttons
  BY DEF Dated
<1>5. ASSUME NEW ev \in Events'
      PROVE  /\ EventOf(ev) /\ ev.by \in Bridge /\ ev.at \in 0..now'
             /\ ev.at = now' => \E p \in Press : spoken'[p] = now'
  <2>1. EventOf(ev) /\ ev.by \in Bridge /\ ev.at \in 0..now
    <3>1. now \in 0..now
      BY <1>1
    <3>2. CASE ev \in Events
      BY <3>2 DEF Dated
    <3>3. CASE \E m \in new : ev = Exact(m)
      BY <1>3, <3>1, <3>3
    <3> QED
      BY <1>2, <3>2, <3>3
  <2>2. ev.at \in 0..now' /\ (ev.at = now' => now' = now)
    BY <1>1, <2>1
  <2> QED
    BY <2>1, <2>2
<1>6. ASSUME NEW t \in Int
      PROVE  IsFiniteSet(SigsAt(t)') /\ Cardinality(SigsAt(t)') <= Cardinality(Bridge)
  <2>1. CASE SigsAt(t)' \subseteq SigsAt(t)
    <3>1. IsFiniteSet(SigsAt(t)) /\ Cardinality(SigsAt(t)) <= Cardinality(Bridge)
      BY DEF Dated
    <3> QED
      BY <2>1, <3>1, Bounds, SmallerYet
  <2>2. CASE SigsAt(t)' \subseteq S
    BY <2>2, Bounds, SmallerYet
  <2>3. SigsAt(t)' \subseteq SigsAt(t) \/ SigsAt(t)' \subseteq S
    <3>1. CASE t = now /\ new # {}
      <4>1. ASSUME NEW ev \in Events', ev.at = t PROVE ev.sig \in S
        BY <1>2, <1>3, <3>1, <4>1
      <4> QED
        BY <4>1 DEF SigsAt
    <3>2. CASE ~(t = now /\ new # {})
      <4>1. ASSUME NEW ev \in Events', ev.at = t PROVE ev \in Events
        BY <1>2, <1>3, <3>2, <4>1
      <4> QED
        BY <4>1 DEF SigsAt
    <3> QED
      BY <3>1, <3>2
  <2> QED
    BY <2>1, <2>2, <2>3
<1>7. Dated'
  BY <1>4, <1>5, <1>6 DEF Dated
<1>8. ASSUME NEW m \in air', Exact(m) \in Taken(rx)
      PROVE  \E x \in Range(rx.exact) : x.event = Exact(m)
  <2>1. m \in air
    <3>1. Exact(m) \in Events
      BY <1>8 DEF Events
    <3>2. Exact(m).at # now \/ new = {}
      BY <3>1
    <3> QED
      BY <1>3, <3>2
  <2> QED
    BY <1>8, <2>1 DEF Remembering
<1>9. \A x \in Range(rx.exact) : x.seen \in 0..now'
  BY <1>1 DEF Remembering
<1>10. Remembering'
  BY <1>8, <1>9 DEF Remembering
<1> QED
  BY <1>7, <1>10

LEMMA PressButtonKeeps ==
  ASSUME SyncAssumption, IInv, NEW p \in Press, PressButton(p)
  PROVE  IInv'
<1>1. PICK sig : sig = Signature(Pressed[p].chans, Pressed[p].button)
  OBVIOUS
<1>2. PICK listeners \in (SUBSET Bridge) \ {{}} : air' = air \cup Reports(p, sig, listeners)
  BY <1>1 DEF PressButton
<1>3. /\ UNCHANGED <<now, cast, rx, phase, sent, anchor, swept, start, radio, queued, fate>>
      /\ spoken' = [spoken EXCEPT ![p] = now] /\ \A q \in Press : spoken[q] # now
  BY DEF PressButton, hub
<1>4. now \in Nat
  BY Bounds DEF IInv, Typed
<1>5. spoken' \in [Press -> {Never} \cup 0..now] /\ spoken'[p] = now
  <2>1. now \in 0..now
    BY <1>4
  <2> QED
    BY <1>3, <2>1 DEF IInv, Typed
<1>6. Typed'
  BY <1>3, <1>5 DEF IInv, Typed
<1>7. PICK new : new = Reports(p, sig, listeners)
  OBVIOUS
<1>8. sig.button \in Buttons
  BY <1>1 DEF Signature, SyncAssumption
<1>9. \A m \in new : /\ DOMAIN m = {"src", "sig", "at", "by", "heard", "received"}
                     /\ m.at = now /\ m.by \in Bridge /\ m.sig.button \in Buttons /\ m.sig \in {sig}
  BY <1>7, <1>8, ReportShape
<1>10. IsFiniteSet({sig}) /\ Cardinality({sig}) <= Cardinality(Bridge)
  <2>1. IsFiniteSet({sig}) /\ Cardinality({sig}) = 1
    BY FS_Singleton
  <2>2. Cardinality(Bridge) \in Nat /\ Cardinality(Bridge) # 0
    BY Bounds, FS_EmptySet, FS_CardinalityType
  <2> QED
    BY <2>1, <2>2
<1>11. \A m \in air' : now' - m.at <= ReportDelay
  <2>1. now - now <= ReportDelay
    BY <1>4, Bounds
  <2> QED
    BY <1>2, <1>3, <1>7, <1>9, <2>1 DEF IInv, Dated
<1>12. \A ev \in Events : ev.at # now \/ new = {}
  BY <1>3 DEF IInv, Dated
<1>13. PICK S : S = {sig}
  OBVIOUS
<1>14. air' \subseteq air \cup new /\ now' \in Nat /\ now <= now'
  BY <1>2, <1>3, <1>4, <1>7
<1>15. Dated' /\ Remembering'
  <2>1. \A m \in new : m.sig \in S
    BY <1>9, <1>13
  <2>2. IsFiniteSet(S) /\ Cardinality(S) <= Cardinality(Bridge)
    BY <1>10, <1>13
  <2>3. now' = now => \E q \in Press : spoken'[q] = now
    BY <1>5
  <2> QED
    BY <1>3, <1>9, <1>11, <1>12, <1>14, <2>1, <2>2, <2>3, ReportsAdded DEF IInv
<1>16. Tidy(rx)' /\ Grounded'
  BY <1>3 DEF IInv, Grounded, Waited
<1> QED
  BY <1>6, <1>15, <1>16 DEF IInv

LEMMA WorkKept ==
  ASSUME SyncAssumption, Typed, NEW b \in Bridge
  PROVE  Work(b) \in Seq(Jobs)
<1>1. PICK late : late = Due(b)
  OBVIOUS
<1>2. late \in SUBSET Command
  BY <1>1 DEF Due, Typed
<1>3. PICK s : s = SetToSeq({Job(c, "STOP", Sent[c].repeats) : c \in late}) /\ s \in Seq(Jobs)
  BY <1>2, StopsListed
<1>4. PICK t : t = JobsOf(b, Command \ late) /\ t \in Seq(Jobs)
  BY JobsOfKept
<1>5. Work(b) = s \o t
  BY <1>1, <1>3, <1>4 DEF Work
<1> QED
  BY <1>3, <1>4, <1>5, ConcatKeeps

LEMMA RestKept ==
  ASSUME NEW w \in Seq(Jobs), w # <<>>
  PROVE  Rest(w) \in Seq(Jobs) /\ Head(w).cmd \in Command /\ Head(w).button \in Buttons
<1>1. PICK j \in Jobs : j = Head(w)
  BY TailKeeps
<1>2. PICK t \in Seq(Jobs) : t = Tail(w)
  BY TailKeeps
<1>3. [j EXCEPT !.left = @ - 1] \in Jobs
  <2>1. /\ j = [cmd |-> j.cmd, button |-> j.button, left |-> j.left]
        /\ j.cmd \in Command /\ j.button \in Buttons /\ j.left \in Int
    BY DEF Jobs
  <2>2. PICK n \in Int : n = j.left - 1
    BY <2>1
  <2>3. [j EXCEPT !.left = @ - 1] = [cmd |-> j.cmd, button |-> j.button, left |-> n]
    BY <2>1, <2>2
  <2> QED
    BY <2>1, <2>3 DEF Jobs
<1>4. PICK more \in Seq(Jobs) : more = IF j.left = 1 THEN <<>> ELSE <<[j EXCEPT !.left = @ - 1]>>
  <2>1. PICK d \in Jobs : d = [j EXCEPT !.left = @ - 1]
    BY <1>3
  <2>2. <<>> \in Seq(Jobs) /\ <<d>> \in Seq(Jobs)
    OBVIOUS
  <2> QED
    BY <2>1, <2>2
<1>5. Rest(w) = IF j.button = "STOP" THEN more \o t ELSE t \o more
  BY <1>1, <1>2, <1>4 DEF Rest
<1>6. more \o t \in Seq(Jobs) /\ t \o more \in Seq(Jobs)
  BY ConcatKeeps
<1> QED
  BY <1>1, <1>5, <1>6 DEF Jobs

LEMMA TickKeeps ==
  ASSUME SyncAssumption, IInv, Tick
  PROVE  IInv'
<1>1. PICK work : work = [b \in Bridge |-> Work(b)]
  OBVIOUS
<1>2. PICK busy \in SUBSET Bridge : busy = {b \in Bridge : work[b] # <<>>}
  OBVIOUS
<1>3. PICK sig : sig = [b \in busy |-> Signature(Sent[Head(work[b]).cmd].chans, Head(work[b]).button)]
  OBVIOUS
<1>4. PICK echo : echo = [b \in busy |-> Reports(Head(work[b]).cmd, sig[b], Bridge \ {b})]
  OBVIOUS
<1>5. /\ now < MaxTime /\ now - swept < Interval /\ now' = now + 1
      /\ radio' = [b \in Bridge |-> IF b \in busy THEN Rest(work[b]) ELSE <<>>]
      /\ start' = [c \in Command |->
                      IF start[c] = Never /\ \E b \in busy : Head(work[b]).cmd = c
                      THEN now ELSE start[c]]
      /\ UNCHANGED <<cast, rx, phase, sent, anchor, swept, queued, fate, spoken>>
  BY <1>1, <1>2 DEF Tick, hub
<1>6. PICK heard \in SUBSET {b \in busy : \A p \in Press : spoken[p] # now} :
        air' = {m \in air : now' - m.at <= ReportDelay} \cup UNION {echo[b] : b \in heard}
  <2> DEFINE w == [b \in Bridge |-> Work(b)]
             all == {b \in Bridge : w[b] # <<>>}
             said(b) == Reports(Head(w[b]).cmd,
                                Signature(Sent[Head(w[b]).cmd].chans, Head(w[b]).button),
                                Bridge \ {b})
  <2>1. \E heard \in SUBSET {b \in all : \A p \in Press : spoken[p] # now} :
          air' = {m \in air : now' - m.at <= ReportDelay} \cup UNION {said(b) : b \in heard}
    BY Zenon DEF Tick
  <2>2. w = work /\ all = busy
    BY <1>1, <1>2
  <2>3. \A b \in busy : said(b) = echo[b]
    BY <1>3, <1>4, <2>2
  <2> HIDE DEF w, all, said
  <2>4. PICK heard \in SUBSET {b \in busy : \A p \in Press : spoken[p] # now} :
          air' = {m \in air : now' - m.at <= ReportDelay} \cup UNION {said(b) : b \in heard}
    BY <2>1, <2>2
  <2>5. {said(b) : b \in heard} = {echo[b] : b \in heard}
    BY <2>3
  <2> QED
    BY <2>4, <2>5
<1>7. \A b \in Bridge : work[b] \in Seq(Jobs)
  BY <1>1, WorkKept DEF IInv
<1>8. ASSUME NEW b \in busy
      PROVE  /\ Rest(work[b]) \in Seq(Jobs) /\ Head(work[b]).cmd \in Command
             /\ Head(work[b]).button \in Buttons
  BY <1>2, <1>7, RestKept
<1>9. now \in Nat /\ now \in 0..now' /\ now' \in 0..MaxTime /\ now <= now' /\ now' # now
      /\ 0..now \subseteq 0..now'
  <2>1. now \in Nat /\ MaxTime \in Nat
    BY Bounds DEF IInv, Typed
  <2>0. now < MaxTime /\ now' = now + 1
    BY <1>5
  <2>2. PICK n \in Nat, m \in Int : n = now /\ m = now'
    BY <2>0, <2>1
  <2>3. m = n + 1 /\ m <= MaxTime
    BY <2>0, <2>1, <2>2
  <2>4. m \in 0..MaxTime /\ n \in 0..m /\ n <= m /\ m # n /\ 0..n \subseteq 0..m
    BY <2>1, <2>3
  <2> QED
    BY <2>1, <2>2, <2>4
<1>10. Typed'
  <2>1. radio' \in [Bridge -> Seq(Jobs)]
    <3>1. <<>> \in Seq(Jobs)
      OBVIOUS
    <3> QED
      BY <1>5, <1>8, <3>1
  <2>2. swept \in 0..now' /\ now' - swept <= Interval
    <3>1. swept \in Int /\ Interval \in Nat /\ swept \in 0..now
      BY <1>9, Bounds DEF IInv, Typed
    <3>2. now' - swept <= Interval
      <4>1. PICK n \in Int, s \in Int, i \in Int : n = now /\ s = swept /\ i = Interval
        BY <1>9, <3>1
      <4>2. n - s < i
        BY <1>5, <4>1
      <4>3. n + 1 - s <= i
        BY <4>2
      <4> QED
        BY <1>5, <4>1, <4>3
    <3> QED
      BY <1>9, <3>1, <3>2
  <2>3. start' \in [Command -> {Never} \cup 0..now']
    BY <1>5, <1>9 DEF IInv, Typed
  <2>4. \A c \in Command : anchor[c] # Never => start'[c] # Never /\ start'[c] <= anchor[c]
    BY <1>5 DEF IInv, Typed
  <2>5. /\ sent' \in [Command -> {Never} \cup 0..now'] /\ anchor' \in [Command -> {Never} \cup 0..now']
        /\ spoken' \in [Press -> {Never} \cup 0..now']
    BY <1>5, <1>9 DEF IInv, Typed
  <2> QED
    BY <1>5, <1>9, <2>1, <2>2, <2>3, <2>4, <2>5 DEF IInv, Typed
<1>11. PICK new : new = UNION {echo[b] : b \in heard}
  OBVIOUS
<1>12. PICK S : S = {sig[b] : b \in heard}
  OBVIOUS
<1>13. heard \subseteq busy /\ heard \subseteq Bridge
  BY <1>2, <1>6
<1>14. ASSUME NEW m \in new
       PROVE  /\ DOMAIN m = {"src", "sig", "at", "by", "heard", "received"}
              /\ m.at = now /\ m.by \in Bridge /\ m.sig.button \in Buttons /\ m.sig \in S
  <2>1. PICK b \in heard : m \in echo[b]
    BY <1>11
  <2>2. m \in Reports(Head(work[b]).cmd, sig[b], Bridge \ {b})
    BY <1>4, <1>13, <2>1
  <2>3. /\ DOMAIN m = {"src", "sig", "at", "by", "heard", "received"}
        /\ m.at = now /\ m.sig = sig[b] /\ m.by \in Bridge
    BY <2>2, ReportShape
  <2>4. sig[b].button \in Buttons
    BY <1>3, <1>8, <1>13, <2>1 DEF Signature
  <2> QED
    BY <1>12, <2>1, <2>3, <2>4
<1>15. IsFiniteSet(S) /\ Cardinality(S) <= Cardinality(Bridge)
  <2>1. IsFiniteSet(heard) /\ Cardinality(heard) <= Cardinality(Bridge)
    BY <1>13, Bounds, FS_Subset
  <2>2. PICK f : f = [b \in heard |-> sig[b]]
    OBVIOUS
  <2>3. f \in [heard -> S] /\ \A y \in S : \E b \in heard : y = f[b]
    BY <1>12, <2>2
  <2>4. IsFiniteSet(S) /\ Cardinality(S) <= Cardinality(heard)
    BY <2>1, <2>3, ImageSmall
  <2>5. Cardinality(S) \in Nat /\ Cardinality(heard) \in Nat /\ Cardinality(Bridge) \in Nat
    BY <2>1, <2>4, Bounds, FS_CardinalityType
  <2> QED
    BY <2>1, <2>4, <2>5, Below
<1>16. \A ev \in Events : ev.at # now \/ new = {}
  <2>1. SUFFICES ASSUME NEW ev \in Events, ev.at = now PROVE new = {}
    OBVIOUS
  <2>2. PICK p \in Press : spoken[p] = now
    BY <2>1 DEF IInv, Dated
  <2>3. heard = {}
    BY <1>6, <2>2
  <2> QED
    BY <1>11, <2>3
<1>17. \A m \in air' : now' - m.at <= ReportDelay
  <2>1. ReportDelay \in Nat \ {0}
    BY Bounds
  <2>2. now' - now <= ReportDelay
    BY <1>5, <1>9, <2>1
  <2> QED
    BY <1>6, <1>11, <1>14, <2>2
<1>18. air' \subseteq air \cup new /\ now' \in Nat
  BY <1>5, <1>6, <1>9, <1>11
<1>19. Dated' /\ Remembering'
  <2>1. now' = now => \E p \in Press : spoken'[p] = now
    BY <1>9
  <2> QED
    BY <1>5, <1>9, <1>14, <1>15, <1>16, <1>17, <1>18, <2>1, ReportsAdded DEF IInv
<1>20. Tidy(rx)' /\ Grounded'
  BY <1>5, <1>9 DEF IInv, Grounded, Waited
<1> QED
  BY <1>10, <1>19, <1>20 DEF IInv

----------------------------------------------------------------------------
(* The theorems. *)

LEMMA InitHolds ==
  ASSUME SyncAssumption, Init
  PROVE  IInv
<1>1. MaxTime \in Nat /\ Interval \in Nat /\ 0 \in 0..MaxTime
  BY Bounds
<1>2. Typed
  <2>1. \A b \in Bridge : <<>> \in Seq(Jobs)
    OBVIOUS
  <2>2. 0 \in 0..0 /\ 0 - 0 <= Interval
    BY <1>1
  <2> QED
    BY <1>1, <2>1, <2>2 DEF Init, Typed, Phases, Fates
<1>3. /\ DOMAIN rx = Fields /\ rx.ledger = <<>> /\ rx.holds = <<>> /\ rx.debounce = <<>>
      /\ rx.starts = <<>> /\ rx.exact = <<>> /\ rx.settled = {}
  BY DEF Init, Fresh, Fields
<1>4. /\ Listed(<<>>) /\ Range(<<>>) = {} /\ Len(<<>>) = 0 /\ DOMAIN <<>> = {}
  BY EmptyListed, ListedShape
<1>5. Tidy(rx) /\ Taken(rx) = {}
  BY <1>3, <1>4, Bounds DEF Tidy, Tables, Ledgered, HeldOnce, HeldSet, Taken
<1>6. Grounded
  BY <1>3, <1>4 DEF Grounded, Cmds, Open
<1>7. Events = {}
  BY <1>5 DEF Init, Events
<1>8. Dated
  <2>1. \A t : SigsAt(t) = {}
    BY <1>7 DEF SigsAt
  <2>2. Cardinality(Bridge) \in Nat /\ IsFiniteSet({}) /\ Cardinality({}) = 0
    BY Bounds, FS_CardinalityType, FS_EmptySet
  <2>3. \A t \in Int : IsFiniteSet(SigsAt(t)) /\ Cardinality(SigsAt(t)) <= Cardinality(Bridge)
    <3>1. Cardinality({}) <= Cardinality(Bridge)
      BY <2>2
    <3> QED
      BY <2>1, <2>2, <3>1
  <2> QED
    BY <1>7, <2>3 DEF Init, Dated
<1>9. Remembering
  BY <1>3, <1>4 DEF Init, Remembering, Memo
<1> QED
  BY <1>2, <1>5, <1>6, <1>8, <1>9 DEF IInv

LEMMA NextKeeps ==
  ASSUME SyncAssumption, IInv, [Next]_vars
  PROVE  IInv'
<1>1. CASE \E c \in Command : \/ Publish(c) \/ StartedStatus(c) \/ Confirm(c) \/ Fail(c)
                              \/ DisplacedStatus(c) \/ Disarmed(c)
                              \/ Admit(c) \/ Abort(c)
  BY <1>1, PublishKeeps, StartedStatusKeeps, ConfirmKeeps, FailKeeps, DisplacedStatusKeeps,
     DisarmedKeeps, AdmitKeeps, AbortKeeps
<1>2. CASE \E p \in Press : PressButton(p)
  BY <1>2, PressButtonKeeps
<1>3. CASE \E m \in air : Deliver(m)
  BY <1>3, DeliverKeeps
<1>4. CASE Sweep
  BY <1>4, SweepKeeps
<1>5. CASE Tick
  BY <1>5, TickKeeps
<1>6. CASE UNCHANGED vars
  BY <1>6 DEF vars, IInv, Typed, Grounded, Waited, Dated, Events, SigsAt, Remembering
<1> QED
  BY <1>1, <1>2, <1>3, <1>4, <1>5, <1>6 DEF Next

\* Whatever the hub, the bridges and the people do: the consumer stays tidy,
\* holds wait for callers that are still there, and no event is forgotten while
\* a copy of it may come.
THEOREM Invariant == Spec => []IInv
<1>1. Init => IInv
  BY InitHolds, SyncAssumption
<1>2. IInv /\ [Next]_vars => IInv'
  BY NextKeeps, SyncAssumption
<1> QED
  BY <1>1, <1>2, PTL DEF Spec

\* The state is well typed, and the ledger, the holds and the caches of the
\* consumer (_enforce_caps, _hold, _prune) never outgrow their bounds.
THEOREM TypeCorrect == Spec => []TypeOK
<1>1. IInv => TypeOK
  <2>1. SUFFICES ASSUME IInv PROVE TypeOK
    OBVIOUS
  <2>2. \A e \in ToSet(rx.ledger) : e.cmd \in cast /\ e.phase \in {"pending", "confirmed"}
    BY <2>1, SetIsRange DEF IInv, Grounded, Cmds, Tidy, Tables, Ledgered
  <2>3. \A m \in air : m.sig.button \in Buttons /\ m.at <= now
    <3>1. SUFFICES ASSUME NEW m \in air PROVE m.sig.button \in Buttons /\ m.at <= now
      OBVIOUS
    <3>2. Exact(m) \in Events
      BY DEF Events
    <3>3. m.at \in 0..now
      BY <2>1, <3>2, ExactFields DEF IInv, Dated
    <3>4. now \in Nat
      BY <2>1, SyncAssumption, Bounds DEF IInv, Typed
    <3> QED
      BY <2>1, <3>3, <3>4 DEF IInv, Dated
  <2>4. \A c \in Command : {sent[c], start[c], anchor[c]} \subseteq {Never} \cup 0..now
    BY <2>1 DEF IInv, Typed
  <2> QED
    BY <2>1, <2>2, <2>3, <2>4 DEF IInv, Typed, Tidy, Tables, TypeOK
<1> QED
  BY <1>1, Invariant, PTL

\* handle_rx, maintain and resume_holds account for every report: what was
\* taken in is settled or held, not both, and is not lost.
THEOREM AccountedFor == Spec => []Accounted
<1>1. IInv => Accounted
  <2>1. Caps = HeldSet(rx.holds)
    BY SetIsRange DEF Caps, HeldSet
  <2> QED
    BY <2>1, SetIsRange DEF IInv, Tidy, Remembering, Taken, Accounted
<1> QED
  BY <1>1, Invariant, PTL

\* A hold lives only as long as _async_execute waits for the start of its
\* command (resume_holds), and no longer than its age and a period of the timer.
THEOREM HoldsAreEnded == Spec => []HoldsEnd
<1>1. IInv => HoldsEnd
  <2>1. SUFFICES ASSUME IInv, NEW h \in Range(rx.holds)
                 PROVE  /\ phase[h.cmd] \in {"published", "known", "displaced"}
                        /\ now - h.seen <= HoldTtl + Interval
    BY SetIsRange DEF HoldsEnd
  <2>2. Waited(h.cmd) /\ h.seen \in 0..now /\ swept - h.seen <= HoldTtl
    BY <2>1 DEF IInv, Grounded
  <2>3. now - swept <= Interval /\ swept \in 0..now /\ now \in Nat
    BY <2>1, SyncAssumption, Bounds DEF IInv, Typed
  <2>4. PICK s \in Int, t \in Int, n \in Int, a \in Int, b \in Int :
          s = swept /\ t = h.seen /\ n = now /\ a = HoldTtl /\ b = Interval
    BY <2>2, <2>3, SyncAssumption, Bounds
  <2>5. n - s <= b /\ s - t <= a
    BY <2>2, <2>3, <2>4
  <2>6. n - t <= a + b
    BY <2>5
  <2> QED
    BY <2>2, <2>4, <2>6 DEF Waited
<1> QED
  BY <1>1, Invariant, PTL
=============================================================================
