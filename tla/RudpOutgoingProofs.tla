-------------------------- MODULE RudpOutgoingProofs --------------------------
(* Proofs about the operators of RudpOutgoing, above all about sums.              *)
EXTENDS RudpOutgoing, FiniteSetTheorems, WellFoundedInduction, TLAPS

--------------------------------------------------------------------------------
(* The least of a set of numbers.                                                 *)
LEMMA LeastNumber ==
  ASSUME NEW N \in SUBSET Nat, N # {}
  PROVE  \E n \in N : \A m \in N : ~(m < n)
<1> DEFINE R == {p \in Nat \X Nat : p[1] < p[2]}
<1>1. IsWellFoundedOn(R, Nat)
  BY NatLessThanWellFounded, Zenon DEF OpToRel
<1>2. PICK n \in N : \A m \in N : <<m, n>> \notin R
  BY <1>1, WFMin, Zenon
<1>3. ASSUME NEW m \in N, m < n PROVE FALSE
  <2>1. <<m, n>> \in R
    BY <1>3
  <2> QED
    BY <1>2, <2>1, Zenon
<1> QED
  BY <1>3

(* Induction over the subsets of a finite set: a family P that has a set whenever *)
(* it has its proper subsets has them all.                                        *)
LEMMA SubsetInduction ==
  ASSUME NEW T, IsFiniteSet(T), NEW P,
         \A s \in SUBSET T : (\A u \in SUBSET s : u # s => u \in P) => s \in P
  PROVE  \A s \in SUBSET T : s \in P
<1> SUFFICES ASSUME NEW s0 \in SUBSET T, s0 \notin P PROVE FALSE
  OBVIOUS
<1> DEFINE Bad == {s \in SUBSET T : s \notin P}
           N == {Cardinality(s) : s \in Bad}
<1>1. \A s \in SUBSET T : IsFiniteSet(s) /\ Cardinality(s) \in Nat
  BY FS_Subset, FS_CardinalityType
<1>2. N \in SUBSET Nat /\ N # {}
  BY <1>1
<1>4. PICK n \in N : \A m \in N : ~(m < n)
  <2> HIDE DEF N
  <2> QED
    BY <1>2, LeastNumber
<1>5. PICK s \in Bad : n = Cardinality(s)
  BY <1>4
<1>6. ASSUME NEW u \in SUBSET s, u # s PROVE u \in P
  <2> SUFFICES ASSUME u \notin P PROVE FALSE
    OBVIOUS
  <2>1. u \in SUBSET T /\ u \in Bad /\ Cardinality(u) \in N
    BY <1>5, <1>6
  <2>2. IsFiniteSet(s) /\ Cardinality(s) \in Nat /\ Cardinality(u) \in Nat
    BY <1>1, <1>5, <2>1
  <2>3. Cardinality(u) <= Cardinality(s) /\ Cardinality(u) # Cardinality(s)
    BY <1>6, <2>2, FS_Subset
  <2>4. Cardinality(u) < Cardinality(s)
    BY <2>2, <2>3
  <2> QED
    BY <1>4, <1>5, <2>1, <2>4
<1> QED
  BY <1>5, <1>6

--------------------------------------------------------------------------------
(* A tally of f has the sum of f over every subset of a set T, which it adds up   *)
(* an element at a time.                                                          *)

Any(s) == CHOOSE x \in s : TRUE

IsTally(t, f, T) ==
  t = [s \in SUBSET T |-> IF s = {} THEN 0 ELSE f[Any(s)] + t[s \ {Any(s)}]]

Tally(f, T) == CHOOSE t : IsTally(t, f, T)

LEMMA SumIsTally ==
  ASSUME NEW f
  PROVE  SumOf(f) = Tally(f, DOMAIN f)[DOMAIN f]
BY Zenon DEF SumOf, FoldFunction, FoldFunctionOnSet, MapThenFoldSet, Tally, IsTally, Any

LEMMA AnyOf ==
  ASSUME NEW s, s # {}
  PROVE  Any(s) \in s
BY Zenon DEF Any

(* What a tally has for a set, from what it has for a smaller one.                *)
TallyAt(t, f, s) == IF s = {} THEN 0 ELSE f[Any(s)] + t[s \ {Any(s)}]

LEMMA TallyStep ==
  ASSUME NEW t, NEW f, NEW T, IsTally(t, f, T), NEW s \in SUBSET T
  PROVE  t[s] = TallyAt(t, f, s)
<1>1. t = [u \in SUBSET T |-> TallyAt(t, f, u)]
  BY Zenon DEF IsTally, TallyAt
<1>2. [u \in SUBSET T |-> TallyAt(t, f, u)][s] = TallyAt(t, f, s)
  OBVIOUS
<1> QED
  BY <1>1, <1>2, Zenon

(* Two tallies have the same for a set that both are for.                         *)
LEMMA TalliesAgree ==
  ASSUME NEW t, NEW u, NEW f, NEW g, NEW T, NEW U, IsTally(t, f, T), IsTally(u, g, U),
         NEW W, IsFiniteSet(W), W \subseteq T, W \subseteq U, \A x \in W : f[x] = g[x]
  PROVE  t[W] = u[W]
<1> DEFINE P == {s \in SUBSET W : t[s] = u[s]}
<1>1. ASSUME NEW s \in SUBSET W, \A v \in SUBSET s : v # s => v \in P PROVE s \in P
  <2>0. s \in SUBSET T /\ s \in SUBSET U
    OBVIOUS
  <2>a. t[s] = TallyAt(t, f, s) /\ u[s] = TallyAt(u, g, s)
    BY <2>0, TallyStep, Zenon
  <2>1. CASE s = {}
    BY <2>a, <2>1, Zenon DEF TallyAt
  <2>2. CASE s # {}
    <3> DEFINE y == Any(s)
    <3>1. y \in s /\ y \in W
      BY <2>2, AnyOf
    <3>2. t[s] = f[y] + t[s \ {y}]
      BY <2>a, <2>2, Zenon DEF TallyAt
    <3>5. u[s] = g[y] + u[s \ {y}]
      BY <2>a, <2>2, Zenon DEF TallyAt
    <3>3. s \ {y} \in P
      BY <1>1, <3>1
    <3>4. f[y] = g[y]
      BY <3>1
    <3> HIDE DEF y
    <3> QED
      BY <3>2, <3>3, <3>4, <3>5
  <2> QED
    BY <2>1, <2>2
<1>2. \A s \in SUBSET W : s \in P
  <2> HIDE DEF P
  <2> QED
    BY <1>1, SubsetInduction
<1> QED
  BY <1>2

(* There is a tally for every finite set.                                         *)
LEMMA TallyExists ==
  ASSUME NEW f, NEW T, IsFiniteSet(T)
  PROVE  IsTally(Tally(f, T), f, T)
<1> DEFINE P == {s \in SUBSET T : \E t : IsTally(t, f, s)}
<1>1. ASSUME NEW s \in SUBSET T, \A v \in SUBSET s : v # s => v \in P PROVE s \in P
  <2> DEFINE V(v) == Tally(f, v)[v]
             e(v) == IF v = {} THEN 0 ELSE f[Any(v)] + V(v \ {Any(v)})
             t == [v \in SUBSET s |-> e(v)]
  <2>0. IsFiniteSet(s) /\ \A v \in SUBSET s : IsFiniteSet(v)
    BY FS_Subset
  <2>1. ASSUME NEW v \in SUBSET s, v # s PROVE IsTally(Tally(f, v), f, v)
    <3>1. \E w : IsTally(w, f, v)
      BY <1>1, <2>1
    <3> QED
      BY <3>1, Zenon DEF Tally
  <2>2. ASSUME NEW v \in SUBSET s, v # s PROVE V(v) = e(v)
    <3>1. IsTally(Tally(f, v), f, v)
      BY <2>1, <2>2
    <3>2. CASE v = {}
      BY <3>1, <3>2, TallyStep, Zenon DEF TallyAt
    <3>3. CASE v # {}
      <4> DEFINE w == v \ {Any(v)}
      <4>1. Any(v) \in v /\ w \in SUBSET s /\ w # s /\ w \subseteq v /\ IsFiniteSet(w)
        BY <2>0, <3>3, AnyOf
      <4>2. V(v) = f[Any(v)] + Tally(f, v)[w]
        BY <3>1, <3>3, TallyStep, Zenon DEF TallyAt
      <4>3. IsTally(Tally(f, w), f, w)
        BY <2>1, <4>1
      <4>4. Tally(f, v)[w] = Tally(f, w)[w]
        <5> HIDE DEF w
        <5> QED
          BY <3>1, <4>1, <4>3, TalliesAgree
      <4> QED
        BY <3>3, <4>2, <4>4, Zenon
    <3> QED
      BY <3>2, <3>3
  <2>3. ASSUME NEW v \in SUBSET s, v # {} PROVE t[v \ {Any(v)}] = V(v \ {Any(v)})
    <3> DEFINE w == v \ {Any(v)}
    <3>1. Any(v) \in v /\ w \in SUBSET s /\ w # s
      BY <2>3, AnyOf
    <3>2. t[w] = e(w)
      <4> HIDE DEF e, w
      <4> QED
        BY <3>1
    <3>3. V(w) = e(w)
      <4> HIDE DEF e, w, V
      <4> QED
        BY <2>2, <3>1
    <3> QED
      BY <3>2, <3>3, Zenon
  <2>4. IsTally(t, f, s)
    <3> DEFINE d(v) == IF v = {} THEN 0 ELSE f[Any(v)] + t[v \ {Any(v)}]
    <3>1. \A v \in SUBSET s : e(v) = d(v)
      BY <2>3, Zenon
    <3> HIDE DEF e, d
    <3>2. t = [v \in SUBSET s |-> d(v)]
      BY <3>1
    <3> QED
      BY <3>2, Zenon DEF IsTally, d
  <2> QED
    BY <2>4
<1>2. \A s \in SUBSET T : s \in P
  <2> HIDE DEF P
  <2> QED
    BY <1>1, SubsetInduction
<1>3. \E t : IsTally(t, f, T)
  BY <1>2
<1> QED
  BY <1>3, Zenon DEF Tally

--------------------------------------------------------------------------------
(* The sum of f over a finite set, an element at a time.                          *)
SumOver(f, s) == Tally(f, s)[s]

LEMMA SumIsSumOver ==
  ASSUME NEW f
  PROVE  SumOf(f) = SumOver(f, DOMAIN f)
BY SumIsTally, Zenon DEF SumOver

LEMMA SumOverStep ==
  ASSUME NEW f, NEW s, IsFiniteSet(s)
  PROVE  /\ s = {} => SumOver(f, s) = 0
         /\ s # {} => SumOver(f, s) = f[Any(s)] + SumOver(f, s \ {Any(s)})
<1> DEFINE w == s \ {Any(s)}
<1>1. IsTally(Tally(f, s), f, s)
  BY TallyExists
<1>2. s \in SUBSET s
  OBVIOUS
<1>3. SumOver(f, s) = TallyAt(Tally(f, s), f, s)
  BY <1>1, <1>2, TallyStep, Zenon DEF SumOver
<1>4. w \subseteq s /\ IsFiniteSet(w)
  BY FS_Subset
<1>5. IsTally(Tally(f, w), f, w)
  BY <1>4, TallyExists, Zenon
<1>6. Tally(f, s)[w] = Tally(f, w)[w]
  <2> HIDE DEF w
  <2> QED
    BY <1>1, <1>4, <1>5, TalliesAgree
<1> QED
  BY <1>3, <1>6, Zenon DEF TallyAt, SumOver

LEMMA SumOverSame ==
  ASSUME NEW f, NEW g, NEW s, IsFiniteSet(s), \A x \in s : f[x] = g[x]
  PROVE  SumOver(f, s) = SumOver(g, s)
<1>1. IsTally(Tally(f, s), f, s) /\ IsTally(Tally(g, s), g, s)
  BY TallyExists, Zenon
<1>2. Tally(f, s)[s] = Tally(g, s)[s]
  BY <1>1, TalliesAgree
<1> QED
  BY <1>2, Zenon DEF SumOver

LEMMA SumOverNat ==
  ASSUME NEW f, NEW T, IsFiniteSet(T), \A x \in T : f[x] \in Nat
  PROVE  \A s \in SUBSET T : SumOver(f, s) \in Nat
<1> DEFINE P == {s \in SUBSET T : SumOver(f, s) \in Nat}
<1>1. ASSUME NEW s \in SUBSET T, \A v \in SUBSET s : v # s => v \in P PROVE s \in P
  <2>1. IsFiniteSet(s)
    BY FS_Subset
  <2>2. CASE s = {}
    <3>1. SumOver(f, s) = 0
      BY <2>1, <2>2, SumOverStep, Zenon
    <3> QED
      BY <3>1
  <2>3. CASE s # {}
    <3> DEFINE y == Any(s)
    <3>1. y \in s
      BY <2>3, AnyOf
    <3>2. SumOver(f, s) = f[y] + SumOver(f, s \ {y})
      BY <2>1, <2>3, SumOverStep, Zenon
    <3>3. SumOver(f, s \ {y}) \in Nat
      BY <1>1, <3>1
    <3>4. f[y] \in Nat
      BY <3>1
    <3> HIDE DEF y
    <3> QED
      BY <3>2, <3>3, <3>4
  <2> QED
    BY <2>2, <2>3
<1>2. \A s \in SUBSET T : s \in P
  <2> HIDE DEF P
  <2> QED
    BY <1>1, SubsetInduction
<1> QED
  BY <1>2

(* Any element may be the one that is added last.                                 *)
LEMMA SumOverWithout ==
  ASSUME NEW f, NEW T, IsFiniteSet(T), \A x \in T : f[x] \in Nat
  PROVE  \A x \in T : SumOver(f, T) = f[x] + SumOver(f, T \ {x})
<1> DEFINE P == {s \in SUBSET T : \A x \in s : SumOver(f, s) = f[x] + SumOver(f, s \ {x})}
<1>1. ASSUME NEW s \in SUBSET T, \A v \in SUBSET s : v # s => v \in P PROVE s \in P
  <2> SUFFICES ASSUME NEW x \in s PROVE SumOver(f, s) = f[x] + SumOver(f, s \ {x})
    OBVIOUS
  <2> DEFINE y == Any(s)
             v == s \ {y}
             w == s \ {x}
             u == s \ {x, y}
  <2>1. IsFiniteSet(s) /\ IsFiniteSet(w)
    BY FS_Subset
  <2>2. y \in s
    BY AnyOf
  <2>3. SumOver(f, s) = f[y] + SumOver(f, v)
    BY <2>1, SumOverStep, Zenon
  <2>4. CASE x = y
    BY <2>3, <2>4
  <2>5. CASE x # y
    <3>1. x \in v /\ v \in SUBSET s /\ v # s /\ v \ {x} = u
      BY <2>2, <2>5
    <3>2. SumOver(f, v) = f[x] + SumOver(f, u)
      <4>1. v \in P
        BY <1>1, <3>1
      <4>2. SumOver(f, v) = f[x] + SumOver(f, v \ {x})
        BY <4>1, <3>1, Zenon
      <4> QED
        BY <3>1, <4>2, Zenon
    <3>3. y \in w /\ w \in SUBSET s /\ w # s /\ w \ {y} = u
      BY <2>2, <2>5
    <3>4. SumOver(f, w) = f[y] + SumOver(f, u)
      <4>1. w \in P
        BY <1>1, <3>3
      <4>2. SumOver(f, w) = f[y] + SumOver(f, w \ {y})
        BY <4>1, <3>3, Zenon
      <4> QED
        BY <3>3, <4>2, Zenon
    <3>5. f[x] \in Nat /\ f[y] \in Nat
      BY <2>2
    <3>6. SumOver(f, u) \in Nat
      BY SumOverNat
    <3> HIDE DEF y, v, w, u
    <3> QED
      BY <2>3, <3>2, <3>4, <3>5, <3>6 DEF w
  <2> QED
    BY <2>4, <2>5
<1>2. \A s \in SUBSET T : s \in P
  <2> HIDE DEF P
  <2> QED
    BY <1>1, SubsetInduction
<1>3. T \in P
  BY <1>2
<1> QED
  BY <1>3

(* Numbers over more indices have no smaller sum.                                 *)
LEMMA SumOverMore ==
  ASSUME NEW f, NEW T, IsFiniteSet(T), \A x \in T : f[x] \in Nat, NEW s \in SUBSET T
  PROVE  SumOver(f, s) <= SumOver(f, T)
<1> DEFINE P == {d \in SUBSET (T \ s) : SumOver(f, s) <= SumOver(f, s \cup d)}
<1>0. \A u \in SUBSET T : IsFiniteSet(u) /\ SumOver(f, u) \in Nat
  BY FS_Subset, SumOverNat
<1>1. ASSUME NEW d \in SUBSET (T \ s), \A v \in SUBSET d : v # d => v \in P PROVE d \in P
  <2>1. CASE d = {}
    <3>1. s \cup d = s
      BY <2>1
    <3> QED
      BY <1>0, <3>1
  <2>2. CASE d # {}
    <3>1. PICK y \in d : TRUE
      BY <2>2
    <3> DEFINE v == d \ {y}
               u == s \cup d
    <3>2. v \in P
      BY <1>1, <3>1
    <3>3. u \in SUBSET T /\ y \in u /\ u \ {y} = s \cup v /\ s \cup v \in SUBSET T
      BY <3>1
    <3>4. IsFiniteSet(u) /\ \A x \in u : f[x] \in Nat
      BY <1>0, <3>3
    <3>5. SumOver(f, u) = f[y] + SumOver(f, u \ {y})
      <4>1. y \in u
        BY <3>3
      <4> HIDE DEF u, v, P
      <4>2. \A x \in u : SumOver(f, u) = f[x] + SumOver(f, u \ {x})
        BY <3>4, SumOverWithout
      <4> QED
        BY <4>1, <4>2, Zenon
    <3>6. SumOver(f, u) = f[y] + SumOver(f, s \cup v)
      BY <3>3, <3>5, Zenon
    <3>7. SumOver(f, s) <= SumOver(f, s \cup v)
      BY <3>2
    <3>8. SumOver(f, s \cup v) \in Nat /\ SumOver(f, s) \in Nat /\ f[y] \in Nat
      BY <1>0, <3>3, <3>4
    <3>9. SumOver(f, s) <= SumOver(f, u)
      <4> HIDE DEF v, u
      <4> QED
        BY <3>6, <3>7, <3>8
    <3> QED
      BY <3>9
  <2> QED
    BY <2>1, <2>2
<1>2. \A d \in SUBSET (T \ s) : d \in P
  <2> DEFINE D == T \ s
  <2>1. IsFiniteSet(D)
    BY FS_Subset
  <2>2. \A d \in SUBSET D : (\A v \in SUBSET d : v # d => v \in P) => d \in P
    BY <1>1, Zenon
  <2>3. \A d \in SUBSET D : d \in P
    <3> HIDE DEF P, D
    <3> QED
      BY <2>1, <2>2, SubsetInduction
  <2> QED
    BY <2>3, Zenon
<1>3. T \ s \in P /\ s \cup (T \ s) = T
  BY <1>2
<1> QED
  BY <1>3

--------------------------------------------------------------------------------
(* The bytes of outgoing messages.                                                *)
Sized(R) == IsFiniteSet(DOMAIN R) /\ \A i \in DOMAIN R : Size[R[i].body] \in Nat

RecordSizes(R) == [i \in DOMAIN R |-> Size[R[i].body] + RecordHeader]

LEMMA BytesIsSumOver ==
  ASSUME NEW R
  PROVE  /\ Bytes(R) = SumOver(RecordSizes(R), DOMAIN R)
         /\ Sized(R) => \A i \in DOMAIN R : RecordSizes(R)[i] \in Nat
<1>1. Bytes(R) = SumOf(RecordSizes(R))
  BY Zenon DEF Bytes, RecordSizes
<1>2. DOMAIN RecordSizes(R) = DOMAIN R
  BY DEF RecordSizes
<1>3. SumOf(RecordSizes(R)) = SumOver(RecordSizes(R), DOMAIN RecordSizes(R))
  BY SumIsSumOver
<1>4. ASSUME Sized(R), NEW i \in DOMAIN R PROVE RecordSizes(R)[i] \in Nat
  BY <1>4 DEF Sized, RecordSizes, RecordHeader
<1> QED
  BY <1>1, <1>2, <1>3, <1>4, Zenon

LEMMA BytesOfNone ==
  ASSUME NEW R, DOMAIN R = {}
  PROVE  Bytes(R) = 0
<1>1. IsFiniteSet({})
  BY FS_EmptySet
<1>2. Bytes(R) = SumOver(RecordSizes(R), {})
  BY BytesIsSumOver
<1> QED
  BY <1>1, <1>2, SumOverStep, Zenon

LEMMA BytesNat ==
  ASSUME NEW R, Sized(R)
  PROVE  Bytes(R) \in Nat
<1>1. IsFiniteSet(DOMAIN R) /\ \A i \in DOMAIN R : RecordSizes(R)[i] \in Nat
  BY BytesIsSumOver DEF Sized
<1>2. SumOver(RecordSizes(R), DOMAIN R) \in Nat
  BY <1>1, SumOverNat
<1> QED
  BY <1>2, BytesIsSumOver

(* Sending a message does not change how long it is.                              *)
LEMMA BytesOfSame ==
  ASSUME NEW R, NEW Q, DOMAIN R = DOMAIN Q, \A i \in DOMAIN R : R[i].body = Q[i].body
  PROVE  Bytes(R) = Bytes(Q)
<1>1. RecordSizes(R) = RecordSizes(Q)
  BY DEF RecordSizes
<1> QED
  BY <1>1, BytesIsSumOver

LEMMA BytesOfMore ==
  ASSUME NEW R, NEW Q, Sized(Q), DOMAIN R \subseteq DOMAIN Q,
         \A i \in DOMAIN R : R[i].body = Q[i].body
  PROVE  Sized(R) /\ Bytes(R) <= Bytes(Q)
<1>1. IsFiniteSet(DOMAIN Q) /\ \A i \in DOMAIN Q : RecordSizes(Q)[i] \in Nat
  BY BytesIsSumOver DEF Sized
<1>2. Sized(R)
  BY FS_Subset DEF Sized
<1>3. \A i \in DOMAIN R : RecordSizes(R)[i] = RecordSizes(Q)[i]
  BY DEF RecordSizes
<1>4. SumOver(RecordSizes(R), DOMAIN R) = SumOver(RecordSizes(Q), DOMAIN R)
  BY <1>2, <1>3, SumOverSame DEF Sized
<1>5. SumOver(RecordSizes(Q), DOMAIN R) <= SumOver(RecordSizes(Q), DOMAIN Q)
  BY <1>1, SumOverMore
<1> QED
  BY <1>2, <1>4, <1>5, BytesIsSumOver

LEMMA BytesWithout ==
  ASSUME NEW R, NEW Q, Sized(Q), NEW x \in DOMAIN Q, DOMAIN R = DOMAIN Q \ {x},
         \A i \in DOMAIN R : R[i].body = Q[i].body
  PROVE  Bytes(Q) = Size[Q[x].body] + RecordHeader + Bytes(R)
<1>1. IsFiniteSet(DOMAIN Q) /\ \A i \in DOMAIN Q : RecordSizes(Q)[i] \in Nat
  BY BytesIsSumOver DEF Sized
<1>2. IsFiniteSet(DOMAIN R)
  BY <1>1, FS_Subset
<1>3. \A i \in DOMAIN R : RecordSizes(R)[i] = RecordSizes(Q)[i]
  BY DEF RecordSizes
<1>4. SumOver(RecordSizes(R), DOMAIN R) = SumOver(RecordSizes(Q), DOMAIN R)
  BY <1>2, <1>3, SumOverSame
<1>5. SumOver(RecordSizes(Q), DOMAIN Q)
        = RecordSizes(Q)[x] + SumOver(RecordSizes(Q), DOMAIN Q \ {x})
  BY <1>1, SumOverWithout
<1>6. RecordSizes(Q)[x] = Size[Q[x].body] + RecordHeader
  BY DEF RecordSizes
<1>7. Bytes(Q) = SumOver(RecordSizes(Q), DOMAIN Q) /\ Bytes(R) = SumOver(RecordSizes(R), DOMAIN R)
  BY BytesIsSumOver, Zenon
<1> QED
  BY <1>4, <1>5, <1>6, <1>7, Zenon

--------------------------------------------------------------------------------
(* Operators on the outgoing slots.                                               *)

(* What moving the k oldest queued messages into slots does.                     *)
LEMMA AddFirstSlots ==
  ASSUME NEW R, NEW n \in Nat \ {0}, NEW x, NEW k \in Nat
  PROVE  /\ DOMAIN AddFirst(R, n, x, k) = DOMAIN R \cup n .. (n + k - 1)
         /\ \A i \in DOMAIN R : AddFirst(R, n, x, k)[i] = R[i]
         /\ \A i \in (n .. (n + k - 1)) \ DOMAIN R :
              AddFirst(R, n, x, k)[i] = [body |-> x[i - n + 1], sent |-> 0]
BY DEF AddFirst

(* Nothing moved leaves the slots as they are.                                   *)
LEMMA AddNone ==
  ASSUME NEW S, NEW D, NEW R \in [D -> S], NEW n \in Nat \ {0}, NEW x
  PROVE  AddFirst(R, n, x, 0) = R
BY DEF AddFirst

(* What may be sent in a datagram.                                                *)
Bounded(R) ==
  Bytes(R) < MAX_PACKET_SIZE + RecordHeader \/ Cardinality(DOMAIN R) = 1

LEMMA FewerStayBounded ==
  ASSUME NEW R, NEW Q, Sized(Q), Bounded(Q), DOMAIN R \subseteq DOMAIN Q,
         \A i \in DOMAIN R : R[i].body = Q[i].body, MAX_PACKET_SIZE \in Nat
  PROVE  Bounded(R)
<1>1. Sized(R) /\ Bytes(R) <= Bytes(Q) /\ Bytes(R) \in Nat /\ Bytes(Q) \in Nat
  BY BytesOfMore, BytesNat
<1>2. CASE Bytes(Q) < MAX_PACKET_SIZE + RecordHeader
  BY <1>1, <1>2 DEF Bounded, RecordHeader
<1>3. CASE Cardinality(DOMAIN Q) = 1
  <2>1. IsFiniteSet(DOMAIN Q) /\ IsFiniteSet(DOMAIN R)
    BY <1>1 DEF Sized
  <2>2. Cardinality(DOMAIN R) \in Nat /\ Cardinality(DOMAIN R) <= 1
    BY <1>3, <2>1, FS_Subset, FS_CardinalityType
  <2>3. CASE Cardinality(DOMAIN R) = 1
    BY <2>3 DEF Bounded
  <2>4. CASE Cardinality(DOMAIN R) = 0
    <3>1. DOMAIN R = {}
      BY <2>1, <2>4, FS_EmptySet
    <3> QED
      BY <3>1, BytesOfNone DEF Bounded, RecordHeader
  <2> QED
    BY <2>2, <2>3, <2>4
<1> QED
  BY <1>2, <1>3 DEF Bounded

LEMMA AddedStaysBounded ==
  ASSUME NEW R, NEW Q, Sized(Q), NEW x, x \notin DOMAIN R, DOMAIN Q = DOMAIN R \cup {x},
         \A i \in DOMAIN R : Q[i].body = R[i].body, HasRoom(R, Q[x].body),
         MAX_PACKET_SIZE \in Nat
  PROVE  Bounded(Q)
<1>1. CASE DOMAIN R = {}
  <2>1. DOMAIN Q = {x}
    BY <1>1
  <2>2. Cardinality(DOMAIN Q) = 1
    BY <2>1, FS_Singleton
  <2> QED
    BY <2>2 DEF Bounded
<1>2. CASE DOMAIN R # {}
  <2>1. Bytes(R) + Size[Q[x].body] < MAX_PACKET_SIZE
    BY <1>2 DEF HasRoom, CanAdd
  <2>2. x \in DOMAIN Q /\ DOMAIN R = DOMAIN Q \ {x}
    OBVIOUS
  <2>3. Bytes(Q) = Size[Q[x].body] + RecordHeader + Bytes(R)
    BY <2>2, BytesWithout
  <2>4. Sized(R) /\ Bytes(R) \in Nat /\ Size[Q[x].body] \in Nat
    BY <2>2, BytesOfMore, BytesNat DEF Sized
  <2> QED
    BY <2>1, <2>3, <2>4 DEF Bounded, RecordHeader
<1> QED
  BY <1>1, <1>2

LEMMA FilledStaysBounded ==
  ASSUME NEW R, NEW n \in Nat \ {0}, NEW x, NEW k \in Nat, Bounded(R),
         \A i \in DOMAIN R : i < n, Sized(AddFirst(R, n, x, k)),
         k = 0 \/ \A j \in 0 .. (k - 1) : HasRoom(AddFirst(R, n, x, j), x[j + 1]),
         MAX_PACKET_SIZE \in Nat
  PROVE  Bounded(AddFirst(R, n, x, k))
<1>1. CASE k = 0
  <2> DEFINE Q == AddFirst(R, n, x, 0)
  <2>0. n .. (n + 0 - 1) = {}
    OBVIOUS
  <2>1. DOMAIN Q = DOMAIN R /\ \A i \in DOMAIN R : Q[i] = R[i]
    BY <2>0 DEF AddFirst
  <2>2. Bytes(Q) = Bytes(R)
    <3> HIDE DEF Q
    <3> QED
      BY <2>1, BytesOfSame
  <2> QED
    BY <1>1, <2>1, <2>2 DEF Bounded
<1>2. CASE k # 0
  <2> DEFINE P == AddFirst(R, n, x, k - 1)
             Q == AddFirst(R, n, x, k)
             id == n + k - 1
  <2>1. k - 1 \in Nat /\ k - 1 \in 0 .. (k - 1) /\ k - 1 + 1 = k /\ id - n + 1 = k
    BY <1>2
  <2>2. HasRoom(P, x[k])
    BY <1>2, <2>1
  <2>3. n .. id = n .. (n + (k - 1) - 1) \cup {id} /\ id \notin n .. (n + (k - 1) - 1)
    BY <1>2
  <2>a. id \notin DOMAIN R
    BY <1>2
  <2>4. DOMAIN P = DOMAIN R \cup n .. (n + (k - 1) - 1) /\ DOMAIN Q = DOMAIN R \cup n .. id
    BY DEF AddFirst
  <2>5. Q[id] = [body |-> x[id - n + 1], sent |-> 0]
    BY <1>2, <2>a DEF AddFirst
  <2>6. \A i \in DOMAIN P : Q[i] = P[i]
    BY <1>2, <2>3, <2>4 DEF AddFirst
  <2>7. id \notin DOMAIN P /\ DOMAIN Q = DOMAIN P \cup {id} /\ Q[id].body = x[k]
    BY <2>1, <2>3, <2>a, <2>4, <2>5
  <2> HIDE DEF P, Q, id
  <2>8. Sized(Q)
    BY DEF Q
  <2>9. Bounded(Q)
    BY <2>2, <2>6, <2>7, <2>8, AddedStaysBounded
  <2> QED
    BY <2>9 DEF Q
<1> QED
  BY <1>1, <1>2
================================================================================
