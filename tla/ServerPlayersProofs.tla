------------------------- MODULE ServerPlayersProofs -------------------------
(* Proofs about ServerPlayers for any numbers of players, clients and bots.       *)
EXTENDS ServerPlayers, FiniteSetTheorems, WellFoundedInduction, TLAPS

--------------------------------------------------------------------------------
(* The least of a set of numbers.                                                 *)
LEMMA LeastNumber ==
  ASSUME NEW N \in SUBSET Nat, N # {}
  PROVE  \E n \in N : \A m \in N : ~(m < n)
<1> DEFINE R == {p \in Nat \X Nat : p[1] < p[2]}
<1>1. IsWellFoundedOn(R, Nat)
  BY NatLessThanWellFounded, Zenon DEF OpToRel
<1>2. PICK n \in N : \A m \in N : <<m, n>> \notin R
  BY <1>1, WFMin, Zenon
<1>3. ASSUME NEW m \in N, m < n PROVE FALSE
  <2>1. <<m, n>> \in R
    BY <1>3
  <2> QED
    BY <1>2, <2>1, Zenon
<1> QED
  BY <1>3

(* Induction over the subsets of a finite set: a family P that has a set whenever *)
(* it has its proper subsets has them all.                                        *)
LEMMA SubsetInduction ==
  ASSUME NEW T, IsFiniteSet(T), NEW P,
         \A s \in SUBSET T : (\A u \in SUBSET s : u # s => u \in P) => s \in P
  PROVE  \A s \in SUBSET T : s \in P
<1> SUFFICES ASSUME NEW s0 \in SUBSET T, s0 \notin P PROVE FALSE
  OBVIOUS
<1> DEFINE Bad == {s \in SUBSET T : s \notin P}
           N == {Cardinality(s) : s \in Bad}
<1>1. \A s \in SUBSET T : IsFiniteSet(s) /\ Cardinality(s) \in Nat
  BY FS_Subset, FS_CardinalityType
<1>2. N \in SUBSET Nat /\ N # {}
  BY <1>1
<1>4. PICK n \in N : \A m \in N : ~(m < n)
  <2> HIDE DEF N
  <2> QED
    BY <1>2, LeastNumber
<1>5. PICK s \in Bad : n = Cardinality(s)
  BY <1>4
<1>6. ASSUME NEW u \in SUBSET s, u # s PROVE u \in P
  <2> SUFFICES ASSUME u \notin P PROVE FALSE
    OBVIOUS
  <2>1. u \in SUBSET T /\ u \in Bad /\ Cardinality(u) \in N
    BY <1>5, <1>6
  <2>2. IsFiniteSet(s) /\ Cardinality(s) \in Nat /\ Cardinality(u) \in Nat
    BY <1>1, <1>5, <2>1
  <2>3. Cardinality(u) <= Cardinality(s) /\ Cardinality(u) # Cardinality(s)
    BY <1>6, <2>2, FS_Subset
  <2>4. Cardinality(u) < Cardinality(s)
    BY <2>2, <2>3
  <2> QED
    BY <1>4, <1>5, <2>1, <2>4
<1> QED
  BY <1>5, <1>6

--------------------------------------------------------------------------------
(* Functions on the sets of numbers of D that are defined from what they are on   *)
(* the set without its greatest element, as those behind FoldLeft.                *)

LEMMA MaxIsIn ==
  ASSUME NEW s \in SUBSET Nat, IsFiniteSet(s), s # {}
  PROVE  Max(s) \in s
<1> DEFINE Greatest == {x \in s : \A y \in s : x >= y}
<1>1. ASSUME Greatest = {} PROVE FALSE
  <2> DEFINE P == {u \in SUBSET s : u # {} => \E x \in u : \A y \in u : x >= y}
  <2>1. ASSUME NEW u \in SUBSET s, \A v \in SUBSET u : v # u => v \in P PROVE u \in P
    <3> SUFFICES ASSUME u # {} PROVE \E x \in u : \A y \in u : x >= y
      OBVIOUS
    <3>1. PICK z \in u : TRUE
      OBVIOUS
    <3>2. CASE u \ {z} = {}
      BY <3>1, <3>2
    <3>3. CASE u \ {z} # {}
      <4>0. u \ {z} \in P
        <5>1. u \ {z} \in SUBSET u /\ u \ {z} # u
          BY <3>1
        <5> HIDE DEF P
        <5> QED
          BY <2>1, <5>1
      <4>1. PICK x \in u \ {z} : \A y \in u \ {z} : x >= y
        BY <4>0, <3>3, Zenon
      <4>2. CASE x >= z
        BY <4>1, <4>2
      <4>3. CASE ~(x >= z)
        BY <4>1, <4>3
      <4> QED
        BY <4>2, <4>3
    <3> QED
      BY <3>2, <3>3
  <2>2. \A u \in SUBSET s : u \in P
    <3> HIDE DEF P
    <3> QED
      BY <2>1, SubsetInduction
  <2> QED
    BY <1>1, <2>2
<1>2. \E x : x \in s /\ \A y \in s : x >= y
  BY <1>1
<1> QED
  BY <1>2, Zenon DEF Max

IsRun(t, F, b, D) ==
  t = [s \in SUBSET D |-> IF s = {} THEN b ELSE F[<<Max(s), t[s \ {Max(s)}]>>]]

Run(F, b, D) == CHOOSE t : IsRun(t, F, b, D)

RunAt(t, F, b, s) == IF s = {} THEN b ELSE F[<<Max(s), t[s \ {Max(s)}]>>]

LEMMA RunStep ==
  ASSUME NEW t, NEW F, NEW b, NEW D, IsRun(t, F, b, D), NEW s \in SUBSET D
  PROVE  t[s] = RunAt(t, F, b, s)
<1>1. t = [u \in SUBSET D |-> RunAt(t, F, b, u)]
  BY Zenon DEF IsRun, RunAt
<1>2. [u \in SUBSET D |-> RunAt(t, F, b, u)][s] = RunAt(t, F, b, s)
  OBVIOUS
<1> QED
  BY <1>1, <1>2, Zenon

(* Two runs have the same for a set that both are for.                            *)
LEMMA RunsAgree ==
  ASSUME NEW t, NEW u, NEW F, NEW b, NEW T, NEW U, IsRun(t, F, b, T), IsRun(u, F, b, U),
         NEW W \in SUBSET Nat, IsFiniteSet(W), W \subseteq T, W \subseteq U
  PROVE  t[W] = u[W]
<1> DEFINE P == {s \in SUBSET W : t[s] = u[s]}
<1>1. ASSUME NEW s \in SUBSET W, \A v \in SUBSET s : v # s => v \in P PROVE s \in P
  <2>0. s \in SUBSET T /\ s \in SUBSET U /\ s \in SUBSET Nat /\ IsFiniteSet(s)
    BY FS_Subset
  <2>a. t[s] = RunAt(t, F, b, s) /\ u[s] = RunAt(u, F, b, s)
    BY <2>0, RunStep, Zenon
  <2>1. CASE s = {}
    BY <2>a, <2>1, Zenon DEF RunAt
  <2>2. CASE s # {}
    <3> DEFINE y == Max(s)
    <3>1. y \in s
      BY <2>0, <2>2, MaxIsIn
    <3>2. t[s] = F[<<y, t[s \ {y}]>>] /\ u[s] = F[<<y, u[s \ {y}]>>]
      BY <2>a, <2>2, Zenon DEF RunAt
    <3>3. s \ {y} \in P
      BY <1>1, <3>1
    <3> HIDE DEF y
    <3> QED
      BY <3>2, <3>3
  <2> QED
    BY <2>1, <2>2
<1>2. \A s \in SUBSET W : s \in P
  <2> HIDE DEF P
  <2> QED
    BY <1>1, SubsetInduction
<1> QED
  BY <1>2

(* There is a run over every finite set of numbers.                               *)
LEMMA RunExists ==
  ASSUME NEW F, NEW b, NEW D \in SUBSET Nat, IsFiniteSet(D)
  PROVE  \E t : IsRun(t, F, b, D)
<1> DEFINE P == {s \in SUBSET D : \E t : IsRun(t, F, b, s)}
<1>1. ASSUME NEW s \in SUBSET D, \A v \in SUBSET s : v # s => v \in P PROVE s \in P
  <2> DEFINE V(v) == Run(F, b, v)[v]
             e(v) == IF v = {} THEN b ELSE F[<<Max(v), V(v \ {Max(v)})>>]
             t == [v \in SUBSET s |-> e(v)]
  <2>0. IsFiniteSet(s) /\ \A v \in SUBSET s : IsFiniteSet(v) /\ v \in SUBSET Nat
    BY FS_Subset
  <2>1. ASSUME NEW v \in SUBSET s, v # s PROVE IsRun(Run(F, b, v), F, b, v)
    <3>1. \E w : IsRun(w, F, b, v)
      BY <1>1, <2>1
    <3> QED
      BY <3>1, Zenon DEF Run
  <2>2. ASSUME NEW v \in SUBSET s, v # s PROVE V(v) = e(v)
    <3>1. IsRun(Run(F, b, v), F, b, v)
      BY <2>1, <2>2
    <3>2. CASE v = {}
      BY <3>1, <3>2, RunStep, Zenon DEF RunAt
    <3>3. CASE v # {}
      <4> DEFINE w == v \ {Max(v)}
      <4>1. Max(v) \in v /\ w \in SUBSET s /\ w # s /\ w \subseteq v /\ IsFiniteSet(w)
        BY <2>0, <3>3, MaxIsIn
      <4>2. V(v) = F[<<Max(v), Run(F, b, v)[w]>>]
        <5>1. v \in SUBSET v
          OBVIOUS
        <5>2. V(v) = RunAt(Run(F, b, v), F, b, v)
          BY <3>1, <5>1, RunStep, Zenon
        <5> QED
          BY <3>3, <5>2, Zenon DEF RunAt
      <4>3. IsRun(Run(F, b, w), F, b, w)
        BY <2>1, <4>1
      <4>4. Run(F, b, v)[w] = Run(F, b, w)[w]
        <5>1. w \in SUBSET Nat
          BY <2>0
        <5> HIDE DEF w
        <5> QED
          BY <3>1, <4>1, <4>3, <5>1, RunsAgree
      <4> QED
        BY <3>3, <4>2, <4>4, Zenon
    <3> QED
      BY <3>2, <3>3
  <2>3. ASSUME NEW v \in SUBSET s, v # {} PROVE t[v \ {Max(v)}] = V(v \ {Max(v)})
    <3> DEFINE w == v \ {Max(v)}
    <3>1. Max(v) \in v /\ w \in SUBSET s /\ w # s
      BY <2>0, <2>3, MaxIsIn
    <3>2. t[w] = e(w)
      <4> HIDE DEF e, w
      <4> QED
        BY <3>1
    <3>3. V(w) = e(w)
      <4> HIDE DEF e, w, V
      <4> QED
        BY <2>2, <3>1
    <3> QED
      BY <3>2, <3>3, Zenon
  <2>4. IsRun(t, F, b, s)
    <3> DEFINE d(v) == IF v = {} THEN b ELSE F[<<Max(v), t[v \ {Max(v)}]>>]
    <3>1. \A v \in SUBSET s : e(v) = d(v)
      BY <2>3, Zenon
    <3> HIDE DEF e, d
    <3>2. t = [v \in SUBSET s |-> d(v)]
      BY <3>1
    <3> QED
      BY <3>2, Zenon DEF IsRun, d
  <2> QED
    BY <2>4
<1>2. \A s \in SUBSET D : s \in P
  <2> HIDE DEF P
  <2> QED
    BY <1>1, SubsetInduction
<1> QED
  BY <1>2

(* What a run is for D, if each of its steps leads from V to V.                   *)
LEMMA RunStays ==
  ASSUME NEW t, NEW V, NEW D \in SUBSET Nat, IsFiniteSet(D), t[{}] \in V[{}],
         \A s \in SUBSET D :
           s # {} /\ t[s \ {Max(s)}] \in V[s \ {Max(s)}] => t[s] \in V[s]
  PROVE  \A s \in SUBSET D : t[s] \in V[s]
<1> DEFINE P == {s \in SUBSET D : t[s] \in V[s]}
<1>1. ASSUME NEW s \in SUBSET D, \A v \in SUBSET s : v # s => v \in P PROVE s \in P
  <2>1. CASE s = {}
    BY <2>1
  <2>2. CASE s # {}
    <3>1. s \in SUBSET Nat /\ IsFiniteSet(s)
      BY FS_Subset
    <3>2. Max(s) \in s
      BY <2>2, <3>1, MaxIsIn
    <3>3. s \ {Max(s)} \in SUBSET s /\ s \ {Max(s)} # s
      BY <3>2
    <3>4. s \ {Max(s)} \in P
      BY <1>1, <3>3, Zenon
    <3> QED
      BY <2>2, <3>4, Zenon
  <2> QED
    BY <2>1, <2>2
<1>2. \A s \in SUBSET D : s \in P
  <2> HIDE DEF P
  <2> QED
    BY <1>1, SubsetInduction
<1> QED
  BY <1>2

--------------------------------------------------------------------------------
(* Places, teams and their sizes.                                                 *)

LEMMA MinIsIn ==
  ASSUME NEW s \in SUBSET Nat, s # {}
  PROVE  Min(s) \in s
<1>1. PICK n \in s : \A m \in s : ~(m < n)
  BY LeastNumber
<1>2. \A m \in s : n <= m
  BY <1>1
<1>3. \E x : x \in s /\ \A y \in s : x <= y
  BY <1>2
<1> QED
  BY <1>3, Zenon DEF Min

LEMMA Halves ==
  /\ TSIZE \in Nat \ {0} /\ maxplayers \in Nat /\ maxplayers = 2 * TSIZE
  /\ Pid = 0 .. (2 * TSIZE - 1)
BY MaxPlayersAssumption, SMT DEF TSIZE, Pid

LEMMA Half ==
  ASSUME NEW n \in Nat \ {0}, NEW p \in 0 .. (2 * n - 1)
  PROVE  p \div n = IF p < n THEN 0 ELSE 1
<1>1. CASE p < n
  BY <1>1, SMT
<1>2. CASE ~(p < n)
  BY <1>2, SMT
<1> QED
  BY <1>1, <1>2

LEMMA Sides ==
  /\ Pid \subseteq Nat /\ IsFiniteSet(Pid) /\ -1 \notin Pid
  /\ \A p \in Pid : Team(p) \in {0, 1} /\ (Team(p) = 0 <=> p < TSIZE)
  /\ \A t \in {0, 1} : /\ Places(t) \subseteq Pid /\ IsFiniteSet(Places(t))
                       /\ Cardinality(Places(t)) = TSIZE
<1>1. Pid \subseteq Nat /\ IsFiniteSet(Pid) /\ -1 \notin Pid
  <2>1. IsFiniteSet(0 .. (2 * TSIZE - 1))
    BY Halves, FS_Interval
  <2> QED
    BY <2>1, Halves
<1>2. \A p \in Pid : Team(p) = IF p < TSIZE THEN 0 ELSE 1
  <2> SUFFICES ASSUME NEW p \in Pid PROVE Team(p) = IF p < TSIZE THEN 0 ELSE 1
    OBVIOUS
  <2>1. p \div TSIZE = IF p < TSIZE THEN 0 ELSE 1
    <3>1. TSIZE \in Nat \ {0} /\ p \in 0 .. (2 * TSIZE - 1)
      BY Halves
    <3> HIDE DEF TSIZE
    <3> QED
      BY <3>1, Half, Zenon
  <2> QED
    BY <2>1, Zenon DEF Team
<1>3. Places(0) = 0 .. (TSIZE - 1) /\ Places(1) = TSIZE .. (2 * TSIZE - 1)
  BY <1>2, Halves DEF Places
<1>4. /\ IsFiniteSet(0 .. (TSIZE - 1)) /\ Cardinality(0 .. (TSIZE - 1)) = TSIZE
      /\ IsFiniteSet(TSIZE .. (2 * TSIZE - 1)) /\ Cardinality(TSIZE .. (2 * TSIZE - 1)) = TSIZE
  <2>1. TSIZE \in Nat \ {0} /\ 0 \in Int /\ TSIZE \in Int /\ TSIZE - 1 \in Int /\ 2 * TSIZE - 1 \in Int
    BY Halves
  <2>2. \A a, b \in Int :
          IsFiniteSet(a .. b) /\ Cardinality(a .. b) = IF a > b THEN 0 ELSE b - a + 1
    BY FS_Interval
  <2>3. /\ Cardinality(0 .. (TSIZE - 1)) = (TSIZE - 1) - 0 + 1
        /\ Cardinality(TSIZE .. (2 * TSIZE - 1)) = (2 * TSIZE - 1) - TSIZE + 1
    <3>1. ~(0 > TSIZE - 1) /\ ~(TSIZE > 2 * TSIZE - 1)
      BY <2>1
    <3> QED
      BY <2>1, <2>2, <3>1, Zenon
  <2>4. IsFiniteSet(0 .. (TSIZE - 1)) /\ IsFiniteSet(TSIZE .. (2 * TSIZE - 1))
    BY <2>1, <2>2, Zenon
  <2> QED
    BY <2>1, <2>3, <2>4
<1>5. \A t : Places(t) \subseteq Pid
  BY DEF Places
<1> QED
  BY <1>1, <1>2, <1>3, <1>4, <1>5, Halves

LEMMA Sizes ==
  ASSUME NEW g
  PROVE  /\ Used(g) \subseteq Pid /\ IsFiniteSet(Used(g)) /\ Cardinality(Used(g)) \in Nat
         /\ Bots(g) \subseteq Used(g) /\ IsFiniteSet(Bots(g)) /\ Cardinality(Bots(g)) \in Nat
         /\ Cardinality(Bots(g)) <= Cardinality(Used(g))
         /\ \A t \in {0, 1} : /\ TeamOf(g, t) = Used(g) \cap Places(t)
                              /\ IsFiniteSet(TeamOf(g, t))
                              /\ Size(g, t) \in Nat /\ Size(g, t) <= TSIZE
                              /\ Size(g, t) < TSIZE <=> Places(t) \ Used(g) # {}
         /\ Cardinality(Used(g)) = Size(g, 0) + Size(g, 1)
<1>1. Used(g) \subseteq Pid /\ Bots(g) \subseteq Used(g)
  BY DEF Used, Bots
<1>2. IsFiniteSet(Used(g)) /\ Cardinality(Used(g)) \in Nat
  BY <1>1, Sides, FS_Subset, FS_CardinalityType
<1>3. /\ IsFiniteSet(Bots(g)) /\ Cardinality(Bots(g)) \in Nat
      /\ Cardinality(Bots(g)) <= Cardinality(Used(g))
  BY <1>1, <1>2, FS_Subset, FS_CardinalityType
<1>4. ASSUME NEW t \in {0, 1}
      PROVE  /\ TeamOf(g, t) = Used(g) \cap Places(t)
             /\ IsFiniteSet(TeamOf(g, t))
             /\ Size(g, t) \in Nat /\ Size(g, t) <= TSIZE
             /\ Size(g, t) < TSIZE <=> Places(t) \ Used(g) # {}
  <2>1. TeamOf(g, t) = Used(g) \cap Places(t)
    BY <1>1 DEF TeamOf, Places
  <2>2. IsFiniteSet(Places(t)) /\ Cardinality(Places(t)) = TSIZE /\ TSIZE \in Nat
    BY Sides, Halves
  <2>3. TeamOf(g, t) \in SUBSET Places(t)
    BY <2>1
  <2>4. /\ IsFiniteSet(TeamOf(g, t)) /\ Size(g, t) \in Nat /\ Size(g, t) <= TSIZE
        /\ Size(g, t) = TSIZE => Places(t) = TeamOf(g, t)
    BY <2>2, <2>3, FS_Subset, FS_CardinalityType DEF Size
  <2>5. Places(t) = TeamOf(g, t) => Size(g, t) = TSIZE
    BY <2>2 DEF Size
  <2>6. Places(t) = TeamOf(g, t) <=> Places(t) \ Used(g) = {}
    BY <2>1
  <2> QED
    BY <2>1, <2>2, <2>4, <2>5, <2>6
<1>5. Cardinality(Used(g)) = Size(g, 0) + Size(g, 1)
  <2>1. Used(g) = TeamOf(g, 0) \cup TeamOf(g, 1) /\ TeamOf(g, 0) \cap TeamOf(g, 1) = {}
    <3>1. \A p \in Used(g) : Team(p) \in {0, 1}
      BY <1>1, Sides
    <3> QED
      BY <3>1 DEF TeamOf
  <2>2. Cardinality(TeamOf(g, 0) \cup TeamOf(g, 1))
          = Cardinality(TeamOf(g, 0)) + Cardinality(TeamOf(g, 1))
            - Cardinality(TeamOf(g, 0) \cap TeamOf(g, 1))
    BY <1>4, FS_Union
  <2>3. Size(g, 0) \in Nat /\ Size(g, 1) \in Nat
    BY <1>4
  <2>4. Cardinality({}) = 0
    BY FS_EmptySet
  <2>5. Cardinality(Used(g)) = Size(g, 0) + Size(g, 1) - 0
    BY <2>1, <2>2, <2>4, Zenon DEF Size
  <2> QED
    BY <2>3, <2>5
<1> QED
  BY <1>1, <1>2, <1>3, <1>4, <1>5

--------------------------------------------------------------------------------
(* Moves and swaps, of which all changes of teams are made, keep the tables and   *)
(* the counters right and the teams as even as they were.                         *)

Sound(g) == g \in Games /\ Tables(g) /\ Counts(g)

Uneven(g) == IF Size(g, 0) > Size(g, 1) THEN Size(g, 0) - Size(g, 1)
             ELSE Size(g, 1) - Size(g, 0)

Rearranged(g, h) ==
  /\ Sound(h) /\ h.conn = g.conn /\ h.failed = g.failed
  /\ h.players = g.players /\ h.bots = g.bots /\ Uneven(h) <= Uneven(g)

LEMMA UnevenIsNumber ==
  ASSUME NEW g
  PROVE  Uneven(g) \in Nat
<1>1. Size(g, 0) \in Nat /\ Size(g, 1) \in Nat
  BY Sizes
<1> QED
  BY <1>1 DEF Uneven

LEMMA NothingRearranged ==
  ASSUME NEW g, Sound(g)
  PROVE  Rearranged(g, g)
BY UnevenIsNumber DEF Rearranged

LEMMA RearrangedTwice ==
  ASSUME NEW g, NEW h, NEW k, Rearranged(g, h), Rearranged(h, k)
  PROVE  Rearranged(g, k)
<1>1. Uneven(g) \in Nat /\ Uneven(h) \in Nat /\ Uneven(k) \in Nat
  BY UnevenIsNumber
<1> QED
  BY <1>1 DEF Rearranged

LEMMA Replaced ==
  ASSUME NEW S, IsFiniteSet(S), NEW x \in S, NEW y, y \notin S
  PROVE  Cardinality((S \ {x}) \cup {y}) = Cardinality(S)
<1>1. /\ IsFiniteSet(S \ {x}) /\ Cardinality(S \ {x}) = Cardinality(S) - 1
      /\ Cardinality(S) \in Nat
  BY FS_RemoveElement, FS_CardinalityType
<1>2. Cardinality((S \ {x}) \cup {y}) = Cardinality(S \ {x}) + 1
  BY <1>1, FS_AddElement
<1> QED
  BY <1>1, <1>2

LEMMA PlayersOf ==
  ASSUME NEW g, g \in Games, NEW p \in Used(g)
  PROVE  /\ p \in Pid /\ g.player[p] \in Player /\ g.player[p] # None
         /\ g.player[p].cid \in Client /\ Moved(g.player[p]) \in Player
         /\ Moved(g.player[p]) # None /\ Moved(g.player[p]).cid = g.player[p].cid
         /\ Moved(g.player[p]).is_bot = g.player[p].is_bot
<1>1. p \in Pid /\ g.player[p] # None /\ g.player[p] \in Player \cup {None}
  BY DEF Used, Games
<1>2. g.player[p] \in Player
  BY <1>1
<1>3. Moved(g.player[p]) \in Player
  BY <1>2 DEF Player, Moved
<1> QED
  BY <1>1, <1>2, <1>3, ClientAssumption DEF Player, Moved

LEMMA MoveRearranges ==
  ASSUME NEW g, Sound(g), NEW f \in Used(g), NEW t \in Pid \ Used(g),
         Team(t) # Team(f), Size(g, Team(t)) < Size(g, Team(f))
  PROVE  Rearranged(g, MovePlayer(g, f, t))
<1> DEFINE h == MovePlayer(g, f, t)
           c == g.player[f].cid
<1>1. g \in Games /\ Tables(g) /\ Counts(g)
  BY DEF Sound
<1>2. f \in Pid /\ t \in Pid /\ f # t /\ c \in Client /\ Moved(g.player[f]) \in Player
  BY <1>1, PlayersOf
<1>3. /\ h.player = [g.player EXCEPT ![f] = None, ![t] = Moved(g.player[f])]
      /\ h.ctop = [g.ctop EXCEPT ![c] = t]
      /\ h.conn = g.conn /\ h.failed = g.failed /\ h.players = g.players /\ h.bots = g.bots
      /\ h \in Games
  BY <1>1, <1>2 DEF MovePlayer, Games
<1>4. /\ h.player[t] = Moved(g.player[f]) /\ h.player[f] = None
      /\ \A p \in Pid \ {f, t} : h.player[p] = g.player[p]
      /\ h.ctop[c] = t /\ \A d \in Client \ {c} : h.ctop[d] = g.ctop[d]
  BY <1>1, <1>2, <1>3 DEF Games
<1> HIDE DEF h
<1>5. Used(h) = (Used(g) \ {f}) \cup {t}
  BY <1>1, <1>2, <1>4, PlayersOf DEF Used
<1>6. Bots(h) = IF g.player[f].is_bot THEN (Bots(g) \ {f}) \cup {t} ELSE Bots(g)
  <2>1. h.player[t].is_bot = g.player[f].is_bot
    BY <1>1, <1>4, PlayersOf
  <2>2. \A p \in Used(g) \ {f} : p # t /\ h.player[p] = g.player[p]
    BY <1>4, Sizes
  <2> QED
    BY <1>5, <2>1, <2>2 DEF Bots
<1>7. Cardinality(Used(h)) = Cardinality(Used(g)) /\ Cardinality(Bots(h)) = Cardinality(Bots(g))
  <2>1. Cardinality(Used(h)) = Cardinality(Used(g))
    BY <1>5, Sizes, Replaced
  <2>2. CASE g.player[f].is_bot
    <3>1. f \in Bots(g) /\ t \notin Bots(g) /\ IsFiniteSet(Bots(g))
      BY <2>2, Sizes DEF Bots
    <3> QED
      BY <1>6, <2>1, <2>2, <3>1, Replaced
  <2>3. CASE ~g.player[f].is_bot
    BY <1>6, <2>1, <2>3
  <2> QED
    BY <2>2, <2>3
<1>8. Tables(h)
  <2>1. \A p \in Used(g) : g.ctop[g.player[p].cid] = p /\ g.conn[g.player[p].cid] = "in"
    BY <1>1 DEF Tables
  <2>2. ASSUME NEW p \in Used(h)
        PROVE  h.ctop[h.player[p].cid] = p /\ h.conn[h.player[p].cid] = "in"
    <3>1. CASE p = t
      BY <1>1, <1>3, <1>4, <2>1, <3>1, PlayersOf
    <3>2. CASE p # t
      <4>1. p \in Used(g) /\ p # f /\ h.player[p] = g.player[p]
        BY <1>4, <1>5, <3>2, Sizes
      <4>2. g.player[p].cid # c /\ g.player[p].cid \in Client
        BY <1>1, <2>1, <4>1, PlayersOf
      <4> QED
        BY <1>3, <1>4, <2>1, <4>1, <4>2
    <3> QED
      BY <3>1, <3>2
  <2>3. ASSUME NEW d \in Client, h.ctop[d] # -1
        PROVE  h.player[h.ctop[d]] # None /\ h.player[h.ctop[d]].cid = d
    <3>1. CASE d = c
      BY <1>1, <1>4, <3>1, PlayersOf
    <3>2. CASE d # c
      <4>1. h.ctop[d] = g.ctop[d] /\ g.ctop[d] \in Pid
        BY <1>1, <1>4, <2>3, <3>2 DEF Games
      <4>2. g.player[g.ctop[d]] # None /\ g.player[g.ctop[d]].cid = d
        BY <1>1, <2>3, <4>1 DEF Tables
      <4>3. g.ctop[d] # f /\ g.ctop[d] \in Used(g)
        BY <3>2, <4>1, <4>2 DEF Used
      <4> QED
        BY <1>4, <4>1, <4>2, <4>3
    <3> QED
      BY <3>1, <3>2
  <2> QED
    BY <2>2, <2>3 DEF Tables
<1>9. Uneven(h) <= Uneven(g)
  <2>1. Team(f) \in {0, 1} /\ Team(t) \in {0, 1}
    BY <1>2, Sides
  <2>2. /\ TeamOf(h, Team(f)) = TeamOf(g, Team(f)) \ {f} /\ f \in TeamOf(g, Team(f))
        /\ TeamOf(h, Team(t)) = TeamOf(g, Team(t)) \cup {t} /\ t \notin TeamOf(g, Team(t))
    BY <1>5 DEF TeamOf
  <2>3. /\ IsFiniteSet(TeamOf(g, Team(f))) /\ IsFiniteSet(TeamOf(g, Team(t)))
        /\ Size(g, Team(f)) \in Nat /\ Size(g, Team(t)) \in Nat
    BY <2>1, Sizes
  <2>4. Size(h, Team(f)) = Size(g, Team(f)) - 1 /\ Size(h, Team(t)) = Size(g, Team(t)) + 1
    <3>1. Cardinality(TeamOf(g, Team(f)) \ {f}) = Cardinality(TeamOf(g, Team(f))) - 1
      BY <2>2, <2>3, FS_RemoveElement
    <3>2. Cardinality(TeamOf(g, Team(t)) \cup {t}) = Cardinality(TeamOf(g, Team(t))) + 1
      BY <2>2, <2>3, FS_AddElement
    <3> QED
      BY <2>2, <3>1, <3>2, Zenon DEF Size
  <2>5. CASE Team(f) = 0 /\ Team(t) = 1
    BY <2>3, <2>4, <2>5 DEF Uneven
  <2>6. CASE Team(f) = 1 /\ Team(t) = 0
    BY <2>3, <2>4, <2>6 DEF Uneven
  <2> QED
    BY <2>1, <2>5, <2>6
<1> QED
  BY <1>1, <1>3, <1>7, <1>8, <1>9 DEF Rearranged, Sound, Counts, h

LEMMA SwapRearranges ==
  ASSUME NEW g, Sound(g), NEW a \in Used(g), NEW b \in Used(g), a # b
  PROVE  /\ Rearranged(g, SwapPlayers(g, a, b))
         /\ Used(SwapPlayers(g, a, b)) = Used(g)
<1> DEFINE h == SwapPlayers(g, a, b)
           c == g.player[a].cid
           d == g.player[b].cid
<1>1. g \in Games /\ Tables(g) /\ Counts(g)
  BY DEF Sound
<1>2. /\ a \in Pid /\ b \in Pid /\ c \in Client /\ d \in Client
      /\ Moved(g.player[a]) \in Player /\ Moved(g.player[b]) \in Player
  BY <1>1, PlayersOf
<1>a. \A p \in Used(g) : g.ctop[g.player[p].cid] = p /\ g.conn[g.player[p].cid] = "in"
  BY <1>1 DEF Tables
<1>b. c # d
  BY <1>a
<1>3. /\ h.player = [g.player EXCEPT ![a] = Moved(g.player[b]), ![b] = Moved(g.player[a])]
      /\ h.ctop = [g.ctop EXCEPT ![c] = b, ![d] = a]
      /\ h.conn = g.conn /\ h.failed = g.failed /\ h.players = g.players /\ h.bots = g.bots
      /\ h \in Games
  BY <1>1, <1>2 DEF SwapPlayers, Games
<1>4. /\ h.player[a] = Moved(g.player[b]) /\ h.player[b] = Moved(g.player[a])
      /\ \A p \in Pid \ {a, b} : h.player[p] = g.player[p]
      /\ h.ctop[c] = b /\ h.ctop[d] = a /\ \A e \in Client \ {c, d} : h.ctop[e] = g.ctop[e]
  BY <1>1, <1>2, <1>3, <1>b DEF Games
<1> HIDE DEF h
<1>5. Used(h) = Used(g)
  BY <1>1, <1>2, <1>4, PlayersOf DEF Used
<1>c. /\ h.player[a].is_bot = g.player[b].is_bot /\ h.player[b].is_bot = g.player[a].is_bot
      /\ h.player[a].cid = d /\ h.player[b].cid = c
  BY <1>1, <1>4, PlayersOf
<1>6. Cardinality(Bots(h)) = Cardinality(Bots(g))
  <2>1. \A p \in Used(g) \ {a, b} : h.player[p] = g.player[p]
    BY <1>4, Sizes
  <2>2. /\ a \in Bots(h) <=> b \in Bots(g)
        /\ b \in Bots(h) <=> a \in Bots(g)
        /\ \A p \in Used(g) \ {a, b} : p \in Bots(h) <=> p \in Bots(g)
        /\ Bots(h) \subseteq Used(g) /\ Bots(g) \subseteq Used(g)
    BY <1>5, <1>c, <2>1 DEF Bots
  <2>3. IsFiniteSet(Bots(g))
    BY Sizes
  <2>4. CASE a \in Bots(g) <=> b \in Bots(g)
    <3>1. Bots(h) = Bots(g)
      BY <2>2, <2>4
    <3> QED
      BY <3>1
  <2>5. CASE a \in Bots(g) /\ b \notin Bots(g)
    <3>1. Bots(h) = (Bots(g) \ {a}) \cup {b}
      BY <2>2, <2>5
    <3> QED
      BY <2>3, <2>5, <3>1, Replaced
  <2>6. CASE b \in Bots(g) /\ a \notin Bots(g)
    <3>1. Bots(h) = (Bots(g) \ {b}) \cup {a}
      BY <2>2, <2>6
    <3> QED
      BY <2>3, <2>6, <3>1, Replaced
  <2> QED
    BY <2>4, <2>5, <2>6
<1>7. Tables(h)
  <2>2. ASSUME NEW p \in Used(h)
        PROVE  h.ctop[h.player[p].cid] = p /\ h.conn[h.player[p].cid] = "in"
    <3>1. CASE p = a \/ p = b
      BY <1>3, <1>4, <1>a, <1>c, <3>1
    <3>2. CASE p # a /\ p # b
      <4>1. p \in Used(g) /\ h.player[p] = g.player[p]
        BY <1>4, <1>5, <3>2, Sizes
      <4>2. g.player[p].cid \notin {c, d} /\ g.player[p].cid \in Client
        BY <1>1, <1>a, <3>2, <4>1, PlayersOf
      <4> QED
        BY <1>3, <1>4, <1>a, <4>1, <4>2
    <3> QED
      BY <3>1, <3>2
  <2>3. ASSUME NEW e \in Client, h.ctop[e] # -1
        PROVE  h.player[h.ctop[e]] # None /\ h.player[h.ctop[e]].cid = e
    <3>1. CASE e = c \/ e = d
      BY <1>1, <1>4, <1>c, <3>1, PlayersOf
    <3>2. CASE e # c /\ e # d
      <4>1. h.ctop[e] = g.ctop[e] /\ g.ctop[e] \in Pid
        BY <1>1, <1>4, <2>3, <3>2 DEF Games
      <4>2. g.player[g.ctop[e]] # None /\ g.player[g.ctop[e]].cid = e
        BY <1>1, <2>3, <4>1 DEF Tables
      <4>3. g.ctop[e] # a /\ g.ctop[e] # b
        BY <3>2, <4>2
      <4> QED
        BY <1>4, <4>1, <4>2, <4>3
    <3> QED
      BY <3>1, <3>2
  <2> QED
    BY <2>2, <2>3 DEF Tables
<1>8. Uneven(h) = Uneven(g)
  <2>1. \A t : Size(h, t) = Size(g, t)
    BY <1>5, Zenon DEF Size, TeamOf
  <2> QED
    BY <2>1 DEF Uneven
<1>9. Rearranged(g, h)
  BY <1>1, <1>3, <1>5, <1>6, <1>7, <1>8, UnevenIsNumber DEF Rearranged, Sound, Counts
<1> QED
  BY <1>5, <1>9 DEF h

--------------------------------------------------------------------------------
(* Changes of teams.                                                              *)

LEMMA OtherTeam ==
  ASSUME NEW g, NEW p \in Pid
  PROVE  /\ Team(p) \in {0, 1} /\ 1 - Team(p) \in {0, 1} /\ 1 - Team(p) # Team(p)
         /\ \A q \in Places(1 - Team(p)) : q \in Pid /\ Team(q) = 1 - Team(p) /\ q # p
         /\ \A q \in TeamOf(g, 1 - Team(p)) : q \in Used(g) /\ q # p
<1>1. Team(p) \in {0, 1}
  BY Sides
<1> QED
  BY <1>1 DEF Places, TeamOf

LEMMA ChangeTeamsRearranges ==
  ASSUME NEW g, Sound(g), NEW p \in Pid, NEW h \in ChangeTeams(g, p)
  PROVE  Rearranged(g, h)
<1> DEFINE other == 1 - Team(p)
           delta == Size(g, other) - Size(g, Team(p))
           free == Places(other) \ Used(g)
           trades == {i \in TeamOf(g, other) : g.player[i].want_change_teams}
           bots == Bots(g) \cap TeamOf(g, other)
<1>1. Size(g, other) \in Nat /\ Size(g, Team(p)) \in Nat
  BY OtherTeam, Sizes
<1>2. ASSUME p \in Used(g), free # {}, delta < 0
      PROVE  Rearranged(g, MovePlayer(g, p, Min(free)))
  <2>1. free \in SUBSET Nat /\ free \subseteq Pid
    BY OtherTeam, Sides
  <2>2. Min(free) \in free
    BY <1>2, <2>1, MinIsIn
  <2>3. /\ Min(free) \in Pid \ Used(g) /\ Team(Min(free)) = other /\ other # Team(p)
    BY <2>2, OtherTeam
  <2>4. Size(g, other) < Size(g, Team(p))
    BY <1>1, <1>2
  <2> QED
    BY <1>2, <2>3, <2>4, MoveRearranges
<1>3. ASSUME p \in Used(g), NEW q \in TeamOf(g, other)
      PROVE  Rearranged(g, SwapPlayers(g, p, q))
  BY <1>3, OtherTeam, SwapRearranges
<1>4. ASSUME trades # {} PROVE Min(trades) \in TeamOf(g, other)
  <2>1. trades \in SUBSET Nat
    BY Sides, Sizes DEF TeamOf
  <2> QED
    BY <1>4, <2>1, MinIsIn
<1>5. CASE h = g
  BY <1>5, NothingRearranged
<1>6. CASE h # g
  <2>1. g.player[p] # None /\ p \in Used(g)
    BY <1>6 DEF ChangeTeams, Used
  <2>2. \/ free # {} /\ delta < 0 /\ h = MovePlayer(g, p, Min(free))
        \/ trades # {} /\ h = SwapPlayers(g, p, Min(trades))
        \/ \E b \in bots : h = SwapPlayers(g, p, b)
    BY <1>1, <1>6 DEF ChangeTeams, MoveFirst
  <2>3. CASE free # {} /\ delta < 0 /\ h = MovePlayer(g, p, Min(free))
    BY <1>2, <2>1, <2>3
  <2>4. CASE trades # {} /\ h = SwapPlayers(g, p, Min(trades))
    BY <1>3, <1>4, <2>1, <2>4
  <2>5. CASE \E b \in bots : h = SwapPlayers(g, p, b)
    BY <1>3, <2>1, <2>5
  <2> QED
    BY <2>2, <2>3, <2>4, <2>5
<1> QED
  BY <1>5, <1>6

(* check_team_changes, whatever the order.                                        *)
LEMMA ChangesInOrder ==
  ASSUME NEW g, Sound(g), NEW seq, DOMAIN seq \in SUBSET Nat, IsFiniteSet(DOMAIN seq),
         \A i \in DOMAIN seq : seq[i] \in Pid, NEW h \in InOrder(ChangeTeams, g, seq)
  PROVE  Rearranged(g, h)
<1> DEFINE D == DOMAIN seq
           A == {k \in Games : Rearranged(g, k)}
           After(i, v) == UNION {ChangeTeams(k, seq[i]) : k \in v}
           F == [p \in D \X SUBSET A |-> After(p[1], p[2])]
           E(t, s) == IF s = {} THEN {g} ELSE After(Max(s), t[s \ {Max(s)}])
           iter == CHOOSE t : t = [s \in SUBSET D |-> E(t, s)]
<1>0. D \in SUBSET Nat /\ IsFiniteSet(D)
  OBVIOUS
<1>1. ASSUME NEW i \in D, NEW v \in SUBSET A PROVE After(i, v) \in SUBSET A
  <2> SUFFICES ASSUME NEW k \in v, NEW l \in ChangeTeams(k, seq[i]) PROVE l \in A
    OBVIOUS
  <2>1. Rearranged(g, k) /\ Sound(k)
    BY DEF Rearranged
  <2>2. Rearranged(k, l)
    BY <2>1, ChangeTeamsRearranges
  <2>3. Rearranged(g, l)
    BY <2>1, <2>2, RearrangedTwice
  <2> QED
    BY <2>3 DEF Rearranged, Sound
<1>2. g \in A
  BY NothingRearranged DEF Sound
<1>3. PICK t : IsRun(t, F, {g}, D)
  BY <1>0, RunExists, Zenon
<1> HIDE DEF D, A, After
<1>a. \A s \in SUBSET D : s # {} => Max(s) \in D /\ s \ {Max(s)} \in SUBSET D
  <2> SUFFICES ASSUME NEW s \in SUBSET D, s # {} PROVE Max(s) \in D /\ s \ {Max(s)} \in SUBSET D
    OBVIOUS
  <2>1. s \in SUBSET Nat /\ IsFiniteSet(s)
    BY <1>0, FS_Subset
  <2>2. Max(s) \in s
    BY <2>1, MaxIsIn
  <2> QED
    BY <2>2
<1>4. ASSUME NEW s \in SUBSET D, s # {}, t[s \ {Max(s)}] \in SUBSET A
      PROVE  F[<<Max(s), t[s \ {Max(s)}]>>] = After(Max(s), t[s \ {Max(s)}])
  BY <1>a, <1>4
<1>b. \A s \in SUBSET D : t[s] = IF s = {} THEN {g} ELSE F[<<Max(s), t[s \ {Max(s)}]>>]
  <2> HIDE DEF F
  <2>1. \A s \in SUBSET D : t[s] = RunAt(t, F, {g}, s)
    BY <1>3, RunStep, Zenon
  <2> QED
    BY <2>1, Zenon DEF RunAt
<1> DEFINE V == [s \in SUBSET D |-> SUBSET A]
<1>5. \A s \in SUBSET D : t[s] \in SUBSET A
  <2> HIDE DEF F
  <2>1. t[{}] \in V[{}]
    BY <1>2, <1>b
  <2>2. ASSUME NEW s \in SUBSET D, s # {}, t[s \ {Max(s)}] \in V[s \ {Max(s)}]
        PROVE  t[s] \in V[s]
    <3>1. Max(s) \in D /\ t[s \ {Max(s)}] \in SUBSET A
      BY <1>a, <2>2
    <3>2. t[s] = After(Max(s), t[s \ {Max(s)}])
      BY <1>4, <1>b, <2>2, <3>1, Zenon
    <3>3. t[s] \in SUBSET A
      BY <1>1, <3>1, <3>2, Zenon
    <3> QED
      BY <3>3
  <2>3. \A s \in SUBSET D : t[s] \in V[s]
    <3> HIDE DEF V
    <3> QED
      BY <1>0, <2>1, <2>2, RunStays
  <2> QED
    BY <2>3
<1>6. iter = [s \in SUBSET D |-> E(iter, s)]
  <2>1. \A s \in SUBSET D : t[s] = E(t, s)
    BY <1>4, <1>5, <1>a, <1>b, Zenon
  <2>2. t = [s \in SUBSET D |-> t[s]]
    BY <1>3, Zenon DEF IsRun
  <2>3. t = [s \in SUBSET D |-> E(t, s)]
    <3> HIDE DEF E
    <3> QED
      BY <2>1, <2>2
  <2> QED
    BY <2>3, Zenon
<1>c. \A s \in SUBSET D : iter[s] = E(iter, s)
  <2> HIDE DEF iter, E
  <2> QED
    BY <1>6
<1>7. iter[D] \in SUBSET A
  <2> HIDE DEF iter
  <2>1. iter[{}] \in V[{}]
    BY <1>2, <1>c
  <2>2. ASSUME NEW s \in SUBSET D, s # {}, iter[s \ {Max(s)}] \in V[s \ {Max(s)}]
        PROVE  iter[s] \in V[s]
    <3>1. Max(s) \in D /\ iter[s \ {Max(s)}] \in SUBSET A
      BY <1>a, <2>2
    <3>2. iter[s] = After(Max(s), iter[s \ {Max(s)}])
      BY <1>c, <2>2, Zenon
    <3>3. iter[s] \in SUBSET A
      BY <1>1, <3>1, <3>2, Zenon
    <3> QED
      BY <3>3
  <2>3. \A s \in SUBSET D : iter[s] \in V[s]
    <3> HIDE DEF V
    <3> QED
      BY <1>0, <2>1, <2>2, RunStays
  <2> QED
    BY <2>3
<1>8. InOrder(ChangeTeams, g, seq) = iter[D]
  BY Zenon DEF InOrder, Then, FoldLeft, MapThenFoldSet, D, After
<1> QED
  BY <1>7, <1>8 DEF A

LEMMA CheckTeamChangesRearranges ==
  ASSUME NEW g, Sound(g), NEW h \in CheckTeamChanges(g)
  PROVE  Rearranged(g, h)
<1> DEFINE S == {p \in Used(g) : g.player[p].want_change_teams}
<1>1. PICK order \in SetToSeqs(S) : h \in InOrder(ChangeTeams, g, order)
  BY DEF CheckTeamChanges
<1>2. IsFiniteSet(S) /\ S \subseteq Pid /\ Cardinality(S) \in Nat
  <2>1. IsFiniteSet(Used(g)) /\ Used(g) \subseteq Pid /\ S \in SUBSET Used(g)
    BY Sizes
  <2> HIDE DEF S
  <2> QED
    BY <2>1, FS_Subset, FS_CardinalityType
<1> HIDE DEF S
<1>3. order \in [1 .. Cardinality(S) -> S]
  BY <1>1 DEF SetToSeqs
<1>4. /\ DOMAIN order \in SUBSET Nat /\ IsFiniteSet(DOMAIN order)
      /\ \A i \in DOMAIN order : order[i] \in Pid
  <2>1. DOMAIN order = 1 .. Cardinality(S) /\ \A i \in DOMAIN order : order[i] \in S
    BY <1>3
  <2>2. IsFiniteSet(1 .. Cardinality(S))
    BY <1>2, FS_Interval
  <2> QED
    BY <1>2, <2>1, <2>2
<1> QED
  BY <1>1, <1>4, ChangesInOrder

--------------------------------------------------------------------------------
(* Restarts.                                                                      *)

LEMMA MoveOneRearranges ==
  ASSUME NEW g, Sound(g), NEW n, NEW h \in MoveOne(g, n)
  PROVE  Rearranged(g, h)
<1> DEFINE t == IF Size(g, 0) > Size(g, 1) THEN 0 ELSE 1
           free == Places(1 - t) \ Used(g)
<1>1. /\ t \in {0, 1} /\ 1 - t \in {0, 1} /\ t # 1 - t
      /\ Size(g, t) \in Nat /\ Size(g, 1 - t) \in Nat /\ Size(g, t) <= TSIZE
      /\ Size(g, 1 - t) < TSIZE => free # {}
  BY Sizes
<1> HIDE DEF t
<1>2. CASE Size(g, t) - Size(g, 1 - t) <= 1
  <2>1. h = g
    BY <1>2 DEF MoveOne, t
  <2> QED
    BY <2>1, NothingRearranged
<1>3. CASE ~(Size(g, t) - Size(g, 1 - t) <= 1)
  <2>1. PICK p \in TeamOf(g, t) : h = MovePlayer(g, p, Min(free))
    BY <1>3 DEF MoveOne, t
  <2>2. free # {} /\ Size(g, 1 - t) < Size(g, t)
    BY <1>1, <1>3, Halves
  <2>3. free \in SUBSET Nat /\ free \subseteq Pid
    BY <1>1, Sides
  <2>4. Min(free) \in free
    BY <2>2, <2>3, MinIsIn
  <2>5. Min(free) \in Pid \ Used(g) /\ Team(Min(free)) = 1 - t
    BY <2>3, <2>4 DEF Places
  <2>6. p \in Used(g) /\ Team(p) = t
    BY <2>1 DEF TeamOf
  <2> QED
    BY <1>1, <2>1, <2>2, <2>5, <2>6, MoveRearranges
<1> QED
  BY <1>2, <1>3

(* balance_teams, as long as it may take.                                         *)
LEMMA MovesInOrder ==
  ASSUME NEW g, Sound(g), NEW seq, DOMAIN seq \in SUBSET Nat, IsFiniteSet(DOMAIN seq),
         NEW h \in InOrder(MoveOne, g, seq)
  PROVE  Rearranged(g, h)
<1> DEFINE D == DOMAIN seq
           A == {k \in Games : Rearranged(g, k)}
           After(i, v) == UNION {MoveOne(k, seq[i]) : k \in v}
           F == [p \in D \X SUBSET A |-> After(p[1], p[2])]
           E(t, s) == IF s = {} THEN {g} ELSE After(Max(s), t[s \ {Max(s)}])
           iter == CHOOSE t : t = [s \in SUBSET D |-> E(t, s)]
<1>0. D \in SUBSET Nat /\ IsFiniteSet(D)
  OBVIOUS
<1>1. ASSUME NEW i \in D, NEW v \in SUBSET A PROVE After(i, v) \in SUBSET A
  <2> SUFFICES ASSUME NEW k \in v, NEW l \in MoveOne(k, seq[i]) PROVE l \in A
    OBVIOUS
  <2>1. Rearranged(g, k) /\ Sound(k)
    BY DEF Rearranged
  <2>2. Rearranged(k, l)
    BY <2>1, MoveOneRearranges
  <2>3. Rearranged(g, l)
    BY <2>1, <2>2, RearrangedTwice
  <2> QED
    BY <2>3 DEF Rearranged, Sound
<1>2. g \in A
  BY NothingRearranged DEF Sound
<1>3. PICK t : IsRun(t, F, {g}, D)
  BY <1>0, RunExists, Zenon
<1> HIDE DEF D, A, After
<1>a. \A s \in SUBSET D : s # {} => Max(s) \in D /\ s \ {Max(s)} \in SUBSET D
  <2> SUFFICES ASSUME NEW s \in SUBSET D, s # {} PROVE Max(s) \in D /\ s \ {Max(s)} \in SUBSET D
    OBVIOUS
  <2>1. s \in SUBSET Nat /\ IsFiniteSet(s)
    BY <1>0, FS_Subset
  <2>2. Max(s) \in s
    BY <2>1, MaxIsIn
  <2> QED
    BY <2>2
<1>4. ASSUME NEW s \in SUBSET D, s # {}, t[s \ {Max(s)}] \in SUBSET A
      PROVE  F[<<Max(s), t[s \ {Max(s)}]>>] = After(Max(s), t[s \ {Max(s)}])
  BY <1>a, <1>4
<1>b. \A s \in SUBSET D : t[s] = IF s = {} THEN {g} ELSE F[<<Max(s), t[s \ {Max(s)}]>>]
  <2> HIDE DEF F
  <2>1. \A s \in SUBSET D : t[s] = RunAt(t, F, {g}, s)
    BY <1>3, RunStep, Zenon
  <2> QED
    BY <2>1, Zenon DEF RunAt
<1> DEFINE V == [s \in SUBSET D |-> SUBSET A]
<1>5. \A s \in SUBSET D : t[s] \in SUBSET A
  <2> HIDE DEF F
  <2>1. t[{}] \in V[{}]
    BY <1>2, <1>b
  <2>2. ASSUME NEW s \in SUBSET D, s # {}, t[s \ {Max(s)}] \in V[s \ {Max(s)}]
        PROVE  t[s] \in V[s]
    <3>1. Max(s) \in D /\ t[s \ {Max(s)}] \in SUBSET A
      BY <1>a, <2>2
    <3>2. t[s] = After(Max(s), t[s \ {Max(s)}])
      BY <1>4, <1>b, <2>2, <3>1, Zenon
    <3>3. t[s] \in SUBSET A
      BY <1>1, <3>1, <3>2, Zenon
    <3> QED
      BY <3>3
  <2>3. \A s \in SUBSET D : t[s] \in V[s]
    <3> HIDE DEF V
    <3> QED
      BY <1>0, <2>1, <2>2, RunStays
  <2> QED
    BY <2>3
<1>6. iter = [s \in SUBSET D |-> E(iter, s)]
  <2>1. \A s \in SUBSET D : t[s] = E(t, s)
    BY <1>4, <1>5, <1>a, <1>b, Zenon
  <2>2. t = [s \in SUBSET D |-> t[s]]
    BY <1>3, Zenon DEF IsRun
  <2>3. t = [s \in SUBSET D |-> E(t, s)]
    <3> HIDE DEF E
    <3> QED
      BY <2>1, <2>2
  <2> QED
    BY <2>3, Zenon
<1>c. \A s \in SUBSET D : iter[s] = E(iter, s)
  <2> HIDE DEF iter, E
  <2> QED
    BY <1>6
<1>7. iter[D] \in SUBSET A
  <2> HIDE DEF iter
  <2>1. iter[{}] \in V[{}]
    BY <1>2, <1>c
  <2>2. ASSUME NEW s \in SUBSET D, s # {}, iter[s \ {Max(s)}] \in V[s \ {Max(s)}]
        PROVE  iter[s] \in V[s]
    <3>1. Max(s) \in D /\ iter[s \ {Max(s)}] \in SUBSET A
      BY <1>a, <2>2
    <3>2. iter[s] = After(Max(s), iter[s \ {Max(s)}])
      BY <1>c, <2>2, Zenon
    <3>3. iter[s] \in SUBSET A
      BY <1>1, <3>1, <3>2, Zenon
    <3> QED
      BY <3>3
  <2>3. \A s \in SUBSET D : iter[s] \in V[s]
    <3> HIDE DEF V
    <3> QED
      BY <1>0, <2>1, <2>2, RunStays
  <2> QED
    BY <2>3
<1>8. InOrder(MoveOne, g, seq) = iter[D]
  BY Zenon DEF InOrder, Then, FoldLeft, MapThenFoldSet, D, After
<1> QED
  BY <1>7, <1>8 DEF A

LEMMA BalanceTeamsRearranges ==
  ASSUME NEW g, Sound(g), NEW h \in BalanceTeams(g)
  PROVE  Rearranged(g, h)
<1> DEFINE seq == [i \in 1 .. TSIZE |-> i]
<1>1. DOMAIN seq \in SUBSET Nat /\ IsFiniteSet(DOMAIN seq)
  BY Halves, FS_Interval
<1>2. h \in InOrder(MoveOne, g, seq)
  BY DEF BalanceTeams
<1> HIDE DEF seq
<1> QED
  BY <1>1, <1>2, MovesInOrder

(* A shuffle keeps the places that are taken, so the next player to swap is there. *)
LEMMA SwapShuffledRearranges ==
  ASSUME NEW g, NEW order \in SetToSeqs(Used(g)), NEW h, Sound(h), Used(h) = Used(g),
         NEW i \in Pid, Team(i) = 0, NEW k \in SwapShuffled(g, h, order, i)
  PROVE  Rearranged(h, k) /\ Used(k) = Used(g)
<1> DEFINE below == {p \in TeamOf(g, 0) : p <= i}
           n == Cardinality(below)
<1>1. CASE k = h
  BY <1>1, NothingRearranged
<1>2. CASE k # h
  <2>1. i \in Used(g) /\ Team(order[n]) # 0 /\ k = SwapPlayers(h, i, order[n])
    BY <1>2 DEF SwapShuffled
  <2>2. i \in TeamOf(g, 0) /\ i \in Nat
    BY <2>1, Sides DEF TeamOf
  <2>3. i \in below /\ below \subseteq Used(g)
    BY <2>2 DEF TeamOf
  <2>4. n \in 1 .. Cardinality(Used(g))
    <3>1. IsFiniteSet(Used(g)) /\ Cardinality(Used(g)) \in Nat
      BY Sizes
    <3> HIDE DEF below
    <3>2. IsFiniteSet(below) /\ n \in Nat /\ n <= Cardinality(Used(g)) /\ n # 0
      BY <2>3, <3>1, FS_Subset, FS_CardinalityType, FS_EmptySet
    <3> QED
      BY <3>1, <3>2
  <2>5. order[n] \in Used(g)
    <3>1. order \in [1 .. Cardinality(Used(g)) -> Used(g)]
      BY DEF SetToSeqs
    <3> HIDE DEF n
    <3> QED
      BY <2>4, <3>1
  <2> HIDE DEF n
  <2> QED
    BY <2>1, <2>5, SwapRearranges
<1> QED
  BY <1>1, <1>2

Shuffled(g, order, seq) == InOrder(LAMBDA k, i : SwapShuffled(g, k, order, i), g, seq)

LEMMA SwapsInOrder ==
  ASSUME NEW g, Sound(g), NEW order \in SetToSeqs(Used(g)),
         NEW seq, DOMAIN seq \in SUBSET Nat, IsFiniteSet(DOMAIN seq),
         \A i \in DOMAIN seq : seq[i] \in Pid /\ Team(seq[i]) = 0,
         NEW h \in Shuffled(g, order, seq)
  PROVE  Rearranged(g, h)
<1> DEFINE D == DOMAIN seq
           A == {k \in Games : Rearranged(g, k) /\ Used(k) = Used(g)}
           After(i, v) == UNION {SwapShuffled(g, k, order, seq[i]) : k \in v}
           F == [p \in D \X SUBSET A |-> After(p[1], p[2])]
           E(t, s) == IF s = {} THEN {g} ELSE After(Max(s), t[s \ {Max(s)}])
           iter == CHOOSE t : t = [s \in SUBSET D |-> E(t, s)]
<1>0. D \in SUBSET Nat /\ IsFiniteSet(D)
  OBVIOUS
<1>1. ASSUME NEW i \in D, NEW v \in SUBSET A PROVE After(i, v) \in SUBSET A
  <2> SUFFICES ASSUME NEW k \in v, NEW l \in SwapShuffled(g, k, order, seq[i]) PROVE l \in A
    OBVIOUS
  <2>1. Rearranged(g, k) /\ Sound(k) /\ Used(k) = Used(g)
    BY DEF Rearranged
  <2>a. seq[i] \in Pid /\ Team(seq[i]) = 0
    OBVIOUS
  <2> DEFINE x == seq[i]
  <2> HIDE DEF x, After, F, E, A, iter
  <2>2. Rearranged(k, l) /\ Used(l) = Used(g)
    <3>1. x \in Pid /\ Team(x) = 0 /\ l \in SwapShuffled(g, k, order, x)
      BY <2>a DEF x
    <3> QED
      BY <2>1, <3>1, SwapShuffledRearranges
  <2>3. Rearranged(g, l)
    BY <2>1, <2>2, RearrangedTwice
  <2> QED
    BY <2>2, <2>3 DEF Rearranged, Sound, A
<1>2. g \in A
  BY NothingRearranged DEF Sound
<1>3. PICK t : IsRun(t, F, {g}, D)
  BY <1>0, RunExists, Zenon
<1> HIDE DEF D, A, After
<1>a. \A s \in SUBSET D : s # {} => Max(s) \in D /\ s \ {Max(s)} \in SUBSET D
  <2> SUFFICES ASSUME NEW s \in SUBSET D, s # {} PROVE Max(s) \in D /\ s \ {Max(s)} \in SUBSET D
    OBVIOUS
  <2>1. s \in SUBSET Nat /\ IsFiniteSet(s)
    BY <1>0, FS_Subset
  <2>2. Max(s) \in s
    BY <2>1, MaxIsIn
  <2> QED
    BY <2>2
<1>4. ASSUME NEW s \in SUBSET D, s # {}, t[s \ {Max(s)}] \in SUBSET A
      PROVE  F[<<Max(s), t[s \ {Max(s)}]>>] = After(Max(s), t[s \ {Max(s)}])
  BY <1>a, <1>4
<1>b. \A s \in SUBSET D : t[s] = IF s = {} THEN {g} ELSE F[<<Max(s), t[s \ {Max(s)}]>>]
  <2> HIDE DEF F
  <2>1. \A s \in SUBSET D : t[s] = RunAt(t, F, {g}, s)
    BY <1>3, RunStep, Zenon
  <2> QED
    BY <2>1, Zenon DEF RunAt
<1> DEFINE V == [s \in SUBSET D |-> SUBSET A]
<1>5. \A s \in SUBSET D : t[s] \in SUBSET A
  <2> HIDE DEF F
  <2>1. t[{}] \in V[{}]
    BY <1>2, <1>b
  <2>2. ASSUME NEW s \in SUBSET D, s # {}, t[s \ {Max(s)}] \in V[s \ {Max(s)}]
        PROVE  t[s] \in V[s]
    <3>1. Max(s) \in D /\ t[s \ {Max(s)}] \in SUBSET A
      BY <1>a, <2>2
    <3>2. t[s] = After(Max(s), t[s \ {Max(s)}])
      BY <1>4, <1>b, <2>2, <3>1, Zenon
    <3>3. t[s] \in SUBSET A
      BY <1>1, <3>1, <3>2, Zenon
    <3> QED
      BY <3>3
  <2>3. \A s \in SUBSET D : t[s] \in V[s]
    <3> HIDE DEF V
    <3> QED
      BY <1>0, <2>1, <2>2, RunStays
  <2> QED
    BY <2>3
<1>6. iter = [s \in SUBSET D |-> E(iter, s)]
  <2>1. \A s \in SUBSET D : t[s] = E(t, s)
    BY <1>4, <1>5, <1>a, <1>b, Zenon
  <2>2. t = [s \in SUBSET D |-> t[s]]
    BY <1>3, Zenon DEF IsRun
  <2>3. t = [s \in SUBSET D |-> E(t, s)]
    <3> HIDE DEF E
    <3> QED
      BY <2>1, <2>2
  <2> QED
    BY <2>3, Zenon
<1>c. \A s \in SUBSET D : iter[s] = E(iter, s)
  <2> HIDE DEF iter, E
  <2> QED
    BY <1>6
<1>7. iter[D] \in SUBSET A
  <2> HIDE DEF iter
  <2>1. iter[{}] \in V[{}]
    BY <1>2, <1>c
  <2>2. ASSUME NEW s \in SUBSET D, s # {}, iter[s \ {Max(s)}] \in V[s \ {Max(s)}]
        PROVE  iter[s] \in V[s]
    <3>1. Max(s) \in D /\ iter[s \ {Max(s)}] \in SUBSET A
      BY <1>a, <2>2
    <3>2. iter[s] = After(Max(s), iter[s \ {Max(s)}])
      BY <1>c, <2>2, Zenon
    <3>3. iter[s] \in SUBSET A
      BY <1>1, <3>1, <3>2, Zenon
    <3> QED
      BY <3>3
  <2>3. \A s \in SUBSET D : iter[s] \in V[s]
    <3> HIDE DEF V
    <3> QED
      BY <1>0, <2>1, <2>2, RunStays
  <2> QED
    BY <2>3
<1>8. Shuffled(g, order, seq) = iter[D]
  BY Zenon DEF InOrder, Then, FoldLeft, MapThenFoldSet, D, After, Shuffled
<1> QED
  BY <1>7, <1>8 DEF A

LEMMA ShuffleTeamsRearranges ==
  ASSUME NEW g, Sound(g), NEW h \in ShuffleTeams(g)
  PROVE  Rearranged(g, h)
<1> DEFINE seq == [k \in 1 .. TSIZE |-> k - 1]
<1>1. CASE Cardinality(Used(g)) <= 2
  <2>1. h = g
    BY <1>1 DEF ShuffleTeams
  <2> QED
    BY <2>1, NothingRearranged
<1>2. CASE ~(Cardinality(Used(g)) <= 2)
  <2>1. PICK order \in SetToSeqs(Used(g)) : h \in Shuffled(g, order, seq)
    BY <1>2, Zenon DEF ShuffleTeams, Shuffled
  <2>2. DOMAIN seq \in SUBSET Nat /\ IsFiniteSet(DOMAIN seq) /\ DOMAIN seq = 1 .. TSIZE
    BY Halves, FS_Interval
  <2>3. \A i \in 1 .. TSIZE : i - 1 \in Pid /\ i - 1 < TSIZE
    BY Halves
  <2>4. \A i \in DOMAIN seq : seq[i] \in Pid /\ Team(seq[i]) = 0
    BY <2>2, <2>3, Sides
  <2> HIDE DEF seq
  <2> QED
    BY <2>1, <2>2, <2>4, SwapsInOrder
<1> QED
  BY <1>1, <1>2

LEMMA RestartRearranges ==
  ASSUME NEW g, Sound(g), NEW h \in Restart(g)
  PROVE  Rearranged(g, h)
<1>1. CASE TeamBalance = "none"
  BY <1>1, NothingRearranged DEF Restart
<1>2. CASE TeamBalance = "balance"
  BY <1>2, BalanceTeamsRearranges DEF Restart
<1>3. CASE TeamBalance = "shuffle"
  <2>1. PICK k \in BalanceTeams(g) : h \in ShuffleTeams(k)
    BY <1>3 DEF Restart
  <2>2. Rearranged(g, k) /\ Sound(k)
    BY <2>1, BalanceTeamsRearranges DEF Rearranged
  <2>3. Rearranged(k, h)
    BY <2>1, <2>2, ShuffleTeamsRearranges
  <2> QED
    BY <2>2, <2>3, RearrangedTwice
<1> QED
  BY <1>1, <1>2, <1>3, SettingsAssumption

--------------------------------------------------------------------------------
(* Joining and leaving.                                                           *)

(* g becomes h when somebody that was counted has gone.                           *)
Without(g, h, bots) ==
  /\ Sound(h) /\ h.failed = g.failed /\ Accepted(h) = Accepted(g)
  /\ h.players = g.players - 1 /\ h.bots = bots

LEMMA AcceptedStay ==
  ASSUME NEW g, NEW h, Rearranged(g, h)
  PROVE  Accepted(h) = Accepted(g) /\ Sound(h) /\ h.failed = g.failed
         /\ h.players = g.players /\ h.bots = g.bots
BY DEF Rearranged, Accepted

LEMMA LeaveLeaves ==
  ASSUME NEW g, Sound(g), NEW p \in Used(g), NEW h \in Leave(g, p)
  PROVE  Without(g, h, BotsAfter(g, p))
<1> DEFINE c == g.player[p].cid
           k == [g EXCEPT !.player = [@ EXCEPT ![p] = None], !.ctop = [@ EXCEPT ![c] = -1],
                          !.conn = [@ EXCEPT ![c] = IF c \in Bot THEN "finished" ELSE "out"],
                          !.players = @ - 1, !.bots = BotsAfter(g, p)]
<1>1. g \in Games /\ Tables(g) /\ Counts(g)
  BY DEF Sound
<1>2. p \in Pid /\ c \in Client /\ g.conn[c] = "in"
  BY <1>1, PlayersOf DEF Tables
<1>a. \A q \in Used(g) : g.ctop[g.player[q].cid] = q /\ g.conn[g.player[q].cid] = "in"
  BY <1>1 DEF Tables
<1>3. /\ IsFiniteSet(Used(g)) /\ IsFiniteSet(Bots(g)) /\ Cardinality(Used(g)) \in Nat
      /\ Cardinality(Bots(g)) \in Nat
      /\ Cardinality(Used(g) \ {p}) = Cardinality(Used(g)) - 1
      /\ Cardinality(Used(g) \ {p}) \in Nat
      /\ p \in Bots(g) => /\ Cardinality(Bots(g) \ {p}) = Cardinality(Bots(g)) - 1
                         /\ Cardinality(Bots(g) \ {p}) \in Nat
  BY Sizes, FS_RemoveElement, FS_CardinalityType
<1>4. g.players - 1 \in Nat /\ BotsAfter(g, p) \in Nat
  BY <1>1, <1>3 DEF Counts, BotsAfter, Bots, Games
<1>5. /\ k.player = [g.player EXCEPT ![p] = None] /\ k.ctop = [g.ctop EXCEPT ![c] = -1]
      /\ k.conn = [g.conn EXCEPT ![c] = IF c \in Bot THEN "finished" ELSE "out"]
      /\ k.players = g.players - 1 /\ k.bots = BotsAfter(g, p) /\ k.failed = g.failed
      /\ k \in Games
  BY <1>1, <1>2, <1>4 DEF Games, Stage
<1>6. \E l \in CheckTeamChanges(k) : h \in CheckMapExit(l)
  BY DEF Leave
<1> HIDE DEF k
<1>7. /\ k.player[p] = None /\ \A q \in Pid \ {p} : k.player[q] = g.player[q]
      /\ k.ctop[c] = -1 /\ \A d \in Client \ {c} : k.ctop[d] = g.ctop[d] /\ k.conn[d] = g.conn[d]
      /\ k.conn[c] # "accepted"
  BY <1>1, <1>2, <1>5 DEF Games
<1>8. Used(k) = Used(g) \ {p}
  BY <1>2, <1>7 DEF Used
<1>9. Bots(k) = Bots(g) \ {p}
  BY <1>7, <1>8, Sizes DEF Bots
<1>10. Counts(k)
  <2>1. CASE g.player[p].is_bot
    <3>1. p \in Bots(g)
      BY <2>1 DEF Bots
    <3> QED
      BY <1>1, <1>3, <1>5, <1>8, <1>9, <2>1, <3>1 DEF Counts, BotsAfter
  <2>2. CASE ~g.player[p].is_bot
    <3>1. Bots(k) = Bots(g)
      BY <1>9, <2>2 DEF Bots
    <3> QED
      BY <1>1, <1>3, <1>5, <1>8, <2>2, <3>1 DEF Counts, BotsAfter
  <2> QED
    BY <2>1, <2>2
<1>11. Tables(k)
  <2>1. ASSUME NEW q \in Used(k)
        PROVE  k.ctop[k.player[q].cid] = q /\ k.conn[k.player[q].cid] = "in"
    <3>1. q \in Used(g) /\ q # p /\ k.player[q] = g.player[q]
      BY <1>7, <1>8, Sizes
    <3>2. g.player[q].cid \in Client /\ g.player[q].cid # c
      BY <1>1, <1>a, <3>1, PlayersOf
    <3> QED
      BY <1>7, <1>a, <3>1, <3>2
  <2>2. ASSUME NEW d \in Client, k.ctop[d] # -1
        PROVE  k.player[k.ctop[d]] # None /\ k.player[k.ctop[d]].cid = d
    <3>1. d # c /\ k.ctop[d] = g.ctop[d] /\ g.ctop[d] \in Pid
      BY <1>1, <1>7, <2>2 DEF Games
    <3>2. g.player[g.ctop[d]] # None /\ g.player[g.ctop[d]].cid = d
      BY <1>1, <2>2, <3>1 DEF Tables
    <3>3. g.ctop[d] # p
      BY <3>1, <3>2
    <3> QED
      BY <1>7, <3>1, <3>2, <3>3
  <2> QED
    BY <2>1, <2>2 DEF Tables
<1>12. Sound(k)
  BY <1>5, <1>10, <1>11 DEF Sound
<1>13. Accepted(k) = Accepted(g)
  BY <1>2, <1>7 DEF Accepted
<1>14. PICK l \in CheckTeamChanges(k) : h \in CheckMapExit(l)
  BY <1>6
<1>15. Rearranged(k, l)
  BY <1>12, <1>14, CheckTeamChangesRearranges
<1>16. h = l \/ Rearranged(l, h)
  BY <1>14, <1>15, AcceptedStay, RestartRearranges DEF CheckMapExit
<1>17. Rearranged(k, h)
  BY <1>15, <1>16, RearrangedTwice
<1> QED
  BY <1>5, <1>13, <1>17, AcceptedStay DEF Without

LEMMA RemoveBotRemoves ==
  ASSUME NEW g, Sound(g), g.bots > 0, NEW h \in RemoveBot(g)
  PROVE  Without(g, h, g.bots - 1)
<1>1. Bots(g) # {}
  <2>1. Cardinality(Bots(g)) > 0
    BY DEF Sound, Counts
  <2> QED
    BY <2>1, FS_EmptySet
<1>2. \E b \in Bots(g) : h \in Leave(g, b)
  BY <1>1, Zenon DEF RemoveBot
<1>3. PICK b \in Bots(g) : h \in Leave(g, b)
  BY <1>2
<1>4. b \in Used(g) /\ BotsAfter(g, b) = g.bots - 1
  BY DEF Bots, BotsAfter
<1> QED
  BY <1>3, <1>4, LeaveLeaves

LEMMA NewTeamsAreSmaller ==
  ASSUME NEW g, NEW t \in NewTeams(g)
  PROVE  t \in {0, 1} /\ Size(g, t) <= Size(g, 1 - t)
<1>1. Size(g, 0) \in Nat /\ Size(g, 1) \in Nat
  BY Sizes
<1>2. CASE Size(g, 0) < Size(g, 1)
  BY <1>1, <1>2 DEF NewTeams
<1>3. CASE Size(g, 0) > Size(g, 1)
  BY <1>1, <1>3 DEF NewTeams
<1>4. CASE Size(g, 0) = Size(g, 1)
  <2>1. t \in {0, 1}
    BY <1>1, <1>4 DEF NewTeams
  <2> QED
    BY <1>1, <1>4, <2>1
<1> QED
  BY <1>1, <1>2, <1>3, <1>4

(* g becomes h when client c has come.                                            *)
With(g, h, c) ==
  /\ Sound(h) /\ h.failed = g.failed /\ Accepted(h) = Accepted(g) \ {c}
  /\ h.players = g.players + 1 /\ h.bots = g.bots

LEMMA EnterEnters ==
  ASSUME NEW g, Sound(g), NEW c \in Client, g.conn[c] = "accepted",
         NEW t \in {0, 1}, Size(g, t) < TSIZE, NEW h \in Enter(g, c, t)
  PROVE  With(g, h, c)
<1> DEFINE free == Places(t) \ Used(g)
           n == Min(free)
           pl == [cid |-> c, is_bot |-> FALSE, want_change_teams |-> FALSE, waits |-> FALSE]
           k == [g EXCEPT !.player = [@ EXCEPT ![n] = pl], !.ctop = [@ EXCEPT ![c] = n],
                          !.conn = [@ EXCEPT ![c] = "in"], !.players = @ + 1]
<1>1. g \in Games /\ Tables(g) /\ Counts(g)
  BY DEF Sound
<1>2. free # {} /\ free \in SUBSET Nat /\ free \subseteq Pid
  BY Sizes, Sides
<1>3. n \in Pid /\ n \notin Used(g)
  BY <1>2, MinIsIn
<1>a. \A q \in Used(g) : g.ctop[g.player[q].cid] = q /\ g.conn[g.player[q].cid] = "in"
  BY <1>1 DEF Tables
<1>4. \E l \in (IF k.players = 2 THEN Restart(k) ELSE {k}) : h \in CheckTeamChanges(l)
  BY <1>2 DEF Enter
<1> HIDE DEF n
<1>5. pl \in Player /\ pl # None /\ pl.cid = c /\ ~pl.is_bot
  <2>1. pl \in [cid : Client, is_bot : BOOLEAN, want_change_teams : BOOLEAN, waits : BOOLEAN]
    OBVIOUS
  <2>2. pl \in Player
    BY <2>1 DEF Player
  <2> HIDE DEF pl
  <2>3. pl # None
    BY <2>2, ClientAssumption
  <2>4. pl.cid = c /\ ~pl.is_bot
    BY DEF pl
  <2> QED
    BY <2>2, <2>3, <2>4
<1> HIDE DEF pl
<1>6. /\ k.player = [g.player EXCEPT ![n] = pl] /\ k.ctop = [g.ctop EXCEPT ![c] = n]
      /\ k.conn = [g.conn EXCEPT ![c] = "in"] /\ k.players = g.players + 1
      /\ k.bots = g.bots /\ k.failed = g.failed /\ k \in Games
  <2>1. /\ [g.player EXCEPT ![n] = pl] \in [Pid -> Player \cup {None}]
        /\ [g.ctop EXCEPT ![c] = n] \in [Client -> Pid \cup {-1}]
        /\ [g.conn EXCEPT ![c] = "in"] \in [Client -> Stage] /\ g.players + 1 \in Nat
    BY <1>1, <1>3, <1>5 DEF Games, Stage
  <2> DEFINE P == [g.player EXCEPT ![n] = pl]
             T == [g.ctop EXCEPT ![c] = n]
             C == [g.conn EXCEPT ![c] = "in"]
  <2>2. k = [g EXCEPT !.player = P, !.ctop = T, !.conn = C, !.players = @ + 1]
    BY Zenon
  <2>a. P \in [Pid -> Player \cup {None}] /\ T \in [Client -> Pid \cup {-1}] /\ C \in [Client -> Stage]
    BY <2>1
  <2> HIDE DEF k, P, T, C
  <2>3. /\ k.player = P /\ k.ctop = T /\ k.conn = C /\ k.players = g.players + 1
        /\ k.bots = g.bots /\ k.failed = g.failed /\ k \in Games
    BY <1>1, <2>1, <2>2, <2>a DEF Games
  <2> QED
    BY <2>3 DEF P, T, C
<1> HIDE DEF k
<1>7. /\ k.player[n] = pl /\ \A q \in Pid \ {n} : k.player[q] = g.player[q]
      /\ k.ctop[c] = n /\ k.conn[c] = "in"
      /\ \A d \in Client \ {c} : k.ctop[d] = g.ctop[d] /\ k.conn[d] = g.conn[d]
  BY <1>1, <1>3, <1>6 DEF Games
<1>8. Used(k) = Used(g) \cup {n}
  BY <1>3, <1>5, <1>7 DEF Used
<1>9. Bots(k) = Bots(g)
  <2>1. \A q \in Used(g) : q # n /\ k.player[q] = g.player[q]
    BY <1>3, <1>7, Sizes
  <2> QED
    BY <1>5, <1>7, <1>8, <2>1 DEF Bots
<1>10. Counts(k)
  <2>1. IsFiniteSet(Used(g))
    BY Sizes
  <2>2. Cardinality(Used(g) \cup {n}) = Cardinality(Used(g)) + 1
    BY <1>3, <2>1, FS_AddElement
  <2> QED
    BY <1>1, <1>6, <1>8, <1>9, <2>2 DEF Counts
<1>11. Tables(k)
  <2>1. ASSUME NEW q \in Used(k)
        PROVE  k.ctop[k.player[q].cid] = q /\ k.conn[k.player[q].cid] = "in"
    <3>1. CASE q = n
      BY <1>5, <1>7, <3>1
    <3>2. CASE q # n
      <4>1. q \in Used(g) /\ k.player[q] = g.player[q]
        BY <1>7, <1>8, <3>2, Sizes
      <4>2. g.player[q].cid \in Client /\ g.player[q].cid # c
        BY <1>1, <1>a, <4>1, PlayersOf
      <4> QED
        BY <1>7, <1>a, <4>1, <4>2
    <3> QED
      BY <3>1, <3>2
  <2>2. ASSUME NEW d \in Client, k.ctop[d] # -1
        PROVE  k.player[k.ctop[d]] # None /\ k.player[k.ctop[d]].cid = d
    <3>1. CASE d = c
      BY <1>5, <1>7, <3>1
    <3>2. CASE d # c
      <4>1. k.ctop[d] = g.ctop[d] /\ g.ctop[d] \in Pid
        BY <1>1, <1>7, <2>2, <3>2 DEF Games
      <4>2. g.player[g.ctop[d]] # None /\ g.player[g.ctop[d]].cid = d
        BY <1>1, <2>2, <4>1 DEF Tables
      <4>3. g.ctop[d] # n
        BY <1>3, <4>2 DEF Used
      <4> QED
        BY <1>7, <4>1, <4>2, <4>3
    <3> QED
      BY <3>1, <3>2
  <2> QED
    BY <2>1, <2>2 DEF Tables
<1>12. Sound(k)
  BY <1>6, <1>10, <1>11 DEF Sound
<1>13. Accepted(k) = Accepted(g) \ {c}
  BY <1>7 DEF Accepted
<1>14. PICK l \in (IF k.players = 2 THEN Restart(k) ELSE {k}) : h \in CheckTeamChanges(l)
  BY <1>4
<1>15. Rearranged(k, l)
  BY <1>12, <1>14, RestartRearranges, NothingRearranged
<1>16. Rearranged(l, h)
  BY <1>14, <1>15, AcceptedStay, CheckTeamChangesRearranges
<1>17. Rearranged(k, h)
  BY <1>15, <1>16, RearrangedTwice
<1> QED
  BY <1>6, <1>13, <1>17, AcceptedStay DEF With

LEMMA ConnectedConnects ==
  ASSUME NEW g, Sound(g), g.failed = "none", NEW c \in Client, g.conn[c] = "accepted",
         g.players >= maxplayers => g.bots > 0, NEW h \in Connected(g, c)
  PROVE  /\ Sound(h) /\ h.failed = "none" /\ Accepted(h) = Accepted(g) \ {c}
         /\ Humans(h) = Humans(g) + 1
         /\ h.players = (IF g.players >= maxplayers THEN g.players ELSE g.players + 1)
<1>1. PICK k \in (IF g.players >= maxplayers THEN RemoveBot(g) ELSE {g}) :
        h \in (IF k.failed # "none" THEN {k}
               ELSE IF k.players >= maxplayers THEN {[k EXCEPT !.failed = "maxplayers - 1"]}
               ELSE UNION {Enter(k, c, t) : t \in NewTeams(k)})
  BY DEF Connected
<1>2. /\ g.players \in Nat /\ g.bots \in Nat /\ maxplayers \in Nat
      /\ g.players <= maxplayers
  <2>1. /\ Cardinality(Used(g)) = Size(g, 0) + Size(g, 1) /\ Size(g, 0) <= TSIZE
        /\ Size(g, 1) <= TSIZE /\ Size(g, 0) \in Nat /\ Size(g, 1) \in Nat
    BY Sizes
  <2> QED
    BY <2>1, Halves DEF Sound, Games, Counts
<1>3. /\ Sound(k) /\ k.failed = "none" /\ Accepted(k) = Accepted(g) /\ k.players < maxplayers
      /\ k.players = (IF g.players >= maxplayers THEN g.players - 1 ELSE g.players)
      /\ k.bots = (IF g.players >= maxplayers THEN g.bots - 1 ELSE g.bots)
  <2>1. CASE g.players >= maxplayers
    <3>1. Without(g, k, g.bots - 1)
      BY <1>1, <2>1, RemoveBotRemoves
    <3>2. /\ Sound(k) /\ k.failed = "none" /\ Accepted(k) = Accepted(g)
          /\ k.players = g.players - 1 /\ k.bots = g.bots - 1
      BY <3>1 DEF Without
    <3> QED
      BY <1>2, <2>1, <3>2
  <2>2. CASE ~(g.players >= maxplayers)
    <3>1. k = g
      BY <1>1, <2>2
    <3> QED
      BY <1>2, <2>2, <3>1
  <2> QED
    BY <2>1, <2>2
<1>4. k.conn[c] = "accepted"
  BY <1>3 DEF Accepted
<1>5. PICK t \in NewTeams(k) : h \in Enter(k, c, t)
  <2>1. k.failed = "none" /\ ~(k.players >= maxplayers)
    <3>1. k.players \in Nat
      BY <1>3 DEF Sound, Games
    <3> QED
      BY <1>2, <1>3, <3>1
  <2>2. h \in UNION {Enter(k, c, u) : u \in NewTeams(k)}
    BY <1>1, <2>1, Zenon
  <2> QED
    BY <2>2, Zenon
<1>6. t \in {0, 1} /\ Size(k, t) < TSIZE
  <2>1. t \in {0, 1} /\ Size(k, t) <= Size(k, 1 - t)
    BY <1>5, NewTeamsAreSmaller
  <2>2. /\ Size(k, 0) + Size(k, 1) = k.players /\ Size(k, 0) \in Nat /\ Size(k, 1) \in Nat
    BY <1>3, Sizes DEF Sound, Counts
  <2>3. CASE t = 0
    BY <1>2, <1>3, <2>1, <2>2, <2>3, Halves
  <2>4. CASE t = 1
    BY <1>2, <1>3, <2>1, <2>2, <2>4, Halves
  <2> QED
    BY <2>1, <2>3, <2>4
<1>7. With(k, h, c)
  BY <1>3, <1>4, <1>5, <1>6, EnterEnters
<1>8. /\ Sound(h) /\ h.failed = "none" /\ Accepted(h) = Accepted(g) \ {c}
      /\ h.players = k.players + 1 /\ h.bots = k.bots
  BY <1>3, <1>7 DEF With
<1> QED
  BY <1>2, <1>3, <1>8 DEF Humans

(* g becomes h when n bots have gone.                                             *)
Fewer(g, h, n) ==
  /\ Sound(h) /\ h.failed = g.failed /\ Accepted(h) = Accepted(g)
  /\ h.players = g.players - n /\ h.bots = g.bots - n

Removed(g, seq) == InOrder(LAMBDA h, k : RemoveBot(h), g, seq)

(* remove_bot several times, while there are bots.                                *)
LEMMA RemovalsRemove ==
  ASSUME NEW g, Sound(g), NEW seq, DOMAIN seq \in SUBSET Nat, IsFiniteSet(DOMAIN seq),
         Cardinality(DOMAIN seq) <= g.bots, NEW h \in Removed(g, seq)
  PROVE  Fewer(g, h, Cardinality(DOMAIN seq))
<1> DEFINE D == DOMAIN seq
           A == {k \in Games : Sound(k)}
           After(i, v) == UNION {RemoveBot(k) : k \in v}
           F == [p \in D \X SUBSET A |-> After(p[1], p[2])]
           E(t, s) == IF s = {} THEN {g} ELSE After(Max(s), t[s \ {Max(s)}])
           iter == CHOOSE t : t = [s \in SUBSET D |-> E(t, s)]
<1>0. D \in SUBSET Nat /\ IsFiniteSet(D) /\ Cardinality(D) <= g.bots
  OBVIOUS
<1>2. g \in A
  BY DEF Sound
<1>3. PICK t : IsRun(t, F, {g}, D)
  BY <1>0, RunExists, Zenon
<1> HIDE DEF D
<1>a. \A s \in SUBSET D : s # {} => Max(s) \in D /\ s \ {Max(s)} \in SUBSET D
  <2> SUFFICES ASSUME NEW s \in SUBSET D, s # {} PROVE Max(s) \in D /\ s \ {Max(s)} \in SUBSET D
    OBVIOUS
  <2>1. s \in SUBSET Nat /\ IsFiniteSet(s)
    BY <1>0, FS_Subset
  <2>2. Max(s) \in s
    BY <2>1, MaxIsIn
  <2> QED
    BY <2>2
<1> DEFINE V == [s \in SUBSET D |-> {v \in SUBSET A : \A k \in v : Fewer(g, k, Cardinality(s))}]
<1>1. ASSUME NEW s \in SUBSET D, s # {}, NEW v \in V[s \ {Max(s)}]
      PROVE  v \in SUBSET A /\ After(Max(s), v) \in V[s]
  <2>1. /\ Max(s) \in s /\ s \ {Max(s)} \in SUBSET D /\ IsFiniteSet(s) /\ Cardinality(s) \in Nat
        /\ Cardinality(s) <= Cardinality(D) /\ Cardinality(D) \in Nat
    <3>1. IsFiniteSet(s) /\ s \in SUBSET Nat /\ Cardinality(s) <= Cardinality(D)
      BY <1>0, FS_Subset
    <3> QED
      BY <1>0, <1>1, <3>1, MaxIsIn, FS_CardinalityType
  <2>2. Cardinality(s \ {Max(s)}) = Cardinality(s) - 1
    BY <2>1, FS_RemoveElement
  <2>3. v \in SUBSET A /\ \A k \in v : Fewer(g, k, Cardinality(s) - 1)
    BY <2>1, <2>2
  <2>4. ASSUME NEW k \in v, NEW l \in RemoveBot(k)
        PROVE  l \in A /\ Fewer(g, l, Cardinality(s))
    <3>1. Fewer(g, k, Cardinality(s) - 1) /\ Sound(k)
      BY <2>3
    <3>2. g.bots \in Nat /\ g.players \in Nat
      BY DEF Sound, Games
    <3>3. k.bots > 0
      BY <1>0, <2>1, <3>1, <3>2 DEF Fewer
    <3>4. Without(k, l, k.bots - 1)
      BY <3>1, <3>3, RemoveBotRemoves
    <3>5. Fewer(g, l, Cardinality(s))
      BY <2>1, <3>1, <3>2, <3>4 DEF Fewer, Without
    <3> QED
      BY <3>5 DEF Fewer, Sound
  <2>5. After(Max(s), v) \in SUBSET A /\ \A l \in After(Max(s), v) : Fewer(g, l, Cardinality(s))
    BY <2>4
  <2> HIDE DEF A, After
  <2> QED
    BY <2>3, <2>5
<1>d. {g} \in V[{}]
  <2>1. g.bots \in Nat /\ g.players \in Nat
    BY DEF Sound, Games
  <2>2. Fewer(g, g, Cardinality({}))
    BY <2>1, FS_EmptySet DEF Fewer
  <2> QED
    BY <1>2, <2>2
<1> HIDE DEF A, After
<1>4. ASSUME NEW s \in SUBSET D, s # {}, t[s \ {Max(s)}] \in SUBSET A
      PROVE  F[<<Max(s), t[s \ {Max(s)}]>>] = After(Max(s), t[s \ {Max(s)}])
  BY <1>a, <1>4
<1>b. \A s \in SUBSET D : t[s] = IF s = {} THEN {g} ELSE F[<<Max(s), t[s \ {Max(s)}]>>]
  <2> HIDE DEF F
  <2>1. \A s \in SUBSET D : t[s] = RunAt(t, F, {g}, s)
    BY <1>3, RunStep, Zenon
  <2> QED
    BY <2>1, Zenon DEF RunAt
<1> HIDE DEF V
<1>e. \A s \in SUBSET D : t[s] \in V[s]
  <2> HIDE DEF F
  <2>1. t[{}] \in V[{}]
    BY <1>b, <1>d
  <2>2. ASSUME NEW s \in SUBSET D, s # {}, t[s \ {Max(s)}] \in V[s \ {Max(s)}]
        PROVE  t[s] \in V[s]
    <3>1. t[s \ {Max(s)}] \in SUBSET A /\ After(Max(s), t[s \ {Max(s)}]) \in V[s]
      BY <1>1, <2>2
    <3>2. t[s] = After(Max(s), t[s \ {Max(s)}])
      BY <1>4, <1>b, <2>2, <3>1, Zenon
    <3> QED
      BY <3>1, <3>2
  <2> QED
    BY <1>0, <2>1, <2>2, RunStays
<1>5. \A s \in SUBSET D : t[s] \in SUBSET A
  BY <1>e DEF V
<1>6. iter = [s \in SUBSET D |-> E(iter, s)]
  <2>1. \A s \in SUBSET D : t[s] = E(t, s)
    BY <1>4, <1>5, <1>a, <1>b, Zenon
  <2>2. t = [s \in SUBSET D |-> t[s]]
    BY <1>3, Zenon DEF IsRun
  <2>3. t = [s \in SUBSET D |-> E(t, s)]
    <3> HIDE DEF E
    <3> QED
      BY <2>1, <2>2
  <2> QED
    BY <2>3, Zenon
<1>c. \A s \in SUBSET D : iter[s] = E(iter, s)
  <2> HIDE DEF iter, E
  <2> QED
    BY <1>6
<1>7. iter[D] \in V[D]
  <2> HIDE DEF iter
  <2>1. iter[{}] \in V[{}]
    BY <1>c, <1>d
  <2>2. ASSUME NEW s \in SUBSET D, s # {}, iter[s \ {Max(s)}] \in V[s \ {Max(s)}]
        PROVE  iter[s] \in V[s]
    <3>1. After(Max(s), iter[s \ {Max(s)}]) \in V[s]
      BY <1>1, <2>2
    <3>2. iter[s] = After(Max(s), iter[s \ {Max(s)}])
      BY <1>c, <2>2, Zenon
    <3> QED
      BY <3>1, <3>2
  <2>3. \A s \in SUBSET D : iter[s] \in V[s]
    BY <1>0, <2>1, <2>2, RunStays
  <2> QED
    BY <2>3
<1>8. Removed(g, seq) = iter[D]
  BY Zenon DEF InOrder, Then, FoldLeft, MapThenFoldSet, D, After, Removed
<1>9. h \in iter[D]
  BY <1>8, Zenon
<1> HIDE DEF iter
<1>10. Fewer(g, h, Cardinality(D))
  BY <1>7, <1>9 DEF V
<1> QED
  BY <1>10 DEF D

--------------------------------------------------------------------------------
(* Wishes of players, and the game thread.                                        *)

Touched(g, p, pl) == [g EXCEPT !.player = [@ EXCEPT ![p] = pl]]

LEMMA TouchedIsRearranged ==
  ASSUME NEW g, Sound(g), NEW p \in Used(g), NEW pl \in Player,
         pl.cid = g.player[p].cid, pl.is_bot = g.player[p].is_bot
  PROVE  Rearranged(g, Touched(g, p, pl)) /\ Used(Touched(g, p, pl)) = Used(g)
<1> DEFINE h == Touched(g, p, pl)
<1>1. g \in Games /\ Tables(g) /\ Counts(g) /\ p \in Pid /\ pl # None
  BY Sizes, ClientAssumption DEF Sound
<1>2. /\ h.player = [g.player EXCEPT ![p] = pl] /\ h.ctop = g.ctop /\ h.conn = g.conn
      /\ h.players = g.players /\ h.bots = g.bots /\ h.failed = g.failed /\ h \in Games
  BY <1>1 DEF Games, Touched
<1> HIDE DEF h
<1>3. h.player[p] = pl /\ \A q \in Pid \ {p} : h.player[q] = g.player[q]
  BY <1>1, <1>2 DEF Games
<1>4. \A q \in Pid : /\ h.player[q] # None <=> g.player[q] # None
                     /\ g.player[q] # None => /\ h.player[q].cid = g.player[q].cid
                                              /\ h.player[q].is_bot = g.player[q].is_bot
  BY <1>1, <1>3 DEF Used
<1>5. Used(h) = Used(g)
  BY <1>4 DEF Used
<1>6. Bots(h) = Bots(g)
  BY <1>4, <1>5 DEF Bots, Used
<1>7. Counts(h)
  BY <1>1, <1>2, <1>5, <1>6 DEF Counts
<1>8. Tables(h)
  <2>1. ASSUME NEW q \in Used(h)
        PROVE  h.ctop[h.player[q].cid] = q /\ h.conn[h.player[q].cid] = "in"
    <3>1. q \in Used(g) /\ h.player[q].cid = g.player[q].cid
      BY <1>4, <1>5 DEF Used
    <3> QED
      BY <1>1, <1>2, <3>1 DEF Tables
  <2>2. ASSUME NEW d \in Client, h.ctop[d] # -1
        PROVE  h.player[h.ctop[d]] # None /\ h.player[h.ctop[d]].cid = d
    <3>1. g.ctop[d] \in Pid /\ g.player[g.ctop[d]] # None /\ g.player[g.ctop[d]].cid = d
      BY <1>1, <1>2, <2>2 DEF Tables, Games
    <3> QED
      BY <1>2, <1>4, <3>1
  <2> QED
    BY <2>1, <2>2 DEF Tables
<1>9. Uneven(h) <= Uneven(g)
  <2>1. Size(h, 0) = Size(g, 0) /\ Size(h, 1) = Size(g, 1)
    BY <1>5 DEF Size, TeamOf
  <2>2. Uneven(h) = Uneven(g)
    BY <2>1 DEF Uneven
  <2> QED
    BY <2>2, UnevenIsNumber
<1>10. Rearranged(g, h)
  BY <1>2, <1>7, <1>8, <1>9 DEF Rearranged, Sound
<1> QED
  BY <1>5, <1>10 DEF h

LEMMA MoveBotRearranges ==
  ASSUME NEW g, Sound(g), NEW t, NEW h \in MoveBot(g, t)
  PROVE  Rearranged(g, h)
<1>1. CASE h = g
  BY <1>1, NothingRearranged
<1>2. CASE h # g
  <2>1. PICK b \in Bots(g) : h \in ChangeTeams([g EXCEPT !.player[b].want_change_teams = TRUE,
                                                       !.player[b].waits = FALSE], b)
    BY <1>2 DEF MoveBot
  <2> DEFINE pl == [g.player[b] EXCEPT !.want_change_teams = TRUE, !.waits = FALSE]
             k == [g EXCEPT !.player[b].want_change_teams = TRUE, !.player[b].waits = FALSE]
  <2>2. b \in Used(g) /\ b \in Pid /\ g.player[b] \in Player
    BY Sizes, PlayersOf DEF Sound
  <2>3. /\ pl \in Player /\ pl.cid = g.player[b].cid /\ pl.is_bot = g.player[b].is_bot
    BY <2>2 DEF Player
  <2>4. k = Touched(g, b, pl)
    BY <2>2 DEF Touched, Sound, Games, Player
  <2> HIDE DEF pl, k
  <2>5. Rearranged(g, k)
    BY <2>2, <2>3, <2>4, TouchedIsRearranged
  <2>6. Rearranged(k, h)
    BY <2>1, <2>2, <2>5, ChangeTeamsRearranges DEF Rearranged, k
  <2> QED
    BY <2>5, <2>6, RearrangedTwice
<1> QED
  BY <1>1, <1>2

Counted(g) == [g |-> g, team |-> [t \in {0, 1} |-> 0]]

(* The frame thinks of one player after the other.                                *)
LEMMA ThoughtsInOrder ==
  ASSUME NEW g, Sound(g), NEW seq, DOMAIN seq \in SUBSET Nat, IsFiniteSet(DOMAIN seq),
         \A i \in DOMAIN seq : seq[i] \in Pid,
         NEW gt \in InOrder(CountAndChange, Counted(g), seq)
  PROVE  Rearranged(g, gt.g)
<1> DEFINE D == DOMAIN seq
           A == {k \in [g : Games, team : [{0, 1} -> Int]] : Rearranged(g, k.g)}
           After(i, v) == UNION {CountAndChange(k, seq[i]) : k \in v}
           F == [p \in D \X SUBSET A |-> After(p[1], p[2])]
           E(t, s) == IF s = {} THEN {Counted(g)} ELSE After(Max(s), t[s \ {Max(s)}])
           iter == CHOOSE t : t = [s \in SUBSET D |-> E(t, s)]
<1>0. D \in SUBSET Nat /\ IsFiniteSet(D)
  OBVIOUS
<1>1. ASSUME NEW i \in D, NEW v \in SUBSET A PROVE After(i, v) \in SUBSET A
  <2> SUFFICES ASSUME NEW k \in v, NEW l \in CountAndChange(k, seq[i]) PROVE l \in A
    OBVIOUS
  <2>1. /\ k \in [g : Games, team : [{0, 1} -> Int]] /\ k \in A
        /\ Rearranged(g, k.g) /\ Sound(k.g) /\ seq[i] \in Pid
    BY DEF Rearranged
  <2> DEFINE x == seq[i]
  <2> HIDE DEF x, After, F, E, A, iter
  <2>2. CASE l = k
    BY <2>1, <2>2
  <2>3. CASE l # k
    <3>1. PICK h \in ChangeTeams(k.g, x) : l = [g |-> h, team |-> [k.team EXCEPT ![Team(x)] = @ + 1]]
      BY <2>3 DEF CountAndChange, x
    <3>2. x \in Pid /\ Team(x) \in {0, 1}
      BY <2>1, Sides DEF x
    <3>3. Rearranged(g, h) /\ h \in Games
      <4>1. Rearranged(k.g, h)
        BY <2>1, <3>2, ChangeTeamsRearranges
      <4> QED
        BY <2>1, <4>1, RearrangedTwice DEF Rearranged, Sound
    <3>4. [k.team EXCEPT ![Team(x)] = @ + 1] \in [{0, 1} -> Int]
      BY <2>1, <3>2
    <3> QED
      BY <3>1, <3>3, <3>4 DEF A
  <2> QED
    BY <2>2, <2>3
<1>2. Counted(g) \in A
  BY NothingRearranged DEF Sound, Counted
<1>3. PICK t : IsRun(t, F, {Counted(g)}, D)
  BY <1>0, RunExists, Zenon
<1> HIDE DEF D, A, After
<1>a. \A s \in SUBSET D : s # {} => Max(s) \in D /\ s \ {Max(s)} \in SUBSET D
  <2> SUFFICES ASSUME NEW s \in SUBSET D, s # {} PROVE Max(s) \in D /\ s \ {Max(s)} \in SUBSET D
    OBVIOUS
  <2>1. s \in SUBSET Nat /\ IsFiniteSet(s)
    BY <1>0, FS_Subset
  <2>2. Max(s) \in s
    BY <2>1, MaxIsIn
  <2> QED
    BY <2>2
<1>4. ASSUME NEW s \in SUBSET D, s # {}, t[s \ {Max(s)}] \in SUBSET A
      PROVE  F[<<Max(s), t[s \ {Max(s)}]>>] = After(Max(s), t[s \ {Max(s)}])
  BY <1>a, <1>4
<1>b. \A s \in SUBSET D : t[s] = IF s = {} THEN {Counted(g)} ELSE F[<<Max(s), t[s \ {Max(s)}]>>]
  <2> HIDE DEF F
  <2>1. \A s \in SUBSET D : t[s] = RunAt(t, F, {Counted(g)}, s)
    BY <1>3, RunStep, Zenon
  <2> QED
    BY <2>1, Zenon DEF RunAt
<1> DEFINE V == [s \in SUBSET D |-> SUBSET A]
<1>5. \A s \in SUBSET D : t[s] \in SUBSET A
  <2> HIDE DEF F
  <2>1. t[{}] \in V[{}]
    BY <1>2, <1>b
  <2>2. ASSUME NEW s \in SUBSET D, s # {}, t[s \ {Max(s)}] \in V[s \ {Max(s)}]
        PROVE  t[s] \in V[s]
    <3>1. Max(s) \in D /\ t[s \ {Max(s)}] \in SUBSET A
      BY <1>a, <2>2
    <3>2. t[s] = After(Max(s), t[s \ {Max(s)}])
      BY <1>4, <1>b, <2>2, <3>1, Zenon
    <3>3. t[s] \in SUBSET A
      BY <1>1, <3>1, <3>2, Zenon
    <3> QED
      BY <3>3
  <2>3. \A s \in SUBSET D : t[s] \in V[s]
    <3> HIDE DEF V
    <3> QED
      BY <1>0, <2>1, <2>2, RunStays
  <2> QED
    BY <2>3
<1>6. iter = [s \in SUBSET D |-> E(iter, s)]
  <2>1. \A s \in SUBSET D : t[s] = E(t, s)
    BY <1>4, <1>5, <1>a, <1>b, Zenon
  <2>2. t = [s \in SUBSET D |-> t[s]]
    BY <1>3, Zenon DEF IsRun
  <2>3. t = [s \in SUBSET D |-> E(t, s)]
    <3> HIDE DEF E
    <3> QED
      BY <2>1, <2>2
  <2> QED
    BY <2>3, Zenon
<1>c. \A s \in SUBSET D : iter[s] = E(iter, s)
  <2> HIDE DEF iter, E
  <2> QED
    BY <1>6
<1>7. iter[D] \in SUBSET A
  <2> HIDE DEF iter
  <2>1. iter[{}] \in V[{}]
    BY <1>2, <1>c
  <2>2. ASSUME NEW s \in SUBSET D, s # {}, iter[s \ {Max(s)}] \in V[s \ {Max(s)}]
        PROVE  iter[s] \in V[s]
    <3>1. Max(s) \in D /\ iter[s \ {Max(s)}] \in SUBSET A
      BY <1>a, <2>2
    <3>2. iter[s] = After(Max(s), iter[s \ {Max(s)}])
      BY <1>c, <2>2, Zenon
    <3>3. iter[s] \in SUBSET A
      BY <1>1, <3>1, <3>2, Zenon
    <3> QED
      BY <3>3
  <2>3. \A s \in SUBSET D : iter[s] \in V[s]
    <3> HIDE DEF V
    <3> QED
      BY <1>0, <2>1, <2>2, RunStays
  <2> QED
    BY <2>3
<1>8. InOrder(CountAndChange, Counted(g), seq) = iter[D]
  BY Zenon DEF InOrder, Then, FoldLeft, MapThenFoldSet, D, After
<1> QED
  BY <1>7, <1>8 DEF A

LEMMA ThoughtRearranges ==
  ASSUME Sound(Game), NEW h \in Thought
  PROVE  Rearranged(Game, h)
<1> DEFINE seq == [k \in 1 .. maxplayers |-> k - 1]
           Ending(gt) == CASE gt.team[0] - gt.team[1] >= 2 -> MoveBot(gt.g, 0)
                         [] gt.team[1] - gt.team[0] >= 2 -> MoveBot(gt.g, 1)
                         [] OTHER                        -> {gt.g}
<1>1. PICK gt \in InOrder(CountAndChange, Counted(Game), seq) : h \in Ending(gt)
  BY Zenon DEF Thought, Counted
<1>2. /\ DOMAIN seq \in SUBSET Nat /\ IsFiniteSet(DOMAIN seq)
      /\ \A i \in DOMAIN seq : seq[i] \in Pid
  BY Halves, FS_Interval
<1>3. h \in MoveBot(gt.g, 0) \/ h \in MoveBot(gt.g, 1) \/ h = gt.g
  <2>1. CASE gt.team[0] - gt.team[1] >= 2
    BY <1>1, <2>1
  <2> QED
    BY <1>1
<1> HIDE DEF seq
<1>4. Rearranged(Game, gt.g)
  BY <1>1, <1>2, ThoughtsInOrder
<1>5. h = gt.g \/ Rearranged(gt.g, h)
  BY <1>3, <1>4, MoveBotRearranges DEF Rearranged
<1> QED
  BY <1>4, <1>5, RearrangedTwice

--------------------------------------------------------------------------------
(* A frame looks for a bot by counts it takes while players move.  It needs them   *)
(* only when nobody has moved, and then they are right.                           *)

LEMMA SameSizes ==
  ASSUME NEW g, NEW h, Used(h) = Used(g)
  PROVE  /\ \A t : TeamOf(h, t) = TeamOf(g, t) /\ Size(h, t) = Size(g, t)
         /\ Uneven(h) = Uneven(g)
<1>1. \A t : TeamOf(h, t) = TeamOf(g, t)
  BY DEF TeamOf
<1>2. \A t : Size(h, t) = Size(g, t)
  BY <1>1 DEF Size
<1> QED
  BY <1>1, <1>2 DEF Uneven

(* Who moves to a team with two players less makes the teams more even.           *)
LEMMA MoveEvens ==
  ASSUME NEW g, Sound(g), NEW f \in Used(g), NEW t \in Pid \ Used(g),
         Team(t) # Team(f), Size(g, Team(t)) + 2 <= Size(g, Team(f))
  PROVE  Uneven(MovePlayer(g, f, t)) < Uneven(g)
<1> DEFINE h == MovePlayer(g, f, t)
<1>1. g \in Games /\ f \in Pid /\ t \in Pid /\ f # t /\ Moved(g.player[f]) # None
  BY PlayersOf DEF Sound
<1>2. h.player = [g.player EXCEPT ![f] = None, ![t] = Moved(g.player[f])]
  BY <1>1 DEF MovePlayer, Games
<1>3. /\ h.player[t] = Moved(g.player[f]) /\ h.player[f] = None
      /\ \A p \in Pid \ {f, t} : h.player[p] = g.player[p]
  BY <1>1, <1>2 DEF Games
<1> HIDE DEF h
<1>4. Used(h) = (Used(g) \ {f}) \cup {t}
  BY <1>1, <1>3 DEF Used
<1>5. Team(f) \in {0, 1} /\ Team(t) \in {0, 1}
  BY <1>1, Sides
<1>6. /\ TeamOf(h, Team(f)) = TeamOf(g, Team(f)) \ {f} /\ f \in TeamOf(g, Team(f))
      /\ TeamOf(h, Team(t)) = TeamOf(g, Team(t)) \cup {t} /\ t \notin TeamOf(g, Team(t))
  BY <1>4 DEF TeamOf
<1>7. /\ IsFiniteSet(TeamOf(g, Team(f))) /\ IsFiniteSet(TeamOf(g, Team(t)))
      /\ Size(g, Team(f)) \in Nat /\ Size(g, Team(t)) \in Nat
  BY <1>5, Sizes
<1>8. Cardinality(TeamOf(g, Team(f)) \ {f}) = Cardinality(TeamOf(g, Team(f))) - 1
  BY <1>6, <1>7, FS_RemoveElement
<1>9. Cardinality(TeamOf(g, Team(t)) \cup {t}) = Cardinality(TeamOf(g, Team(t))) + 1
  BY <1>6, <1>7, FS_AddElement
<1>10. Size(h, Team(f)) = Size(g, Team(f)) - 1 /\ Size(h, Team(t)) = Size(g, Team(t)) + 1
  BY <1>6, <1>8, <1>9, Zenon DEF Size
<1>11. CASE Team(f) = 0 /\ Team(t) = 1
  <2>1. Size(h, 0) = Size(g, 0) - 1 /\ Size(h, 1) = Size(g, 1) + 1 /\ Size(g, 1) + 2 <= Size(g, 0)
    BY <1>10, <1>11
  <2> QED
    BY <1>7, <1>11, <2>1 DEF Uneven, h
<1>12. CASE Team(f) = 1 /\ Team(t) = 0
  <2>1. Size(h, 1) = Size(g, 1) - 1 /\ Size(h, 0) = Size(g, 0) + 1 /\ Size(g, 0) + 2 <= Size(g, 1)
    BY <1>10, <1>12
  <2> QED
    BY <1>7, <1>12, <2>1 DEF Uneven, h
<1> QED
  BY <1>5, <1>11, <1>12

(* With uneven teams a change of teams evens them or is a trade.                  *)
LEMMA ChangeEvensOrTrades ==
  ASSUME NEW g, Sound(g), NEW p \in Pid, Uneven(g) >= 2, NEW h \in ChangeTeams(g, p)
  PROVE  Used(h) = Used(g) \/ Uneven(h) < Uneven(g)
<1> DEFINE other == 1 - Team(p)
           delta == Size(g, other) - Size(g, Team(p))
           free == Places(other) \ Used(g)
           trades == {i \in TeamOf(g, other) : g.player[i].want_change_teams}
           bots == Bots(g) \cap TeamOf(g, other)
<1>1. Size(g, other) \in Nat /\ Size(g, Team(p)) \in Nat
  BY OtherTeam, Sizes
<1>2. delta < 0 => delta <= -2
  <2>1. CASE Team(p) = 0
    BY <1>1, <2>1 DEF Uneven
  <2>2. CASE Team(p) = 1
    BY <1>1, <2>2 DEF Uneven
  <2> QED
    BY <2>1, <2>2, OtherTeam
<1>3. ASSUME p \in Used(g), free # {}, delta < 0
      PROVE  Uneven(MovePlayer(g, p, Min(free))) < Uneven(g)
  <2>1. free \in SUBSET Nat /\ free \subseteq Pid
    BY OtherTeam, Sides
  <2>2. Min(free) \in free
    BY <1>3, <2>1, MinIsIn
  <2>3. /\ Min(free) \in Pid \ Used(g) /\ Team(Min(free)) = other /\ other # Team(p)
    BY <2>2, OtherTeam
  <2>4. Size(g, other) + 2 <= Size(g, Team(p))
    BY <1>1, <1>2, <1>3
  <2> QED
    BY <1>3, <2>3, <2>4, MoveEvens
<1>4. ASSUME p \in Used(g), NEW q \in TeamOf(g, other)
      PROVE  Used(SwapPlayers(g, p, q)) = Used(g)
  BY <1>4, OtherTeam, SwapRearranges
<1>5. ASSUME trades # {} PROVE Min(trades) \in TeamOf(g, other)
  <2>1. trades \in SUBSET Nat
    BY Sides, Sizes DEF TeamOf
  <2> QED
    BY <1>5, <2>1, MinIsIn
<1>6. CASE h # g
  <2>1. g.player[p] # None /\ p \in Used(g)
    BY <1>6 DEF ChangeTeams, Used
  <2>2. \/ free # {} /\ delta < 0 /\ h = MovePlayer(g, p, Min(free))
        \/ trades # {} /\ h = SwapPlayers(g, p, Min(trades))
        \/ \E b \in bots : h = SwapPlayers(g, p, b)
    BY <1>1, <1>6 DEF ChangeTeams, MoveFirst
  <2>3. CASE free # {} /\ delta < 0 /\ h = MovePlayer(g, p, Min(free))
    BY <1>3, <2>1, <2>3
  <2>4. CASE trades # {} /\ h = SwapPlayers(g, p, Min(trades))
    BY <1>4, <1>5, <2>1, <2>4
  <2>5. CASE \E b \in bots : h = SwapPlayers(g, p, b)
    BY <1>4, <2>1, <2>5
  <2> QED
    BY <2>2, <2>3, <2>4, <2>5
<1> QED
  BY <1>6

(* A bot of a team with two players more leaves it.                               *)
LEMMA MoveBotEvens ==
  ASSUME NEW g, Sound(g), NEW t \in {0, 1}, Size(g, t) - Size(g, 1 - t) >= 2,
         NEW h \in MoveBot(g, t)
  PROVE  Uneven(h) < Uneven(g) \/ (h = g /\ Bots(g) \cap TeamOf(g, t) = {})
<1>1. CASE Bots(g) \cap TeamOf(g, t) = {}
  BY <1>1 DEF MoveBot
<1>2. CASE Bots(g) \cap TeamOf(g, t) # {}
  <2>0. g.bots # 0
    <3>1. Bots(g) # {} /\ IsFiniteSet(Bots(g)) /\ g.bots = Cardinality(Bots(g))
      BY <1>2, Sizes DEF Sound, Counts
    <3> QED
      BY <3>1, FS_EmptySet
  <2>1. PICK b \in Bots(g) \cap TeamOf(g, t) :
               h \in ChangeTeams([g EXCEPT !.player[b].want_change_teams = TRUE,
                                           !.player[b].waits = FALSE], b)
    BY <1>2, <2>0, Zenon DEF MoveBot
  <2> DEFINE pl == [g.player[b] EXCEPT !.want_change_teams = TRUE, !.waits = FALSE]
             k == [g EXCEPT !.player[b].want_change_teams = TRUE, !.player[b].waits = FALSE]
             free == Places(1 - t) \ Used(k)
  <2>2. b \in Used(g) /\ b \in Pid /\ g.player[b] \in Player /\ Team(b) = t
    BY <2>1, Sizes, PlayersOf DEF Sound, TeamOf
  <2>3. /\ pl \in Player /\ pl.cid = g.player[b].cid /\ pl.is_bot = g.player[b].is_bot
        /\ pl.want_change_teams /\ ~pl.waits
    BY <2>2 DEF Player
  <2>4. k = Touched(g, b, pl)
    <3> HIDE DEF free
    <3> QED
      BY <2>2 DEF Touched, Sound, Games, Player
  <2>5. k.player[b] = pl /\ pl # None
    <3>1. pl # None
      BY <2>3, ClientAssumption
    <3> HIDE DEF pl, k
    <3> QED
      BY <2>2, <2>4, <3>1 DEF Touched, Sound, Games
  <2> HIDE DEF pl, k
  <2>6. Rearranged(g, k) /\ Used(k) = Used(g)
    BY <2>2, <2>3, <2>4, TouchedIsRearranged
  <2>7. /\ Size(k, t) = Size(g, t) /\ Size(k, 1 - t) = Size(g, 1 - t) /\ Uneven(k) = Uneven(g)
        /\ Size(k, t) \in Nat /\ Size(k, 1 - t) \in Nat /\ 1 - t \in {0, 1} /\ 1 - t # t
    BY <2>6, SameSizes, Sizes
  <2>8. free # {}
    <3>1. Size(k, t) <= TSIZE
      BY Sizes
    <3>2. Size(k, 1 - t) < TSIZE
      BY <2>7, <3>1, Halves
    <3> QED
      BY <2>7, <3>2, Sizes
  <2>9. Min(free) \in free
    <3>1. free \in SUBSET Nat
      BY <2>7, Sides
    <3> QED
      BY <2>8, <3>1, MinIsIn
  <2>10. Min(free) \in Pid \ Used(k) /\ Team(Min(free)) = 1 - t
    BY <2>9 DEF Places
  <2>11. h = MovePlayer(k, b, Min(free))
    <3>1. MoveFirst(Size(k, 1 - t) - Size(k, t))
      BY <2>7 DEF MoveFirst
    <3>2. k.player[b] # None /\ k.player[b].want_change_teams /\ ~k.player[b].waits
      BY <2>3, <2>5
    <3>3. h \in ChangeTeams(k, b)
      BY <2>1 DEF k
    <3>4. Team(b) = t
      BY <2>2
    <3> QED
      BY <2>8, <3>1, <3>2, <3>3, <3>4 DEF ChangeTeams
  <2>12. Sound(k) /\ b \in Used(k) /\ Size(k, 1 - t) + 2 <= Size(k, t)
    BY <2>2, <2>6, <2>7 DEF Rearranged
  <2>13. Uneven(MovePlayer(k, b, Min(free))) < Uneven(k)
    <3> HIDE DEF free
    <3> QED
      BY <2>2, <2>7, <2>10, <2>12, MoveEvens
  <2> QED
    BY <2>7, <2>11, <2>13
<1> QED
  BY <1>1, <1>2

(* The places of s that the frame has counted, place p in its turn p + 1.         *)
Seen(g, t, s) == {p \in TeamOf(g, t) : p + 1 \in s}

(* Somebody has moved, or the teams have the places they had, and the counts are  *)
(* right.                                                                         *)
Trusted(g, gt, s) ==
  \/ Uneven(gt.g) < Uneven(g)
  \/ Used(gt.g) = Used(g) /\ \A t \in {0, 1} : gt.team[t] = Cardinality(Seen(g, t, s))

LEMMA SeenAlso ==
  ASSUME NEW g, NEW s \in SUBSET Nat, NEW p \in Pid, p + 1 \in s, NEW t \in {0, 1}
  PROVE  Cardinality(Seen(g, t, s)) =
           IF p \in TeamOf(g, t) THEN Cardinality(Seen(g, t, s \ {p + 1})) + 1
                                ELSE Cardinality(Seen(g, t, s \ {p + 1}))
<1>1. /\ TeamOf(g, t) \subseteq Pid /\ Pid \subseteq Nat /\ IsFiniteSet(TeamOf(g, t))
  BY Sizes, Sides
<1>2. IsFiniteSet(Seen(g, t, s \ {p + 1})) /\ p \notin Seen(g, t, s \ {p + 1})
  <2>1. Seen(g, t, s \ {p + 1}) \subseteq TeamOf(g, t) /\ p \notin Seen(g, t, s \ {p + 1})
    BY DEF Seen
  <2> QED
    BY <1>1, <2>1, FS_Subset
<1>3. \A q \in TeamOf(g, t) : q + 1 = p + 1 => q = p
  <2>1. p \in Nat /\ \A q \in TeamOf(g, t) : q \in Nat
    BY <1>1
  <2> QED
    BY <2>1
<1>4. CASE p \in TeamOf(g, t)
  <2>1. Seen(g, t, s) = Seen(g, t, s \ {p + 1}) \cup {p}
    BY <1>3, <1>4 DEF Seen
  <2>2. Cardinality(Seen(g, t, s \ {p + 1}) \cup {p}) = Cardinality(Seen(g, t, s \ {p + 1})) + 1
    BY <1>2, FS_AddElement
  <2> QED
    BY <1>4, <2>1, <2>2, Zenon
<1>5. CASE p \notin TeamOf(g, t)
  <2>1. Seen(g, t, s) = Seen(g, t, s \ {p + 1})
    BY <1>3, <1>5 DEF Seen
  <2> QED
    BY <1>5, <2>1, Zenon
<1> QED
  BY <1>4, <1>5

(* One turn of the loop.                                                          *)
LEMMA TurnIsTrusted ==
  ASSUME NEW g, Uneven(g) >= 2, NEW s \in SUBSET Nat, NEW p \in Pid, p + 1 \in s,
         NEW gt, gt \in [g : Games, team : [{0, 1} -> Int]], Rearranged(g, gt.g),
         Trusted(g, gt, s \ {p + 1}), NEW l \in CountAndChange(gt, p)
  PROVE  l \in [g : Games, team : [{0, 1} -> Int]] /\ Rearranged(g, l.g) /\ Trusted(g, l, s)
<1>1. Sound(gt.g) /\ Uneven(gt.g) <= Uneven(g) /\ Uneven(gt.g) \in Nat /\ Uneven(g) \in Nat
  BY UnevenIsNumber DEF Rearranged
<1>2. Team(p) \in {0, 1}
  BY Sides
<1>3. \A t \in {0, 1} : p \in TeamOf(g, t) <=> p \in Used(g) /\ t = Team(p)
  BY DEF TeamOf
<1>4. CASE gt.g.player[p] = None
  <2>1. l = gt
    BY <1>4 DEF CountAndChange
  <2>2. CASE Uneven(gt.g) < Uneven(g)
    BY <2>1, <2>2 DEF Trusted
  <2>3. CASE ~(Uneven(gt.g) < Uneven(g))
    <3>1. Used(gt.g) = Used(g) /\ \A t \in {0, 1} : gt.team[t] = Cardinality(Seen(g, t, s \ {p + 1}))
      BY <2>3 DEF Trusted
    <3>2. p \notin Used(g)
      BY <1>4, <3>1 DEF Used
    <3>3. \A t \in {0, 1} : Cardinality(Seen(g, t, s)) = Cardinality(Seen(g, t, s \ {p + 1}))
      BY <1>3, <3>2, SeenAlso
    <3> QED
      BY <2>1, <3>1, <3>3 DEF Trusted
  <2> QED
    BY <2>2, <2>3
<1>5. CASE gt.g.player[p] # None
  <2>1. PICK h \in ChangeTeams(gt.g, p) : l = [g |-> h, team |-> [gt.team EXCEPT ![Team(p)] = @ + 1]]
    BY <1>5 DEF CountAndChange
  <2>2. Rearranged(gt.g, h) /\ Rearranged(g, h) /\ h \in Games
    <3>1. Rearranged(gt.g, h)
      BY <1>1, ChangeTeamsRearranges
    <3> QED
      BY <3>1, RearrangedTwice DEF Rearranged, Sound
  <2>3. /\ l.g = h /\ l.team = [gt.team EXCEPT ![Team(p)] = @ + 1]
        /\ l \in [g : Games, team : [{0, 1} -> Int]]
    BY <1>2, <2>1, <2>2
  <2>4. Uneven(h) <= Uneven(gt.g) /\ Uneven(h) \in Nat
    BY <2>2, UnevenIsNumber DEF Rearranged
  <2>5. CASE Uneven(gt.g) < Uneven(g)
    BY <1>1, <2>2, <2>3, <2>4, <2>5 DEF Trusted
  <2>6. CASE ~(Uneven(gt.g) < Uneven(g))
    <3>1. Used(gt.g) = Used(g) /\ \A t \in {0, 1} : gt.team[t] = Cardinality(Seen(g, t, s \ {p + 1}))
      BY <2>6 DEF Trusted
    <3>2. p \in Used(g)
      BY <1>5, <3>1 DEF Used
    <3>3. Uneven(gt.g) >= 2
      BY <1>1, <2>6
    <3>4. Used(h) = Used(gt.g) \/ Uneven(h) < Uneven(gt.g)
      BY <1>1, <3>3, ChangeEvensOrTrades
    <3>5. CASE Uneven(h) < Uneven(gt.g)
      <4>1. Uneven(h) < Uneven(g)
        BY <1>1, <2>4, <3>5
      <4> QED
        BY <2>2, <2>3, <4>1 DEF Trusted
    <3>6. CASE Used(h) = Used(gt.g)
      <4>1. \A t \in {0, 1} : l.team[t] = IF t = Team(p) THEN gt.team[t] + 1 ELSE gt.team[t]
        BY <1>2, <2>3
      <4>2. \A t \in {0, 1} : l.team[t] = Cardinality(Seen(g, t, s))
        BY <1>3, <3>1, <3>2, <4>1, SeenAlso
      <4> QED
        BY <2>2, <2>3, <3>1, <3>6, <4>2 DEF Trusted
    <3> QED
      BY <3>4, <3>5, <3>6
  <2> QED
    BY <2>5, <2>6
<1> QED
  BY <1>4, <1>5

(* The whole loop.                                                                *)
LEMMA ThoughtsAreTrusted ==
  ASSUME NEW g, Sound(g), Uneven(g) >= 2,
         NEW gt \in InOrder(CountAndChange, Counted(g), [k \in 1 .. maxplayers |-> k - 1])
  PROVE  Rearranged(g, gt.g) /\ Trusted(g, gt, 1 .. maxplayers)
<1> DEFINE seq == [k \in 1 .. maxplayers |-> k - 1]
           D == DOMAIN seq
           A(s) == {k \in [g : Games, team : [{0, 1} -> Int]] :
                      Rearranged(g, k.g) /\ Trusted(g, k, s)}
           All == [g : Games, team : [{0, 1} -> Int]]
           After(i, v) == UNION {CountAndChange(k, seq[i]) : k \in v}
           F == [p \in D \X SUBSET All |-> After(p[1], p[2])]
           E(t, s) == IF s = {} THEN {Counted(g)} ELSE After(Max(s), t[s \ {Max(s)}])
           iter == CHOOSE t : t = [s \in SUBSET D |-> E(t, s)]
<1>0. /\ D = 1 .. maxplayers /\ D \in SUBSET Nat /\ IsFiniteSet(D)
      /\ \A i \in D : seq[i] \in Pid /\ seq[i] + 1 = i
  BY Halves, FS_Interval
<1>1. ASSUME NEW s \in SUBSET D, NEW i \in s, NEW v \in SUBSET A(s \ {i})
      PROVE  After(i, v) \in SUBSET A(s)
  <2> SUFFICES ASSUME NEW k \in v, NEW l \in CountAndChange(k, seq[i]) PROVE l \in A(s)
    OBVIOUS
  <2> DEFINE x == seq[i]
  <2>1. /\ k \in All /\ Rearranged(g, k.g) /\ Trusted(g, k, s \ {i})
        /\ x \in Pid /\ x + 1 = i /\ s \in SUBSET Nat
    BY <1>0
  <2>2. l \in CountAndChange(k, x)
    OBVIOUS
  <2> HIDE DEF x
  <2>3. x + 1 \in s /\ Trusted(g, k, s \ {x + 1})
    BY <2>1
  <2>4. l \in All /\ Rearranged(g, l.g) /\ Trusted(g, l, s)
    BY <2>1, <2>2, <2>3, TurnIsTrusted
  <2> QED
    BY <2>4
<1>2. Counted(g) \in A({})
  <2>1. \A t \in {0, 1} : Cardinality(Seen(g, t, {})) = 0
    BY FS_EmptySet DEF Seen
  <2> QED
    BY <2>1, NothingRearranged DEF Sound, Counted, Trusted
<1>d. ASSUME NEW s, NEW v, v \in SUBSET A(s) PROVE v \in SUBSET All
  <2>1. A(s) \subseteq All
    OBVIOUS
  <2> HIDE DEF A, All
  <2> QED
    BY <1>d, <2>1
<1>3. PICK t : IsRun(t, F, {Counted(g)}, D)
  BY <1>0, RunExists, Zenon
<1> HIDE DEF seq, D, A, All, After
<1>a. \A s \in SUBSET D : s # {} => Max(s) \in s /\ Max(s) \in D /\ s \ {Max(s)} \in SUBSET D
  <2> SUFFICES ASSUME NEW s \in SUBSET D, s # {}
               PROVE  Max(s) \in s /\ Max(s) \in D /\ s \ {Max(s)} \in SUBSET D
    OBVIOUS
  <2>1. s \in SUBSET Nat /\ IsFiniteSet(s)
    BY <1>0, FS_Subset
  <2>2. Max(s) \in s
    BY <2>1, MaxIsIn
  <2> QED
    BY <2>2
<1>4. ASSUME NEW s \in SUBSET D, s # {}, t[s \ {Max(s)}] \in SUBSET All
      PROVE  F[<<Max(s), t[s \ {Max(s)}]>>] = After(Max(s), t[s \ {Max(s)}])
  BY <1>a, <1>4
<1>b. \A s \in SUBSET D : t[s] = IF s = {} THEN {Counted(g)} ELSE F[<<Max(s), t[s \ {Max(s)}]>>]
  <2> HIDE DEF F
  <2>1. \A s \in SUBSET D : t[s] = RunAt(t, F, {Counted(g)}, s)
    BY <1>3, RunStep, Zenon
  <2> QED
    BY <2>1, Zenon DEF RunAt
<1> DEFINE V == [s \in SUBSET D |-> SUBSET A(s)]
<1>5. \A s \in SUBSET D : t[s] \in SUBSET A(s)
  <2> HIDE DEF F
  <2>1. t[{}] \in V[{}]
    BY <1>2, <1>b
  <2>2. ASSUME NEW s \in SUBSET D, s # {}, t[s \ {Max(s)}] \in V[s \ {Max(s)}]
        PROVE  t[s] \in V[s]
    <3>1. Max(s) \in s /\ t[s \ {Max(s)}] \in SUBSET A(s \ {Max(s)})
      BY <1>a, <2>2
    <3>2. t[s] = After(Max(s), t[s \ {Max(s)}])
      <4>1. t[s \ {Max(s)}] \in SUBSET All
        <5> DEFINE v == t[s \ {Max(s)}]
                   w == s \ {Max(s)}
        <5>1. v \in SUBSET A(w)
          BY <3>1, Zenon
        <5> HIDE DEF v, w
        <5>2. v \in SUBSET All
          BY <5>1, <1>d
        <5> QED
          BY <5>2, Zenon DEF v
      <4>2. F[<<Max(s), t[s \ {Max(s)}]>>] = After(Max(s), t[s \ {Max(s)}])
        BY <1>4, <2>2, <4>1, Zenon
      <4>3. t[s] = F[<<Max(s), t[s \ {Max(s)}]>>]
        BY <1>b, <2>2, Zenon
      <4> QED
        BY <4>2, <4>3, Zenon
    <3>3. t[s] \in SUBSET A(s)
      BY <1>1, <2>2, <3>1, <3>2, Zenon
    <3> QED
      BY <3>3
  <2>3. \A s \in SUBSET D : t[s] \in V[s]
    <3> HIDE DEF V
    <3> QED
      BY <1>0, <2>1, <2>2, RunStays
  <2> QED
    BY <2>3
<1>6. iter = [s \in SUBSET D |-> E(iter, s)]
  <2>1. \A s \in SUBSET D : t[s] = E(t, s)
    <3> SUFFICES ASSUME NEW s \in SUBSET D PROVE t[s] = E(t, s)
      OBVIOUS
    <3>1. CASE s = {}
      BY <1>b, <3>1, Zenon
    <3>2. CASE s # {}
      <4>1. s \ {Max(s)} \in SUBSET D
        BY <1>a, <3>2
      <4>2. t[s \ {Max(s)}] \in SUBSET All
        <5> DEFINE v == t[s \ {Max(s)}]
                   w == s \ {Max(s)}
        <5>1. v \in SUBSET A(w)
          BY <1>5, <4>1, Zenon
        <5> HIDE DEF v, w
        <5>2. v \in SUBSET All
          BY <5>1, <1>d
        <5> QED
          BY <5>2, Zenon DEF v
      <4>3. F[<<Max(s), t[s \ {Max(s)}]>>] = After(Max(s), t[s \ {Max(s)}])
        BY <1>4, <3>2, <4>2, Zenon
      <4>4. t[s] = F[<<Max(s), t[s \ {Max(s)}]>>]
        BY <1>b, <3>2, Zenon
      <4> QED
        BY <3>2, <4>3, <4>4, Zenon
    <3> QED
      BY <3>1, <3>2
  <2>2. t = [s \in SUBSET D |-> t[s]]
    BY <1>3, Zenon DEF IsRun
  <2>3. t = [s \in SUBSET D |-> E(t, s)]
    <3> HIDE DEF E
    <3> QED
      BY <2>1, <2>2
  <2> QED
    BY <2>3, Zenon
<1>c. \A s \in SUBSET D : iter[s] = E(iter, s)
  <2> HIDE DEF iter, E
  <2> QED
    BY <1>6
<1>7. iter[D] \in SUBSET A(D)
  <2> HIDE DEF iter
  <2>1. iter[{}] \in V[{}]
    BY <1>2, <1>c
  <2>2. ASSUME NEW s \in SUBSET D, s # {}, iter[s \ {Max(s)}] \in V[s \ {Max(s)}]
        PROVE  iter[s] \in V[s]
    <3>1. Max(s) \in s /\ iter[s \ {Max(s)}] \in SUBSET A(s \ {Max(s)})
      BY <1>a, <2>2
    <3>2. iter[s] = After(Max(s), iter[s \ {Max(s)}])
      BY <1>c, <2>2, Zenon
    <3>3. iter[s] \in SUBSET A(s)
      BY <1>1, <2>2, <3>1, <3>2, Zenon
    <3> QED
      BY <3>3
  <2>3. \A s \in SUBSET D : iter[s] \in V[s]
    <3> HIDE DEF V
    <3> QED
      BY <1>0, <2>1, <2>2, RunStays
  <2> QED
    BY <2>3
<1>8. InOrder(CountAndChange, Counted(g), seq) = iter[D]
  BY Zenon DEF InOrder, Then, FoldLeft, MapThenFoldSet, D, After
<1>9. gt \in A(D)
  BY <1>7, <1>8 DEF seq
<1> QED
  BY <1>0, <1>9 DEF A

LEMMA ThoughtEvens ==
  ASSUME Sound(Game), NEW h \in Thought, NEW t \in {0, 1}, Size(h, t) - Size(h, 1 - t) >= 2
  PROVE  Bots(h) \cap TeamOf(h, t) = {} \/ Uneven(h) < Uneven(Game)
<1> DEFINE Ending(gt) == CASE gt.team[0] - gt.team[1] >= 2 -> MoveBot(gt.g, 0)
                         [] gt.team[1] - gt.team[0] >= 2 -> MoveBot(gt.g, 1)
                         [] OTHER                        -> {gt.g}
<1>1. PICK gt \in InOrder(CountAndChange, Counted(Game), [k \in 1 .. maxplayers |-> k - 1]) :
             h \in Ending(gt)
  BY Zenon DEF Thought, Counted
<1> SUFFICES ASSUME ~(Uneven(h) < Uneven(Game)) PROVE Bots(h) \cap TeamOf(h, t) = {}
  OBVIOUS
<1>2. /\ Uneven(h) \in Nat /\ Uneven(gt.g) \in Nat /\ Uneven(Game) \in Nat
      /\ Size(h, 0) \in Nat /\ Size(h, 1) \in Nat
  BY UnevenIsNumber, Sizes
<1>3. Uneven(h) >= 2
  <2>1. CASE t = 0
    BY <1>2, <2>1 DEF Uneven
  <2>2. CASE t = 1
    BY <1>2, <2>2 DEF Uneven
  <2> QED
    BY <2>1, <2>2
<1>4. Uneven(Game) >= 2
  <2>1. Uneven(h) <= Uneven(Game)
    BY ThoughtRearranges DEF Rearranged
  <2> QED
    BY <1>2, <1>3, <2>1
<1>5. Rearranged(Game, gt.g) /\ Trusted(Game, gt, 1 .. maxplayers)
  BY <1>1, <1>4, ThoughtsAreTrusted
<1>6. Sound(gt.g) /\ Uneven(gt.g) <= Uneven(Game)
  BY <1>5 DEF Rearranged
<1>7. h \in MoveBot(gt.g, 0) \/ h \in MoveBot(gt.g, 1) \/ h = gt.g
  <2>1. CASE gt.team[0] - gt.team[1] >= 2
    BY <1>1, <2>1
  <2> QED
    BY <1>1
<1>8. Uneven(h) <= Uneven(gt.g)
  <2>1. h = gt.g \/ Rearranged(gt.g, h)
    BY <1>6, <1>7, MoveBotRearranges
  <2> QED
    BY <1>2, <2>1 DEF Rearranged
<1>9. ~(Uneven(gt.g) < Uneven(Game)) /\ ~(Uneven(h) < Uneven(gt.g))
  BY <1>2, <1>6, <1>8
<1>10. \A u \in {0, 1} : gt.team[u] = Size(gt.g, u) /\ Size(gt.g, u) \in Nat
  <2>1. /\ Used(gt.g) = Used(Game)
        /\ \A u \in {0, 1} : gt.team[u] = Cardinality(Seen(Game, u, 1 .. maxplayers))
    BY <1>5, <1>9 DEF Trusted
  <2>2. \A u \in {0, 1} : Seen(Game, u, 1 .. maxplayers) = TeamOf(Game, u)
    <3>1. \A p \in Pid : p + 1 \in 1 .. maxplayers
      BY Halves
    <3>2. \A u \in {0, 1} : TeamOf(Game, u) \subseteq Pid
      BY DEF TeamOf, Used
    <3> QED
      BY <3>1, <3>2 DEF Seen
  <2>3. \A u \in {0, 1} : gt.team[u] = Size(Game, u)
    BY <2>1, <2>2 DEF Size
  <2> QED
    BY <2>1, <2>3, SameSizes, Sizes
<1>11. PICK u \in {0, 1} : Size(gt.g, u) - Size(gt.g, 1 - u) >= 2 /\ h \in MoveBot(gt.g, u)
  <2>1. Uneven(gt.g) >= 2
    BY <1>2, <1>4, <1>9
  <2>2. gt.team[0] = Size(gt.g, 0) /\ gt.team[1] = Size(gt.g, 1)
    BY <1>10
  <2>3. Size(gt.g, 0) \in Nat /\ Size(gt.g, 1) \in Nat
    BY <1>10
  <2>4. CASE Size(gt.g, 0) - Size(gt.g, 1) >= 2
    <3>1. gt.team[0] - gt.team[1] >= 2 /\ ~(gt.team[1] - gt.team[0] >= 2)
      BY <2>2, <2>3, <2>4
    <3>2. h \in MoveBot(gt.g, 0)
      BY <1>1, <3>1
    <3> QED
      BY <2>4, <3>2
  <2>5. CASE Size(gt.g, 1) - Size(gt.g, 0) >= 2
    <3>1. ~(gt.team[0] - gt.team[1] >= 2) /\ gt.team[1] - gt.team[0] >= 2
      BY <2>2, <2>3, <2>5
    <3>2. h \in MoveBot(gt.g, 1)
      BY <1>1, <3>1
    <3> QED
      BY <2>5, <3>2
  <2> QED
    BY <2>1, <2>3, <2>4, <2>5 DEF Uneven
<1>12. h = gt.g /\ Bots(gt.g) \cap TeamOf(gt.g, u) = {}
  BY <1>6, <1>9, <1>11, MoveBotEvens
<1>13. t = u
  <2>1. Size(gt.g, 0) \in Nat /\ Size(gt.g, 1) \in Nat
    BY <1>10
  <2>2. CASE t = 0 /\ u = 1
    BY <1>11, <1>12, <2>1, <2>2
  <2>3. CASE t = 1 /\ u = 0
    BY <1>11, <1>12, <2>1, <2>3
  <2> QED
    BY <2>2, <2>3
<1> QED
  BY <1>12, <1>13

--------------------------------------------------------------------------------
(* The inductive invariant.                                                       *)

LEMMA StageChanges ==
  ASSUME NEW g, Sound(g), NEW conn2 \in [Client -> Stage],
         \A c \in Client : g.conn[c] = "in" => conn2[c] = "in"
  PROVE  Sound([g EXCEPT !.conn = conn2])
<1> DEFINE h == [g EXCEPT !.conn = conn2]
<1>1. g \in Games /\ Tables(g) /\ Counts(g)
  BY DEF Sound
<1>2. /\ h.player = g.player /\ h.ctop = g.ctop /\ h.conn = conn2
      /\ h.players = g.players /\ h.bots = g.bots /\ h \in Games
  BY <1>1 DEF Games
<1> HIDE DEF h
<1>3. Used(h) = Used(g) /\ Bots(h) = Bots(g)
  BY <1>2 DEF Used, Bots
<1>4. Counts(h)
  BY <1>1, <1>2, <1>3 DEF Counts
<1>5. \A p \in Used(g) : g.player[p].cid \in Client
  BY <1>1, PlayersOf
<1>6. Tables(h)
  BY <1>1, <1>2, <1>3, <1>5 DEF Tables
<1> QED
  BY <1>2, <1>4, <1>6 DEF Sound, h

LEMMA GameOf ==
  ASSUME NEW g, g \in Games, player' = g.player, ctop' = g.ctop, conn' = g.conn,
         player_count' = g.players, bot_count' = g.bots, failed' = g.failed
  PROVE  Game' = g
BY DEF Game, Games

LEMMA BecomesOne ==
  ASSUME NEW games, games \in SUBSET Games, Becomes(games)
  PROVE  Game' \in games
BY GameOf DEF Becomes

LEMMA GameIsSound ==
  ASSUME IInv
  PROVE  /\ Sound(Game) /\ Game \in Games
         /\ Game.player = player /\ Game.ctop = ctop /\ Game.conn = conn
         /\ Game.players = player_count /\ Game.bots = bot_count /\ Game.failed = failed
         /\ reservedPlayerSlots \in Nat /\ recent \in BOOLEAN /\ check_bots \in BOOLEAN
         /\ Reserves(Game, reservedPlayerSlots, recent)
         /\ player_count \in Nat /\ bot_count \in Nat /\ bot_count <= player_count
         /\ maxplayers \in Nat
<1>1. Sound(Game) /\ Game \in Games /\ Reserves(Game, reservedPlayerSlots, recent)
  BY DEF IInv, TypeOK, Sound, ReservationsInv
<1>2. /\ Game.player = player /\ Game.ctop = ctop /\ Game.conn = conn
      /\ Game.players = player_count /\ Game.bots = bot_count /\ Game.failed = failed
  BY DEF Game
<1>3. player_count \in Nat /\ bot_count \in Nat
  BY <1>1, <1>2 DEF Games
<1>4. Cardinality(Bots(Game)) <= Cardinality(Used(Game))
  BY Sizes
<1>5. bot_count <= player_count
  BY <1>1, <1>2, <1>4 DEF Sound, Counts
<1> QED
  BY <1>1, <1>2, <1>3, <1>5, Halves DEF IInv, TypeOK

(* What a step keeps.                                                             *)
Kept ==
  IInv' /\ (player_count' = player_count => Uneven(Game') <= Uneven(Game))

LEMMA KeptBy ==
  ASSUME Sound(Game'), Reserves(Game', reservedPlayerSlots', recent'),
         reservedPlayerSlots' \in Nat, recent' \in BOOLEAN, check_bots' \in BOOLEAN,
         player_count' = player_count => Uneven(Game') <= Uneven(Game)
  PROVE  Kept
<1>1. TypeOK'
  BY DEF TypeOK, Sound
<1>2. Tables(Game)' /\ Counts(Game)'
  BY DEF Sound, Tables, Counts, Used, Bots
<1>3. ReservationsInv'
  BY DEF ReservationsInv, Reserves, Accepted, Humans
<1> QED
  BY <1>1, <1>2, <1>3 DEF Kept, IInv

(* A step that only rearranges the players.                                       *)
LEMMA KeptByRearranging ==
  ASSUME IInv, Rearranged(Game, Game'),
         UNCHANGED <<reservedPlayerSlots, recent>>, check_bots' \in BOOLEAN
  PROVE  Kept
<1>1. Sound(Game') /\ Accepted(Game') = Accepted(Game) /\ Humans(Game') = Humans(Game)
  BY DEF Rearranged, Accepted, Humans
<1>2. Reserves(Game', reservedPlayerSlots', recent')
  BY <1>1, GameIsSound DEF Reserves
<1>3. Uneven(Game') <= Uneven(Game)
  BY DEF Rearranged
<1> QED
  BY <1>1, <1>2, <1>3, GameIsSound, KeptBy

(* A step that changes only how far the clients have come.                        *)
LEMMA KeptByStages ==
  ASSUME IInv, NEW conn2 \in [Client -> Stage], conn' = conn2,
         \A c \in Client : conn[c] = "in" => conn2[c] = "in",
         UNCHANGED <<player, ctop, player_count, bot_count, failed>>,
         Reserves([Game EXCEPT !.conn = conn2], reservedPlayerSlots', recent'),
         reservedPlayerSlots' \in Nat, recent' \in BOOLEAN, check_bots' \in BOOLEAN
  PROVE  Kept
<1> DEFINE h == [Game EXCEPT !.conn = conn2]
<1>1. Sound(h)
  BY GameIsSound, StageChanges
<1>2. Game' = h
  BY DEF Game
<1>3. Uneven(h) <= Uneven(Game)
  <2>1. h.player = Game.player
    BY DEF Game
  <2>2. Uneven(h) = Uneven(Game)
    BY <2>1 DEF Uneven, Size, TeamOf, Used
  <2> QED
    BY <2>2, UnevenIsNumber
<1> HIDE DEF h
<1>4. Reserves(h, reservedPlayerSlots', recent')
  BY DEF h
<1> QED
  BY <1>1, <1>2, <1>3, <1>4, KeptBy

LEMMA HelloKeeps ==
  ASSUME IInv, NEW c \in Client, conn[c] # "in", Hello(c)
  PROVE  Kept
<1> DEFINE conn2 == [conn EXCEPT ![c] = "accepted"]
           h == [Game EXCEPT !.conn = conn2]
<1>1. conn \in [Client -> Stage]
  BY GameIsSound DEF Games
<1>2. conn2 \in [Client -> Stage] /\ \A d \in Client : conn[d] = "in" => conn2[d] = "in"
  BY <1>1 DEF Stage, Hello
<1>3. /\ h.players = player_count /\ h.bots = bot_count /\ h.conn = conn2
      /\ Game.players = player_count /\ Game.bots = bot_count /\ Game.conn = conn
  BY DEF Game
<1> HIDE DEF h
<1>4. Accepted(h) = Accepted(Game) \cup {c}
  BY <1>1, <1>3 DEF Accepted
<1>5. IsFiniteSet(Accepted(h)) /\ Cardinality(Accepted(h)) <= Reserved + 1
  <2>1. /\ IsFiniteSet(Accepted(Game)) /\ Cardinality(Accepted(Game)) <= reservedPlayerSlots
        /\ Accepted(Game) # {} => recent
    BY GameIsSound DEF Reserves
  <2>2. Cardinality(Accepted(Game)) <= Reserved
    BY <2>1, GameIsSound, FS_EmptySet DEF Reserved
  <2>3. /\ IsFiniteSet(Accepted(Game) \cup {c}) /\ Cardinality(Accepted(Game)) \in Nat
        /\ Cardinality(Accepted(Game) \cup {c}) <= Cardinality(Accepted(Game)) + 1
    <3> DEFINE a == Accepted(Game)
    <3>1. IsFiniteSet(a) /\ Cardinality(a) \in Nat
      BY <2>1, FS_CardinalityType
    <3> HIDE DEF a
    <3>2. CASE c \in a
      <4>1. a \cup {c} = a
        BY <3>2
      <4>a. Cardinality(a) <= Cardinality(a) + 1
        BY <3>1
      <4>2. /\ IsFiniteSet(a \cup {c}) /\ Cardinality(a) \in Nat
            /\ Cardinality(a \cup {c}) <= Cardinality(a) + 1
        BY <3>1, <4>1, <4>a, Zenon
      <4> QED
        BY <4>2 DEF a
    <3>3. CASE c \notin a
      <4>1. /\ IsFiniteSet(a \cup {c}) /\ Cardinality(a) \in Nat
            /\ Cardinality(a \cup {c}) = Cardinality(a) + 1
        BY <3>1, <3>3, FS_AddElement
      <4>2. Cardinality(a \cup {c}) <= Cardinality(a) + 1
        BY <4>1
      <4> QED
        BY <4>1, <4>2 DEF a
    <3> QED
      BY <3>2, <3>3
  <2>4. Reserved \in Nat
    BY GameIsSound DEF Reserved
  <2>5. Cardinality(Accepted(Game) \cup {c}) \in Nat
    BY <2>3, FS_CardinalityType
  <2> QED
    BY <1>4, <2>2, <2>3, <2>4, <2>5
<1>6. Humans(h) + (Reserved + 1) <= maxplayers /\ Reserved + 1 \in Nat
  BY <1>3, GameIsSound DEF Hello, HasPlace, Reserved, Humans
<1>7. Reserves(h, Reserved + 1, TRUE)
  BY <1>5, <1>6 DEF Reserves
<1>8. /\ conn' = conn2 /\ reservedPlayerSlots' = Reserved + 1 /\ recent' = TRUE
      /\ UNCHANGED <<player, ctop, player_count, bot_count, check_bots, failed>>
  BY DEF Hello
<1> HIDE DEF conn2
<1>9. Reserves([Game EXCEPT !.conn = conn2], reservedPlayerSlots', recent')
  BY <1>7, <1>8 DEF h
<1> QED
  BY <1>2, <1>6, <1>8, <1>9, GameIsSound, KeptByStages

(* The clients that are accepted may become fewer.                                *)
LEMMA KeptByFewerAccepted ==
  ASSUME IInv, NEW conn2 \in [Client -> Stage], conn' = conn2,
         \A c \in Client : /\ conn[c] = "in" => conn2[c] = "in"
                           /\ conn2[c] = "accepted" => conn[c] = "accepted",
         UNCHANGED <<player, ctop, player_count, bot_count, failed>>,
         UNCHANGED <<reservedPlayerSlots, recent>>, check_bots' \in BOOLEAN
  PROVE  Kept
<1> DEFINE h == [Game EXCEPT !.conn = conn2]
<1>1. /\ h.players = player_count /\ h.bots = bot_count /\ h.conn = conn2
      /\ Game.players = player_count /\ Game.bots = bot_count /\ Game.conn = conn
  BY DEF Game
<1> HIDE DEF h
<1>2. Accepted(h) \subseteq Accepted(Game) /\ Humans(h) = Humans(Game)
  BY <1>1 DEF Accepted, Humans
<1>3. Reserves(Game, reservedPlayerSlots, recent) /\ reservedPlayerSlots \in Nat
  BY GameIsSound
<1>4. /\ IsFiniteSet(Accepted(h)) /\ Cardinality(Accepted(h)) <= Cardinality(Accepted(Game))
      /\ Cardinality(Accepted(h)) \in Nat /\ Cardinality(Accepted(Game)) \in Nat
  BY <1>2, <1>3, FS_Subset, FS_CardinalityType DEF Reserves
<1>5. Reserves(h, reservedPlayerSlots, recent)
  BY <1>2, <1>3, <1>4 DEF Reserves
<1>6. Reserves([Game EXCEPT !.conn = conn2], reservedPlayerSlots', recent')
  BY <1>5 DEF h
<1> QED
  BY <1>6, GameIsSound, KeptByStages

LEMMA HandshakeFailsKeeps ==
  ASSUME IInv, NEW c \in Client, HandshakeFails(c)
  PROVE  Kept
<1> DEFINE conn2 == [conn EXCEPT ![c] = "out"]
<1>1. conn \in [Client -> Stage]
  BY GameIsSound DEF Games
<1>2. /\ conn2 \in [Client -> Stage]
      /\ \A d \in Client : /\ conn[d] = "in" => conn2[d] = "in"
                           /\ conn2[d] = "accepted" => conn[d] = "accepted"
  BY <1>1 DEF Stage, HandshakeFails
<1>3. conn' = conn2
  BY DEF HandshakeFails
<1> HIDE DEF conn2
<1> QED
  BY <1>2, <1>3, GameIsSound, KeptByFewerAccepted DEF HandshakeFails

LEMMA BotEndsKeeps ==
  ASSUME IInv, NEW b \in Bot, BotEnds(b)
  PROVE  Kept
<1> DEFINE conn2 == [conn EXCEPT ![b] = "out"]
<1>1. conn \in [Client -> Stage] /\ b \in Client
  BY GameIsSound DEF Games, Client
<1>2. /\ conn2 \in [Client -> Stage]
      /\ \A d \in Client : /\ conn[d] = "in" => conn2[d] = "in"
                           /\ conn2[d] = "accepted" => conn[d] = "accepted"
  BY <1>1 DEF Stage, BotEnds
<1>3. conn' = conn2
  BY DEF BotEnds
<1> HIDE DEF conn2
<1> QED
  BY <1>2, <1>3, KeptByFewerAccepted DEF BotEnds

LEMMA ReservationAgesKeeps ==
  ASSUME IInv, ReservationAges
  PROVE  Kept
<1>1. Game' = Game
  BY DEF Game, ReservationAges
<1>2. Accepted(Game) = {}
  BY DEF Accepted, Game, ReservationAges
<1>3. Reserves(Game', reservedPlayerSlots', recent')
  BY <1>1, <1>2, GameIsSound DEF Reserves, ReservationAges
<1>4. Uneven(Game') <= Uneven(Game)
  BY <1>1, UnevenIsNumber
<1>5. /\ reservedPlayerSlots' \in Nat /\ recent' \in BOOLEAN /\ check_bots' \in BOOLEAN
  BY GameIsSound DEF ReservationAges
<1> QED
  BY <1>1, <1>3, <1>4, <1>5, GameIsSound, KeptBy

LEMMA ClientConnectedKeeps ==
  ASSUME IInv, failed = "none", NEW c \in Client, ClientConnected(c)
  PROVE  Kept
<1>1. c \in Accepted(Game)
  BY DEF Accepted, Game, ClientConnected
<1>2. /\ IsFiniteSet(Accepted(Game)) /\ Cardinality(Accepted(Game)) \in Nat \ {0}
      /\ Cardinality(Accepted(Game)) <= reservedPlayerSlots
      /\ Cardinality(Accepted(Game) \ {c}) = Cardinality(Accepted(Game)) - 1
      /\ IsFiniteSet(Accepted(Game) \ {c})
      /\ recent /\ Humans(Game) + reservedPlayerSlots <= maxplayers
  <2>1. /\ IsFiniteSet(Accepted(Game)) /\ Cardinality(Accepted(Game)) <= reservedPlayerSlots
        /\ recent /\ Humans(Game) + reservedPlayerSlots <= maxplayers
    BY <1>1, GameIsSound DEF Reserves
  <2> QED
    BY <1>1, <2>1, FS_EmptySet, FS_CardinalityType, FS_RemoveElement
<1>3. Humans(Game) = player_count - bot_count
  BY DEF Humans, Game
<1>4. Game.players >= maxplayers => Game.bots > 0
  BY <1>2, <1>3, GameIsSound
<1>5. \A h \in Connected(Game, c) :
        /\ Sound(h) /\ h.failed = "none" /\ Accepted(h) = Accepted(Game) \ {c}
        /\ Humans(h) = Humans(Game) + 1
        /\ h.players = (IF Game.players >= maxplayers THEN Game.players ELSE Game.players + 1)
  BY <1>1, <1>4, GameIsSound, ConnectedConnects DEF Accepted
<1>6. Connected(Game, c) \in SUBSET Games
  BY <1>5 DEF Sound
<1>7. Becomes(Connected(Game, c))
  BY <1>2, GameIsSound DEF ClientConnected
<1>8. Game' \in Connected(Game, c)
  BY <1>6, <1>7, BecomesOne
<1>9. /\ Sound(Game') /\ Accepted(Game') = Accepted(Game) \ {c}
      /\ Humans(Game') = Humans(Game) + 1
      /\ Game'.players = (IF Game.players >= maxplayers THEN Game.players ELSE Game.players + 1)
  BY <1>5, <1>8
<1>10. /\ reservedPlayerSlots' = reservedPlayerSlots - 1 /\ recent' = recent /\ check_bots' = TRUE
  BY DEF ClientConnected
<1>11. Reserves(Game', reservedPlayerSlots', recent')
  BY <1>2, <1>3, <1>9, <1>10, GameIsSound DEF Reserves
<1>12. player_count' = player_count => Uneven(Game') <= Uneven(Game)
  <2> SUFFICES ASSUME player_count' = player_count PROVE Uneven(Game') <= Uneven(Game)
    OBVIOUS
  <2>1. Game'.players = player_count' /\ Game.players = player_count
    BY DEF Game
  <2>2. player_count' >= maxplayers
    BY <1>9, <2>1, GameIsSound
  <2>3. /\ Size(Game', 0) + Size(Game', 1) >= maxplayers /\ maxplayers = 2 * TSIZE /\ TSIZE \in Nat
        /\ Size(Game', 0) \in Nat /\ Size(Game', 1) \in Nat
        /\ Size(Game', 0) <= TSIZE /\ Size(Game', 1) <= TSIZE
    BY <1>9, <2>1, <2>2, Halves, Sizes DEF Sound, Counts
  <2>4. Uneven(Game') = 0
    BY <2>3 DEF Uneven
  <2> QED
    BY <2>4, UnevenIsNumber
<1>13. reservedPlayerSlots' \in Nat
  BY <1>2, <1>10, GameIsSound
<1> QED
  BY <1>9, <1>10, <1>11, <1>12, <1>13, GameIsSound, KeptBy

LEMMA ClientDisconnectedKeeps ==
  ASSUME IInv, NEW c \in Client, ClientDisconnected(c)
  PROVE  Kept
<1> DEFINE p == ctop[c]
<1>1. p \in Used(Game)
  <2>1. ctop \in [Client -> Pid \cup {-1}] /\ ctop[c] # -1 /\ Tables(Game)
    BY GameIsSound DEF Games, ClientDisconnected, Sound
  <2> QED
    BY <2>1, GameIsSound DEF Tables, Used
<1>2. Becomes(Leave(Game, p))
  BY DEF ClientDisconnected
<1> HIDE DEF p
<1>3. \A h \in Leave(Game, p) : Without(Game, h, BotsAfter(Game, p))
  BY <1>1, GameIsSound, LeaveLeaves
<1>4. Leave(Game, p) \in SUBSET Games
  BY <1>3 DEF Without, Sound
<1>5. Without(Game, Game', BotsAfter(Game, p))
  BY <1>2, <1>3, <1>4, BecomesOne
<1>6. /\ Sound(Game') /\ Accepted(Game') = Accepted(Game)
      /\ Game'.players = player_count - 1 /\ Humans(Game') <= Humans(Game)
      /\ Humans(Game') \in Int /\ Humans(Game) \in Int
  BY <1>5, GameIsSound DEF Without, Humans, BotsAfter
<1>7. Reserves(Game', reservedPlayerSlots, recent)
  BY <1>6, GameIsSound DEF Reserves
<1>8. player_count' # player_count
  BY <1>6, GameIsSound DEF Game
<1> QED
  BY <1>6, <1>7, <1>8, GameIsSound, KeptBy DEF ClientDisconnected

LEMMA NeededBotsAreNumbers ==
  ASSUME NEW n \in 0 .. maxplayers
  PROVE  NeededBots(n) \in Nat
BY Halves, SettingsAssumption DEF NeededBots

LEMMA InitBotsKeeps ==
  ASSUME IInv, InitBots
  PROVE  Kept
<1> DEFINE needed == NeededBots(Humans(Game))
           surplus == bot_count - needed
           missing == needed - Cardinality(Running)
<1>1. Humans(Game) = player_count - bot_count /\ Humans(Game) \in 0 .. maxplayers
  <2>1. Humans(Game) = player_count - bot_count
    BY DEF Humans, Game
  <2>2. Humans(Game) + reservedPlayerSlots <= maxplayers
    BY GameIsSound DEF Reserves
  <2> QED
    BY <2>1, <2>2, GameIsSound
<1>2. needed \in Nat
  BY <1>1, NeededBotsAreNumbers
<1> HIDE DEF needed
<1>3. CASE surplus > 0
  <2> DEFINE seq == [k \in 1 .. surplus |-> k]
  <2>1. Becomes(Removed(Game, seq)) /\ check_bots' = TRUE
    BY <1>3 DEF InitBots, Removed, needed
  <2>2. /\ DOMAIN seq \in SUBSET Nat /\ IsFiniteSet(DOMAIN seq)
        /\ Cardinality(DOMAIN seq) = surplus /\ surplus <= bot_count
    <3>1. surplus \in Nat /\ surplus <= bot_count
      BY <1>2, <1>3, GameIsSound
    <3> HIDE DEF surplus
    <3>2. IsFiniteSet(1 .. surplus) /\ Cardinality(1 .. surplus) = surplus
      BY <3>1, FS_Interval
    <3> QED
      BY <3>1, <3>2
  <2> HIDE DEF seq, surplus
  <2>3. \A h \in Removed(Game, seq) : Fewer(Game, h, surplus)
    BY <2>2, GameIsSound, RemovalsRemove
  <2>4. Removed(Game, seq) \in SUBSET Games
    BY <2>3 DEF Fewer, Sound
  <2>5. Fewer(Game, Game', surplus)
    BY <2>1, <2>3, <2>4, BecomesOne
  <2>6. surplus \in Nat \ {0}
    BY <1>2, <1>3, GameIsSound DEF surplus
  <2>7. /\ Sound(Game') /\ Accepted(Game') = Accepted(Game)
        /\ Game'.players = player_count - surplus /\ Humans(Game') = Humans(Game)
    BY <2>5, <2>6, GameIsSound DEF Fewer, Humans
  <2>8. Reserves(Game', reservedPlayerSlots, recent)
    BY <2>7, GameIsSound DEF Reserves
  <2>9. player_count' # player_count
    <3>1. player_count' = player_count - surplus
      BY <2>7 DEF Game
    <3> QED
      BY <2>6, <3>1, GameIsSound
  <2>10. UNCHANGED <<reservedPlayerSlots, recent>>
    BY DEF InitBots
  <2> QED
    BY <2>1, <2>7, <2>8, <2>9, <2>10, GameIsSound, KeptBy
<1>4. CASE ~(surplus > 0)
  <2>1. /\ check_bots' = FALSE
        /\ \E B \in SUBSET (Bot \ Running) :
             conn' = [b \in Client |-> IF b \in B THEN "queued" ELSE conn[b]]
        /\ UNCHANGED <<player, ctop, player_count, bot_count, failed>>
        /\ UNCHANGED <<reservedPlayerSlots, recent>>
    BY <1>4 DEF InitBots, needed
  <2>2. PICK B \in SUBSET (Bot \ Running) :
          conn' = [b \in Client |-> IF b \in B THEN "queued" ELSE conn[b]]
    BY <2>1
  <2> DEFINE conn2 == [b \in Client |-> IF b \in B THEN "queued" ELSE conn[b]]
  <2>3. /\ conn2 \in [Client -> Stage]
        /\ \A d \in Client : /\ conn[d] = "in" => conn2[d] = "in"
                             /\ conn2[d] = "accepted" => conn[d] = "accepted"
    <3>1. conn \in [Client -> Stage] /\ \A b \in B : conn[b] = "out"
      BY GameIsSound DEF Games, Running
    <3> QED
      BY <3>1 DEF Stage
  <2> HIDE DEF conn2
  <2>4. conn' = conn2
    BY <2>2 DEF conn2
  <2> QED
    BY <2>1, <2>3, <2>4, KeptByFewerAccepted
<1> QED
  BY <1>3, <1>4

LEMMA BotHelloKeeps ==
  ASSUME IInv, NEW b \in Bot, BotHello(b)
  PROVE  Kept
<1>1. CASE Hello(b)
  BY <1>1, HelloKeeps DEF BotHello, Client
<1>2. CASE ~Hello(b)
  <2>1. /\ failed' = "res.accepted"
        /\ UNCHANGED <<player, ctop, player_count, bot_count, reservedPlayerSlots, recent,
                       conn, check_bots>>
    BY <1>2 DEF BotHello
  <2>2. /\ Game' \in Games /\ Game'.player = Game.player /\ Game'.ctop = Game.ctop
        /\ Game'.conn = Game.conn /\ Game'.players = Game.players /\ Game'.bots = Game.bots
    BY <2>1, GameIsSound DEF Game, Games
  <2>3. Used(Game') = Used(Game) /\ Bots(Game') = Bots(Game)
    BY <2>2 DEF Used, Bots
  <2>4. Sound(Game')
    BY <2>2, <2>3, GameIsSound DEF Sound, Tables, Counts
  <2>5. Reserves(Game', reservedPlayerSlots, recent)
    BY <2>2, GameIsSound DEF Reserves, Accepted, Humans
  <2>6. Uneven(Game') = Uneven(Game)
    BY <2>3 DEF Uneven, Size, TeamOf
  <2> QED
    BY <2>1, <2>4, <2>5, <2>6, GameIsSound, UnevenIsNumber, KeptBy
<1> QED
  BY <1>1, <1>2

LEMMA BotIsBotKeeps ==
  ASSUME IInv, NEW b \in Bot, BotIsBot(b)
  PROVE  Kept
<1> DEFINE p == ctop[b]
           pl == [player[p] EXCEPT !.is_bot = TRUE]
<1>1. p \in Used(Game)
  <2>1. ctop \in [Client -> Pid \cup {-1}] /\ ctop[b] # -1 /\ Tables(Game) /\ b \in Client
    BY GameIsSound DEF Games, BotIsBot, Sound, Client
  <2> QED
    BY <2>1, GameIsSound DEF Tables, Used
<1>2. p \in Pid /\ player[p] \in Player /\ player \in [Pid -> Player \cup {None}]
  BY <1>1, GameIsSound, PlayersOf DEF Games
<1>3. pl \in Player /\ pl.cid = player[p].cid /\ pl.is_bot /\ pl # None
  <2>1. pl \in Player /\ pl.cid = player[p].cid /\ pl.is_bot
    BY <1>2 DEF Player
  <2> HIDE DEF pl
  <2> QED
    BY <2>1, ClientAssumption
<1>4. player' = [player EXCEPT ![p] = pl] /\ bot_count' = bot_count + 1 /\ ~player[p].is_bot
  BY DEF BotIsBot
<1> HIDE DEF p, pl
<1>5. player'[p] = pl /\ \A q \in Pid \ {p} : player'[q] = player[q]
  BY <1>2, <1>4
<1>6. /\ Game'.player = player' /\ Game'.ctop = ctop /\ Game'.conn = conn
      /\ Game'.players = player_count /\ Game'.bots = bot_count + 1
      /\ UNCHANGED <<reservedPlayerSlots, recent, check_bots, player_count>>
  BY DEF BotIsBot, Game
<1>7. Game' \in Games
  <2>1. player' \in [Pid -> Player \cup {None}]
    BY <1>2, <1>3, <1>4
  <2>2. /\ ctop' \in [Client -> Pid \cup {-1}] /\ player_count' \in Nat
        /\ bot_count' \in Nat /\ conn' \in [Client -> Stage] /\ failed' \in {"none", "res.accepted"}
    BY GameIsSound DEF BotIsBot, Games
  <2> QED
    BY <2>1, <2>2 DEF Game, Games
<1>8. Used(Game') = Used(Game)
  BY <1>1, <1>2, <1>3, <1>5, <1>6, GameIsSound DEF Used
<1>9. Bots(Game') = Bots(Game) \cup {p} /\ p \notin Bots(Game)
  <2>1. ASSUME NEW q \in Used(Game)
        PROVE  player'[q].is_bot <=> player[q].is_bot \/ q = p
    <3>1. q \in Pid
      BY Sizes
    <3>2. CASE q = p
      BY <1>3, <1>5, <3>2
    <3>3. CASE q # p
      BY <1>5, <3>1, <3>3
    <3> QED
      BY <3>2, <3>3
  <2> QED
    BY <1>1, <1>4, <1>6, <1>8, <2>1, GameIsSound DEF Bots
<1>10. Counts(Game')
  <2>1. Cardinality(Bots(Game) \cup {p}) = Cardinality(Bots(Game)) + 1
    BY <1>9, Sizes, FS_AddElement
  <2> QED
    BY <1>6, <1>8, <1>9, <2>1, GameIsSound DEF Counts, Sound
<1>11. \A q \in Pid : player[q] # None =>
         player'[q] # None /\ player'[q].cid = player[q].cid
  BY <1>3, <1>5
<1>12. Tables(Game')
  <2>1. Tables(Game) /\ ctop \in [Client -> Pid \cup {-1}]
    BY GameIsSound DEF Sound, Games
  <2>2. ASSUME NEW q \in Used(Game')
        PROVE  Game'.ctop[Game'.player[q].cid] = q /\ Game'.conn[Game'.player[q].cid] = "in"
    <3>1. q \in Used(Game) /\ player'[q].cid = player[q].cid
      BY <1>8, <1>11, GameIsSound DEF Used
    <3> QED
      BY <1>6, <2>1, <3>1, GameIsSound DEF Tables
  <2>3. ASSUME NEW d \in Client, Game'.ctop[d] # -1
        PROVE  Game'.player[Game'.ctop[d]] # None /\ Game'.player[Game'.ctop[d]].cid = d
    <3>1. ctop[d] \in Pid /\ player[ctop[d]] # None /\ player[ctop[d]].cid = d
      BY <1>6, <2>1, <2>3, GameIsSound DEF Tables
    <3> QED
      BY <1>6, <1>11, <3>1
  <2> QED
    BY <2>2, <2>3 DEF Tables
<1>13. Reserves(Game', reservedPlayerSlots, recent)
  <2>1. Accepted(Game') = Accepted(Game)
    BY <1>6, GameIsSound DEF Accepted
  <2>2. Humans(Game') = Humans(Game) - 1 /\ Humans(Game) \in Int
    BY <1>6, GameIsSound DEF Humans
  <2> QED
    BY <2>1, <2>2, GameIsSound DEF Reserves
<1>14. Uneven(Game') <= Uneven(Game)
  <2>1. Uneven(Game') = Uneven(Game)
    BY <1>8 DEF Uneven, Size, TeamOf
  <2> QED
    BY <2>1, UnevenIsNumber
<1> QED
  BY <1>6, <1>7, <1>10, <1>12, <1>13, <1>14, GameIsSound, KeptBy DEF Sound

LEMMA ChangeTeamOffKeeps ==
  ASSUME IInv, NEW c \in Client, ChangeTeamOff(c)
  PROVE  Kept
<1> DEFINE p == ctop[c]
           pl == [player[p] EXCEPT !.want_change_teams = FALSE]
<1>1. p \in Used(Game)
  <2>1. ctop \in [Client -> Pid \cup {-1}] /\ ctop[c] # -1 /\ Tables(Game)
    BY GameIsSound DEF Games, ChangeTeamOff, Sound
  <2> QED
    BY <2>1, GameIsSound DEF Tables, Used
<1>2. p \in Pid /\ player[p] \in Player
  BY <1>1, GameIsSound, PlayersOf
<1>3. pl \in Player /\ pl.cid = player[p].cid /\ pl.is_bot = player[p].is_bot
  BY <1>2 DEF Player
<1>4. Game' = Touched(Game, p, pl)
  BY <1>2, GameIsSound DEF Touched, Game, ChangeTeamOff
<1> HIDE DEF p, pl
<1>5. Rearranged(Game, Game')
  BY <1>1, <1>3, <1>4, GameIsSound, TouchedIsRearranged
<1> QED
  BY <1>5, GameIsSound, KeptByRearranging DEF ChangeTeamOff

LEMMA MayChangeAgainKeeps ==
  ASSUME IInv, NEW q \in Pid, MayChangeAgain(q)
  PROVE  Kept
<1> DEFINE p == q
           pl == [player[p] EXCEPT !.waits = FALSE]
<1>1. p \in Used(Game)
  BY GameIsSound DEF Used, MayChangeAgain
<1>2. p \in Pid /\ player[p] \in Player
  BY <1>1, GameIsSound, PlayersOf
<1>3. pl \in Player /\ pl.cid = player[p].cid /\ pl.is_bot = player[p].is_bot
  BY <1>2 DEF Player
<1>4. Game' = Touched(Game, p, pl)
  <2>1. /\ player' = [player EXCEPT ![p] = pl]
        /\ UNCHANGED <<ctop, player_count, bot_count, conn, failed>>
    BY DEF MayChangeAgain
  <2> HIDE DEF p, pl
  <2> QED
    BY <2>1 DEF Touched, Game
<1> HIDE DEF p, pl
<1>5. Rearranged(Game, Game')
  BY <1>1, <1>3, <1>4, GameIsSound, TouchedIsRearranged
<1> QED
  BY <1>5, GameIsSound, KeptByRearranging DEF MayChangeAgain

LEMMA ChangeTeamOnKeeps ==
  ASSUME IInv, NEW c \in Client, ChangeTeamOn(c)
  PROVE  Kept
<1> DEFINE p == ctop[c]
           pl == [player[p] EXCEPT !.want_change_teams = TRUE]
           k == [Game EXCEPT !.player[p].want_change_teams = TRUE]
<1>1. p \in Used(Game)
  <2>1. ctop \in [Client -> Pid \cup {-1}] /\ ctop[c] # -1 /\ Tables(Game)
    BY GameIsSound DEF Games, ChangeTeamOn, Sound
  <2> QED
    BY <2>1, GameIsSound DEF Tables, Used
<1>2. p \in Pid /\ player[p] \in Player
  BY <1>1, GameIsSound, PlayersOf
<1>3. pl \in Player /\ pl.cid = player[p].cid /\ pl.is_bot = player[p].is_bot
  BY <1>2 DEF Player
<1>4. k = Touched(Game, p, pl)
  BY <1>2, GameIsSound DEF Touched, Game
<1>5. Becomes(CheckTeamChanges(k))
  BY DEF ChangeTeamOn
<1> HIDE DEF p, pl, k
<1>6. Rearranged(Game, k) /\ Sound(k)
  BY <1>1, <1>3, <1>4, GameIsSound, TouchedIsRearranged DEF Rearranged
<1>7. \A h \in CheckTeamChanges(k) : Rearranged(Game, h)
  BY <1>6, CheckTeamChangesRearranges, RearrangedTwice
<1>8. CheckTeamChanges(k) \in SUBSET Games
  BY <1>7 DEF Rearranged, Sound
<1>9. Rearranged(Game, Game')
  BY <1>5, <1>7, <1>8, BecomesOne
<1> QED
  BY <1>9, GameIsSound, KeptByRearranging DEF ChangeTeamOn

LEMMA ThinkKeeps ==
  ASSUME IInv, Think
  PROVE  Kept
<1>1. \A h \in Thought : Rearranged(Game, h)
  BY GameIsSound, ThoughtRearranges
<1>2. Thought \in SUBSET Games
  BY <1>1 DEF Rearranged, Sound
<1>3. Rearranged(Game, Game')
  BY <1>1, <1>2, BecomesOne DEF Think
<1> QED
  BY <1>3, GameIsSound, KeptByRearranging DEF Think

LEMMA NextMapKeeps ==
  ASSUME IInv, NextMap
  PROVE  Kept
<1>1. \A h \in Restart(Game) : Rearranged(Game, h)
  BY GameIsSound, RestartRearranges
<1>2. Restart(Game) \in SUBSET Games
  BY <1>1 DEF Rearranged, Sound
<1>3. Rearranged(Game, Game')
  BY <1>1, <1>2, BecomesOne DEF NextMap
<1> QED
  BY <1>3, GameIsSound, KeptByRearranging DEF NextMap

LEMMA StepKeeps ==
  ASSUME IInv, [Next]_vars
  PROVE  Kept
<1>1. Human \subseteq Client /\ Bot \subseteq Client
  BY DEF Client
<1>2. CASE UNCHANGED vars
  <2>1. Game' = Game /\ UNCHANGED <<reservedPlayerSlots, recent, check_bots>>
    BY <1>2 DEF vars, Game
  <2>2. Rearranged(Game, Game')
    BY <2>1, GameIsSound, NothingRearranged
  <2> QED
    BY <2>1, <2>2, GameIsSound, KeptByRearranging
<1>3. CASE Next
  <2>1. failed = "none"
    BY <1>3 DEF Next
  <2>2. CASE PlayersJoinOrLeave
    <3>1. ASSUME NEW c \in Human, HumanHello(c) PROVE Kept
      BY <1>1, <3>1, HelloKeeps DEF HumanHello
    <3>2. ASSUME NEW c \in Human, HandshakeFails(c) PROVE Kept
      BY <1>1, <3>2, HandshakeFailsKeeps
    <3>3. ASSUME NEW c \in Human, ClientConnected(c) PROVE Kept
      BY <1>1, <2>1, <3>3, ClientConnectedKeeps
    <3>4. ASSUME NEW c \in Client, ClientDisconnected(c) PROVE Kept
      BY <3>4, ClientDisconnectedKeeps
    <3> QED
      BY <2>2, <3>1, <3>2, <3>3, <3>4 DEF PlayersJoinOrLeave
  <2>3. CASE BotThread
    <3>1. CASE InitBots
      BY <3>1, InitBotsKeeps
    <3>2. ASSUME NEW b \in Bot, BotHello(b) PROVE Kept
      BY <3>2, BotHelloKeeps
    <3>3. ASSUME NEW b \in Bot, ClientConnected(b) PROVE Kept
      BY <1>1, <2>1, <3>3, ClientConnectedKeeps
    <3>4. ASSUME NEW b \in Bot, BotIsBot(b) PROVE Kept
      BY <3>4, BotIsBotKeeps
    <3>5. ASSUME NEW b \in Bot, BotEnds(b) PROVE Kept
      BY <3>5, BotEndsKeeps
    <3> QED
      BY <2>3, <3>1, <3>2, <3>3, <3>4, <3>5 DEF BotThread
  <2>4. CASE ReservationAges
    BY <2>4, ReservationAgesKeeps
  <2>5. CASE Think
    BY <2>5, ThinkKeeps
  <2>6. CASE NextMap
    BY <2>6, NextMapKeeps
  <2>7. ASSUME NEW c \in Human, ChangeTeamOn(c) PROVE Kept
    BY <1>1, <2>7, ChangeTeamOnKeeps
  <2>8. ASSUME NEW c \in Human, ChangeTeamOff(c) PROVE Kept
    BY <1>1, <2>8, ChangeTeamOffKeeps
  <2>9. ASSUME NEW p \in Pid, MayChangeAgain(p) PROVE Kept
    BY <2>9, MayChangeAgainKeeps
  <2> QED
    BY <1>3, <2>2, <2>3, <2>4, <2>5, <2>6, <2>7, <2>8, <2>9 DEF Next, Steps
<1> QED
  BY <1>2, <1>3

LEMMA InitIsFine ==
  ASSUME Init
  PROVE  IInv
<1>1. /\ Game.player = [p \in Pid |-> None] /\ Game.ctop = [c \in Client |-> -1]
      /\ Game.conn = [c \in Client |-> "out"] /\ Game.players = 0 /\ Game.bots = 0
  BY DEF Init, Game
<1>2. Used(Game) = {} /\ Bots(Game) = {} /\ Accepted(Game) = {}
  BY <1>1 DEF Used, Bots, Accepted
<1>3. TypeOK
  BY DEF Init, TypeOK, Game, Games, Stage
<1>4. Tables(Game)
  BY <1>1, <1>2 DEF Tables
<1>5. Counts(Game)
  BY <1>1, <1>2, FS_EmptySet DEF Counts
<1>6. ReservationsInv
  BY <1>1, <1>2, Halves, FS_EmptySet DEF Init, ReservationsInv, Reserves, Humans
<1> QED
  BY <1>3, <1>4, <1>5, <1>6 DEF IInv

(* The inductive invariant holds for any number of places, clients and settings.  *)
THEOREM Invariance == Spec => []IInv
<1>1. Init => IInv
  BY InitIsFine
<1>2. IInv /\ [Next]_vars => IInv'
  BY StepKeeps DEF Kept
<1> QED
  BY <1>1, <1>2, PTL DEF Spec

(* Players, clients and counters agree: update_serverinfo's nAssert holds.        *)
THEOREM CountsAgree == Spec => []CountsMatchPlayers
<1>1. IInv => CountsMatchPlayers
  <2> SUFFICES ASSUME IInv PROVE CountsMatchPlayers
    OBVIOUS
  <2>1. Tables(Game) /\ Counts(Game)
    BY GameIsSound DEF Sound
  <2>2. reservedPlayerSlots \in 0 .. maxplayers
    <3>1. Humans(Game) + reservedPlayerSlots <= maxplayers /\ Humans(Game) = player_count - bot_count
      BY GameIsSound DEF Reserves, Humans
    <3> QED
      BY <3>1, GameIsSound
  <2> QED
    BY <2>1, <2>2, GameIsSound DEF Tables, Counts, CountsMatchPlayers
<1> QED
  BY <1>1, Invariance, PTL

(* Who was accepted fits: of the nAsserts of admission only the one of the bots'  *)
(* own connection can fail.                                                       *)
THEOREM AcceptedFit == Spec => []AcceptedClientsFit
<1>1. IInv => AcceptedClientsFit
  BY GameIsSound DEF Games, AcceptedClientsFit
<1> QED
  BY <1>1, Invariance, PTL

(* No team change, trade, balancing, shuffle or bot's move, and no replacement of *)
(* a bot by a human, makes the teams less even.                                   *)
THEOREM BalanceIsKept == Spec => ChangesKeepBalance
<1>1. IInv /\ [Next]_vars => [player_count' = player_count => Difference' <= Difference]_vars
  <2> SUFFICES ASSUME IInv, [Next]_vars, player_count' = player_count
               PROVE  Difference' <= Difference
    OBVIOUS
  <2>1. Uneven(Game') <= Uneven(Game)
    BY StepKeeps DEF Kept
  <2>2. Difference = Uneven(Game)
    BY DEF Difference, Uneven
  <2>3. Difference' = Uneven(Game')
    BY DEF Difference, Uneven, Size, TeamOf, Used
  <2> QED
    BY <2>1, <2>2, <2>3
<1> QED
  BY <1>1, Invariance, PTL DEF Spec, ChangesKeepBalance

(* A frame evens out the teams as long as there are bots to do it with.           *)
THEOREM BotsAreUsed == Spec => ThinkUsesBots
<1>1. IInv /\ [Next]_vars => [Think => \A t \in {0, 1} :
        Size(Game', t) - Size(Game', 1 - t) >= 2 =>
          Bots(Game') \cap TeamOf(Game', t) = {} \/ Difference' < Difference]_vars
  <2> SUFFICES ASSUME IInv, Think, NEW t \in {0, 1}, Size(Game', t) - Size(Game', 1 - t) >= 2
               PROVE  Bots(Game') \cap TeamOf(Game', t) = {} \/ Difference' < Difference
    OBVIOUS
  <2>1. \A h \in Thought : h \in Games
    BY GameIsSound, ThoughtRearranges DEF Rearranged, Sound
  <2>2. Game' \in Thought
    BY <2>1, BecomesOne DEF Think
  <2>3. Difference = Uneven(Game)
    BY DEF Difference, Uneven
  <2>4. Difference' = Uneven(Game')
    BY DEF Difference, Uneven, Size, TeamOf, Used
  <2> QED
    BY <2>2, <2>3, <2>4, GameIsSound, ThoughtEvens
<1> QED
  BY <1>1, Invariance, PTL DEF Spec, ThinkUsesBots

================================================================================
