------------------------------ MODULE WorldProofs ------------------------------
(* Proofs about World for any numbers of players, flags, rockets and rules.       *)
EXTENDS World, FiniteSetTheorems, WellFoundedInduction, TLAPS

--------------------------------------------------------------------------------
(* The least of a set of numbers.                                                 *)
LEMMA LeastNumber ==
  ASSUME NEW N \in SUBSET Nat, N # {}
  PROVE  \E n \in N : \A m \in N : ~(m < n)
<1> DEFINE R == {p \in Nat \X Nat : p[1] < p[2]}
<1>1. IsWellFoundedOn(R, Nat)
  BY NatLessThanWellFounded, Zenon DEF OpToRel
<1>2. PICK n \in N : \A m \in N : <<m, n>> \notin R
  BY <1>1, WFMin, Zenon
<1>3. ASSUME NEW m \in N, m < n PROVE FALSE
  <2>1. <<m, n>> \in R
    BY <1>3
  <2> QED
    BY <1>2, <2>1, Zenon
<1> QED
  BY <1>3

(* Induction over the subsets of a finite set: a family P that has a set whenever *)
(* it has its proper subsets has them all.                                        *)
LEMMA SubsetInduction ==
  ASSUME NEW T, IsFiniteSet(T), NEW P,
         \A s \in SUBSET T : (\A u \in SUBSET s : u # s => u \in P) => s \in P
  PROVE  \A s \in SUBSET T : s \in P
<1> SUFFICES ASSUME NEW s0 \in SUBSET T, s0 \notin P PROVE FALSE
  OBVIOUS
<1> DEFINE Bad == {s \in SUBSET T : s \notin P}
           N == {Cardinality(s) : s \in Bad}
<1>1. \A s \in SUBSET T : IsFiniteSet(s) /\ Cardinality(s) \in Nat
  BY FS_Subset, FS_CardinalityType
<1>2. N \in SUBSET Nat /\ N # {}
  BY <1>1
<1>4. PICK n \in N : \A m \in N : ~(m < n)
  <2> HIDE DEF N
  <2> QED
    BY <1>2, LeastNumber
<1>5. PICK s \in Bad : n = Cardinality(s)
  BY <1>4
<1>6. ASSUME NEW u \in SUBSET s, u # s PROVE u \in P
  <2> SUFFICES ASSUME u \notin P PROVE FALSE
    OBVIOUS
  <2>1. u \in SUBSET T /\ u \in Bad /\ Cardinality(u) \in N
    BY <1>5, <1>6
  <2>2. IsFiniteSet(s) /\ Cardinality(s) \in Nat /\ Cardinality(u) \in Nat
    BY <1>1, <1>5, <2>1
  <2>3. Cardinality(u) <= Cardinality(s) /\ Cardinality(u) # Cardinality(s)
    BY <1>6, <2>2, FS_Subset
  <2>4. Cardinality(u) < Cardinality(s)
    BY <2>2, <2>3
  <2> QED
    BY <1>4, <1>5, <2>1, <2>4
<1> QED
  BY <1>5, <1>6

--------------------------------------------------------------------------------
(* Functions on the sets of numbers of D that are defined from what they are on   *)
(* the set without its greatest element, as those behind FoldLeft.                *)

LEMMA MaxIsIn ==
  ASSUME NEW s \in SUBSET Nat, IsFiniteSet(s), s # {}
  PROVE  Max(s) \in s
<1> DEFINE Greatest == {x \in s : \A y \in s : x >= y}
<1>1. ASSUME Greatest = {} PROVE FALSE
  <2> DEFINE P == {u \in SUBSET s : u # {} => \E x \in u : \A y \in u : x >= y}
  <2>1. ASSUME NEW u \in SUBSET s, \A v \in SUBSET u : v # u => v \in P PROVE u \in P
    <3> SUFFICES ASSUME u # {} PROVE \E x \in u : \A y \in u : x >= y
      OBVIOUS
    <3>1. PICK z \in u : TRUE
      OBVIOUS
    <3>2. CASE u \ {z} = {}
      BY <3>1, <3>2
    <3>3. CASE u \ {z} # {}
      <4>0. u \ {z} \in P
        <5>1. u \ {z} \in SUBSET u /\ u \ {z} # u
          BY <3>1
        <5> HIDE DEF P
        <5> QED
          BY <2>1, <5>1
      <4>1. PICK x \in u \ {z} : \A y \in u \ {z} : x >= y
        BY <4>0, <3>3, Zenon
      <4>2. CASE x >= z
        BY <4>1, <4>2
      <4>3. CASE ~(x >= z)
        BY <4>1, <4>3
      <4> QED
        BY <4>2, <4>3
    <3> QED
      BY <3>2, <3>3
  <2>2. \A u \in SUBSET s : u \in P
    <3> HIDE DEF P
    <3> QED
      BY <2>1, SubsetInduction
  <2> QED
    BY <1>1, <2>2
<1>2. \E x : x \in s /\ \A y \in s : x >= y
  BY <1>1
<1> QED
  BY <1>2, Zenon DEF Max

IsRun(t, F, b, D) ==
  t = [s \in SUBSET D |-> IF s = {} THEN b ELSE F[<<Max(s), t[s \ {Max(s)}]>>]]

Run(F, b, D) == CHOOSE t : IsRun(t, F, b, D)

RunAt(t, F, b, s) == IF s = {} THEN b ELSE F[<<Max(s), t[s \ {Max(s)}]>>]

LEMMA RunStep ==
  ASSUME NEW t, NEW F, NEW b, NEW D, IsRun(t, F, b, D), NEW s \in SUBSET D
  PROVE  t[s] = RunAt(t, F, b, s)
<1>1. t = [u \in SUBSET D |-> RunAt(t, F, b, u)]
  BY Zenon DEF IsRun, RunAt
<1>2. [u \in SUBSET D |-> RunAt(t, F, b, u)][s] = RunAt(t, F, b, s)
  OBVIOUS
<1> QED
  BY <1>1, <1>2, Zenon

(* Two runs have the same for a set that both are for.                            *)
LEMMA RunsAgree ==
  ASSUME NEW t, NEW u, NEW F, NEW b, NEW T, NEW U, IsRun(t, F, b, T), IsRun(u, F, b, U),
         NEW Z \in SUBSET Nat, IsFiniteSet(Z), Z \subseteq T, Z \subseteq U
  PROVE  t[Z] = u[Z]
<1> DEFINE P == {s \in SUBSET Z : t[s] = u[s]}
<1>1. ASSUME NEW s \in SUBSET Z, \A v \in SUBSET s : v # s => v \in P PROVE s \in P
  <2>0. s \in SUBSET T /\ s \in SUBSET U /\ s \in SUBSET Nat /\ IsFiniteSet(s)
    BY FS_Subset
  <2>a. t[s] = RunAt(t, F, b, s) /\ u[s] = RunAt(u, F, b, s)
    BY <2>0, RunStep, Zenon
  <2>1. CASE s = {}
    BY <2>a, <2>1, Zenon DEF RunAt
  <2>2. CASE s # {}
    <3> DEFINE y == Max(s)
    <3>1. y \in s
      BY <2>0, <2>2, MaxIsIn
    <3>2. t[s] = F[<<y, t[s \ {y}]>>] /\ u[s] = F[<<y, u[s \ {y}]>>]
      BY <2>a, <2>2, Zenon DEF RunAt
    <3>3. s \ {y} \in P
      BY <1>1, <3>1
    <3> HIDE DEF y
    <3> QED
      BY <3>2, <3>3
  <2> QED
    BY <2>1, <2>2
<1>2. \A s \in SUBSET Z : s \in P
  <2> HIDE DEF P
  <2> QED
    BY <1>1, SubsetInduction
<1> QED
  BY <1>2

(* There is a run over every finite set of numbers.                               *)
LEMMA RunExists ==
  ASSUME NEW F, NEW b, NEW D \in SUBSET Nat, IsFiniteSet(D)
  PROVE  \E t : IsRun(t, F, b, D)
<1> DEFINE P == {s \in SUBSET D : \E t : IsRun(t, F, b, s)}
<1>1. ASSUME NEW s \in SUBSET D, \A v \in SUBSET s : v # s => v \in P PROVE s \in P
  <2> DEFINE V(v) == Run(F, b, v)[v]
             e(v) == IF v = {} THEN b ELSE F[<<Max(v), V(v \ {Max(v)})>>]
             t == [v \in SUBSET s |-> e(v)]
  <2>0. IsFiniteSet(s) /\ \A v \in SUBSET s : IsFiniteSet(v) /\ v \in SUBSET Nat
    BY FS_Subset
  <2>1. ASSUME NEW v \in SUBSET s, v # s PROVE IsRun(Run(F, b, v), F, b, v)
    <3>1. \E w : IsRun(w, F, b, v)
      BY <1>1, <2>1
    <3> QED
      BY <3>1, Zenon DEF Run
  <2>2. ASSUME NEW v \in SUBSET s, v # s PROVE V(v) = e(v)
    <3>1. IsRun(Run(F, b, v), F, b, v)
      BY <2>1, <2>2
    <3>2. CASE v = {}
      BY <3>1, <3>2, RunStep, Zenon DEF RunAt
    <3>3. CASE v # {}
      <4> DEFINE w == v \ {Max(v)}
      <4>1. Max(v) \in v /\ w \in SUBSET s /\ w # s /\ w \subseteq v /\ IsFiniteSet(w)
        BY <2>0, <3>3, MaxIsIn
      <4>2. V(v) = F[<<Max(v), Run(F, b, v)[w]>>]
        <5>1. v \in SUBSET v
          OBVIOUS
        <5>2. V(v) = RunAt(Run(F, b, v), F, b, v)
          BY <3>1, <5>1, RunStep, Zenon
        <5> QED
          BY <3>3, <5>2, Zenon DEF RunAt
      <4>3. IsRun(Run(F, b, w), F, b, w)
        BY <2>1, <4>1
      <4>4. Run(F, b, v)[w] = Run(F, b, w)[w]
        <5>1. w \in SUBSET Nat
          BY <2>0
        <5> HIDE DEF w
        <5> QED
          BY <3>1, <4>1, <4>3, <5>1, RunsAgree
      <4> QED
        BY <3>3, <4>2, <4>4, Zenon
    <3> QED
      BY <3>2, <3>3
  <2>3. ASSUME NEW v \in SUBSET s, v # {} PROVE t[v \ {Max(v)}] = V(v \ {Max(v)})
    <3> DEFINE w == v \ {Max(v)}
    <3>1. Max(v) \in v /\ w \in SUBSET s /\ w # s
      BY <2>0, <2>3, MaxIsIn
    <3>2. t[w] = e(w)
      <4> HIDE DEF e, w
      <4> QED
        BY <3>1
    <3>3. V(w) = e(w)
      <4> HIDE DEF e, w, V
      <4> QED
        BY <2>2, <3>1
    <3> QED
      BY <3>2, <3>3, Zenon
  <2>4. IsRun(t, F, b, s)
    <3> DEFINE d(v) == IF v = {} THEN b ELSE F[<<Max(v), t[v \ {Max(v)}]>>]
    <3>1. \A v \in SUBSET s : e(v) = d(v)
      BY <2>3, Zenon
    <3> HIDE DEF e, d
    <3>2. t = [v \in SUBSET s |-> d(v)]
      BY <3>1
    <3> QED
      BY <3>2, Zenon DEF IsRun, d
  <2> QED
    BY <2>4
<1>2. \A s \in SUBSET D : s \in P
  <2> HIDE DEF P
  <2> QED
    BY <1>1, SubsetInduction
<1> QED
  BY <1>2

(* What a run is for D, if each of its steps leads from V to V.                   *)
LEMMA RunStays ==
  ASSUME NEW t, NEW V, NEW D \in SUBSET Nat, IsFiniteSet(D), t[{}] \in V[{}],
         \A s \in SUBSET D :
           s # {} /\ t[s \ {Max(s)}] \in V[s \ {Max(s)}] => t[s] \in V[s]
  PROVE  \A s \in SUBSET D : t[s] \in V[s]
<1> DEFINE P == {s \in SUBSET D : t[s] \in V[s]}
<1>1. ASSUME NEW s \in SUBSET D, \A v \in SUBSET s : v # s => v \in P PROVE s \in P
  <2>1. CASE s = {}
    BY <2>1
  <2>2. CASE s # {}
    <3>1. s \in SUBSET Nat /\ IsFiniteSet(s)
      BY FS_Subset
    <3>2. Max(s) \in s
      BY <2>2, <3>1, MaxIsIn
    <3>3. s \ {Max(s)} \in SUBSET s /\ s \ {Max(s)} # s
      BY <3>2
    <3>4. s \ {Max(s)} \in P
      BY <1>1, <3>3, Zenon
    <3> QED
      BY <2>2, <3>4, Zenon
  <2> QED
    BY <2>1, <2>2
<1>2. \A s \in SUBSET D : s \in P
  <2> HIDE DEF P
  <2> QED
    BY <1>1, SubsetInduction
<1> QED
  BY <1>2

--------------------------------------------------------------------------------
(* Places, teams and their sizes.                                                 *)

LEMMA MinIsIn ==
  ASSUME NEW s \in SUBSET Nat, s # {}
  PROVE  Min(s) \in s
<1>1. PICK n \in s : \A m \in s : ~(m < n)
  BY LeastNumber
<1>2. \A m \in s : n <= m
  BY <1>1
<1>3. \E x : x \in s /\ \A y \in s : x <= y
  BY <1>2
<1> QED
  BY <1>3, Zenon DEF Min

LEMMA Halves ==
  /\ TSIZE \in Nat \ {0} /\ maxplayers \in Nat /\ maxplayers = 2 * TSIZE
  /\ Pid = 0 .. (2 * TSIZE - 1)
BY PlayersAssumption, SMT DEF TSIZE, Pid

LEMMA Half ==
  ASSUME NEW n \in Nat \ {0}, NEW p \in 0 .. (2 * n - 1)
  PROVE  p \div n = IF p < n THEN 0 ELSE 1
<1>1. CASE p < n
  BY <1>1, SMT
<1>2. CASE ~(p < n)
  BY <1>2, SMT
<1> QED
  BY <1>1, <1>2

Places(t) == {p \in Pid : Team(p) = t}

LEMMA Sides ==
  /\ Pid \subseteq Nat /\ IsFiniteSet(Pid) /\ -1 \notin Pid
  /\ \A p \in Pid : Team(p) \in {0, 1} /\ 1 - Team(p) \in {0, 1} /\ 1 - Team(p) # Team(p)
  /\ \A p \in Pid : Team(p) = 0 <=> p < TSIZE
  /\ \A t \in {0, 1} : /\ Places(t) \subseteq Pid /\ IsFiniteSet(Places(t))
                       /\ Cardinality(Places(t)) = TSIZE
<1>1. Pid \subseteq Nat /\ IsFiniteSet(Pid) /\ -1 \notin Pid
  <2>1. IsFiniteSet(0 .. (2 * TSIZE - 1))
    BY Halves, FS_Interval
  <2> QED
    BY <2>1, Halves
<1>2. \A p \in Pid : Team(p) = IF p < TSIZE THEN 0 ELSE 1
  <2> SUFFICES ASSUME NEW p \in Pid PROVE Team(p) = IF p < TSIZE THEN 0 ELSE 1
    OBVIOUS
  <2>1. p \div TSIZE = IF p < TSIZE THEN 0 ELSE 1
    <3>1. TSIZE \in Nat \ {0} /\ p \in 0 .. (2 * TSIZE - 1)
      BY Halves
    <3> HIDE DEF TSIZE
    <3> QED
      BY <3>1, Half, Zenon
  <2> QED
    BY <2>1, Zenon DEF Team
<1>3. Places(0) = 0 .. (TSIZE - 1) /\ Places(1) = TSIZE .. (2 * TSIZE - 1)
  BY <1>2, Halves DEF Places
<1>4. /\ IsFiniteSet(0 .. (TSIZE - 1)) /\ Cardinality(0 .. (TSIZE - 1)) = TSIZE
      /\ IsFiniteSet(TSIZE .. (2 * TSIZE - 1)) /\ Cardinality(TSIZE .. (2 * TSIZE - 1)) = TSIZE
  <2>1. TSIZE \in Nat \ {0} /\ 0 \in Int /\ TSIZE \in Int /\ TSIZE - 1 \in Int /\ 2 * TSIZE - 1 \in Int
    BY Halves
  <2>2. \A a, b \in Int :
          IsFiniteSet(a .. b) /\ Cardinality(a .. b) = IF a > b THEN 0 ELSE b - a + 1
    BY FS_Interval
  <2>3. /\ Cardinality(0 .. (TSIZE - 1)) = (TSIZE - 1) - 0 + 1
        /\ Cardinality(TSIZE .. (2 * TSIZE - 1)) = (2 * TSIZE - 1) - TSIZE + 1
    <3>1. ~(0 > TSIZE - 1) /\ ~(TSIZE > 2 * TSIZE - 1)
      BY <2>1
    <3> QED
      BY <2>1, <2>2, <3>1, Zenon
  <2>4. IsFiniteSet(0 .. (TSIZE - 1)) /\ IsFiniteSet(TSIZE .. (2 * TSIZE - 1))
    BY <2>1, <2>2, Zenon
  <2> QED
    BY <2>1, <2>3, <2>4
<1>5. \A t : Places(t) \subseteq Pid
  BY DEF Places
<1> QED
  BY <1>1, <1>2, <1>3, <1>4, <1>5, Halves

(* The members of a team, and the places that are free for it.                    *)
LEMMA Teams ==
  ASSUME NEW w, NEW t \in {0, 1}
  PROVE  /\ Used(w) \subseteq Pid /\ IsFiniteSet(Used(w)) /\ Cardinality(Used(w)) \in Nat
         /\ Members(w, t) = Used(w) \cap Places(t) /\ IsFiniteSet(Members(w, t))
         /\ FreePlaces(w, t) = Places(t) \ Used(w)
         /\ Cardinality(Members(w, t)) \in Nat /\ Cardinality(Members(w, t)) <= TSIZE
         /\ Cardinality(Members(w, t)) < TSIZE <=> FreePlaces(w, t) # {}
<1>1. Used(w) \subseteq Pid
  BY DEF Used
<1>2. IsFiniteSet(Used(w)) /\ Cardinality(Used(w)) \in Nat
  BY <1>1, Sides, FS_Subset, FS_CardinalityType
<1>3. Members(w, t) = Used(w) \cap Places(t) /\ FreePlaces(w, t) = Places(t) \ Used(w)
  BY <1>1 DEF Members, Places, FreePlaces
<1>4. IsFiniteSet(Places(t)) /\ Cardinality(Places(t)) = TSIZE /\ TSIZE \in Nat
  BY Sides, Halves
<1>5. Members(w, t) \in SUBSET Places(t)
  BY <1>3
<1>6. /\ IsFiniteSet(Members(w, t))
      /\ Cardinality(Members(w, t)) \in Nat /\ Cardinality(Members(w, t)) <= TSIZE
      /\ Cardinality(Members(w, t)) = TSIZE => Places(t) = Members(w, t)
  BY <1>4, <1>5, FS_Subset, FS_CardinalityType
<1>7. Places(t) = Members(w, t) => Cardinality(Members(w, t)) = TSIZE
  BY <1>4
<1>8. Places(t) = Members(w, t) <=> FreePlaces(w, t) = {}
  BY <1>3
<1> QED
  BY <1>1, <1>2, <1>3, <1>6, <1>7, <1>8, <1>4

LEMMA FreePlaceIsFree ==
  ASSUME NEW w, NEW t \in {0, 1}, FreePlaces(w, t) # {}
  PROVE  Min(FreePlaces(w, t)) \in Pid \ Used(w) /\ Team(Min(FreePlaces(w, t))) = t
<1>0. Places(t) \subseteq Pid /\ Pid \subseteq Nat
  BY Sides
<1>1. FreePlaces(w, t) = Places(t) \ Used(w) /\ FreePlaces(w, t) \in SUBSET Nat
  <2>1. FreePlaces(w, t) = Places(t) \ Used(w)
    BY Teams, Zenon
  <2> QED
    BY <1>0, <2>1
<1>2. Min(FreePlaces(w, t)) \in FreePlaces(w, t)
  BY <1>1, MinIsIn
<1> QED
  BY <1>0, <1>1, <1>2 DEF Places

--------------------------------------------------------------------------------
(* The rules, and the worlds under them.                                          *)

LEMMA Larger ==
  ASSUME NEW a \in Int, NEW b \in Int
  PROVE  Max({a, b}) = (IF a >= b THEN a ELSE b) /\ Min({a, b}) = (IF a <= b THEN a ELSE b)
<1>1. \E x : x \in {a, b} /\ \A y \in {a, b} : x >= y
  BY SMT
<1>2. \E x : x \in {a, b} /\ \A y \in {a, b} : x <= y
  BY SMT
<1>3. Max({a, b}) \in {a, b} /\ \A y \in {a, b} : Max({a, b}) >= y
  BY <1>1, Zenon DEF Max
<1>4. Min({a, b}) \in {a, b} /\ \A y \in {a, b} : Min({a, b}) <= y
  BY <1>2, Zenon DEF Min
<1> QED
  BY <1>3, <1>4, SMT

LEMMA Ruled ==
  ASSUME rules \in Settings
  PROVE  /\ \A f \in Flags : f[1] \in {0, 1, Wild}
         /\ Periods \in Nat /\ Periods >= 1 /\ rules.extra_time_periods \in Nat
         /\ rules.extra_time_periods <= Periods
         /\ MaxClock \in Nat /\ MaxPoints \in Nat /\ VoteAnnounceInterval \in Nat
         /\ Cardinality(rules.maps) \in Nat
<1>1. /\ \A f \in rules.flags : f[1] \in {0, 1, Wild}
      /\ {rules.carry_own_team_flag, rules.sudden_death} \subseteq BOOLEAN
      /\ {rules.time_limit, rules.extra_time, rules.extra_time_periods} \subseteq Nat
      /\ IsFiniteSet(rules.maps) /\ rules.vote_block_time \in Nat
  BY SettingsAssumption
<1>2. Periods \in Nat /\ Periods >= 1 /\ rules.extra_time_periods <= Periods
  <2>1. rules.extra_time_periods \in Int /\ 1 \in Int
    BY <1>1
  <2> QED
    BY <1>1, <2>1, Larger DEF Periods
<1>3. MaxClock \in Nat
  <2> HIDE DEF Periods
  <2>1. Periods * rules.extra_time \in Nat
    BY <1>1, <1>2
  <2> QED
    BY <1>1, <2>1 DEF MaxClock, LastFrame
<1> QED
  BY <1>1, <1>2, <1>3, BoundsAssumption, FS_CardinalityType DEF Flags

LEMMA Names ==
  ASSUME rules \in Settings
  PROVE
  /\ None \notin Owner /\ None \notin Player
  /\ \A p \in Pid, who \in Person : [pid |-> p, who |-> who] \in Owner
  /\ maxplayers < MAX_PLAYERS => Gone \notin Pid
  /\ 0 \in Pid /\ \A p \in Pid : p # -1
<1>1. Player \subseteq [who : Person, dead : BOOLEAN, carriedFlag : {"none", "own", "enemy", "wild"},
                        infected : {None} \cup Owner, want_map_exit : BOOLEAN, mapVote : Int]
  <2>1. {-1} \cup 1 .. Cardinality(rules.maps) \subseteq Int
    <3>1. Cardinality(rules.maps) \in Nat
      BY Ruled
    <3> QED
      BY <3>1
  <2> QED
    BY <2>1 DEF Player
<1>2. maxplayers < MAX_PLAYERS => Gone \notin Pid
  BY PlayersAssumption DEF Gone, Pid
<1>3. 0 \in Pid /\ \A p \in Pid : p # -1
  BY Sides, Halves
<1> QED
  BY <1>1, <1>2, <1>3, NamesAssumption DEF Owner

(* A player of a world.                                                           *)
LEMMA PlayersOf ==
  ASSUME NEW w, w \in Worlds, NEW p \in Used(w)
  PROVE  /\ p \in Pid /\ w.player[p] \in Player /\ w.player[p] # None
         /\ w.player[p].who \in Person /\ w.player[p].dead \in BOOLEAN
         /\ w.player[p].infected \in Owner \cup {None}
BY DEF Used, Worlds, Player

--------------------------------------------------------------------------------
(* What the changes of a world keep.                                              *)

(* Where the flags are, for FlagGame.                                             *)
HolderIn(w, f) == IF w.flag[f].status = "carried" THEN w.player[w.flag[f].carrier].who
                  ELSE IF w.flag[f].status = "dropped" THEN "ground" ELSE "base"

Lower(w, v) ==
  /\ v.score = w.score
  /\ \A f \in Flags : \/ HolderIn(v, f) = HolderIn(w, f)
                      \/ HolderIn(w, f) \in Person /\ HolderIn(v, f) = "ground"

(* The game and the votes, apart from players and flags.                          *)
Rest(w, v) ==
  /\ v.score = w.score /\ v.clock = w.clock /\ v.period = w.period /\ v.over = w.over
  /\ v.maprot = w.maprot /\ v.currmap = w.currmap /\ v.announced = w.announced
  /\ v.missed = w.missed /\ v.failed = w.failed

(* Players move and flags fall, and no more.                                      *)
Follows(w, v) ==
  /\ Sound(v) /\ Rest(w, v) /\ Lower(w, v)
  /\ Owned(w) => Owned(v)
  /\ Calm(w) => Calm(v)

LEMMA NothingFollows ==
  ASSUME NEW w, Sound(w)
  PROVE  Follows(w, w)
BY DEF Follows, Rest, Lower

LEMMA LowerTwice ==
  ASSUME NEW u, NEW v, NEW w, Lower(u, v), Lower(v, w)
  PROVE  Lower(u, w)
<1>1. "ground" \notin Person
  BY NamesAssumption
<1> QED
  BY <1>1 DEF Lower

LEMMA FollowsTwice ==
  ASSUME NEW u, NEW v, NEW w, Follows(u, v), Follows(v, w)
  PROVE  Follows(u, w)
BY LowerTwice DEF Follows, Rest

(* The same people in the same places, some of whom have died and some of whom    *)
(* have dropped their flags.                                                      *)
Fallen(w, v) ==
  \A f \in Flags : /\ v.flag[f].carrier \in {-1, w.flag[f].carrier}
                   /\ w.flag[f] = AtBase => v.flag[f] = AtBase

Settled(w, v) ==
  /\ v \in Worlds /\ Rest(w, v) /\ Fallen(w, v)
  /\ Used(v) = Used(w) /\ Alive(v) \subseteq Alive(w)
  /\ \A p \in Used(w) : /\ v.player[p].who = w.player[p].who
                        /\ v.player[p].infected = w.player[p].infected
                        /\ HasFlag(v, p) => HasFlag(w, p)
  /\ v.rock = w.rock /\ v.db = w.db

LEMMA SettledFollows ==
  ASSUME NEW w, Sound(w), NEW v, Settled(w, v), Held(v), Lower(w, v)
  PROVE  Follows(w, v)
<1>1. w \in Worlds /\ Len(w.maprot) <= Cardinality(rules.maps) /\ Distinct(w)
  BY DEF Sound
<1>2. Sound(v)
  BY <1>1 DEF Sound, Settled, Rest, Distinct
<1>3. ASSUME Owned(w) PROVE Owned(v)
  <2>1. \A s : Rightful(w, s) => Rightful(v, s)
    BY DEF Settled, Rightful
  <2> QED
    BY <1>3, <2>1 DEF Owned, Settled
<1>4. ASSUME Calm(w) PROVE Calm(v)
  BY <1>4 DEF Calm, Settled, Rest, Fallen
<1> QED
  BY <1>2, <1>3, <1>4 DEF Follows, Settled

(* Carriers.                                                                      *)
LEMMA CarriersOf ==
  ASSUME NEW w, Sound(w), NEW f \in Flags
  PROVE  /\ w.flag[f] \in FlagState /\ w.flag[f].carrier \in Pid \cup {-1}
         /\ w.flag[f].status = "carried" <=> w.flag[f].carrier \in Pid
         /\ w.flag[f].carrier \in Pid <=> w.flag[f].carrier # -1
         /\ w.flag[f].carrier # -1 =>
              /\ w.flag[f].carrier \in Used(w) /\ w.flag[f].carrier \in Alive(w)
              /\ w.player[w.flag[f].carrier].carriedFlag = Kind(w.flag[f].carrier, f)
              /\ HasFlag(w, w.flag[f].carrier) /\ w.player[w.flag[f].carrier].who \in Person
<1>1. w.flag[f] \in FlagState /\ w.flag[f].carrier \in Pid \cup {-1}
  BY DEF Sound, Worlds, FlagState
<1>2. w.flag[f].carrier \in Pid <=> w.flag[f].carrier # -1
  BY <1>1, Sides
<1>3. /\ w.flag[f].status = "carried" <=> w.flag[f].carrier # -1
      /\ w.flag[f].carrier # -1 =>
              /\ w.flag[f].carrier \in Alive(w)
              /\ w.player[w.flag[f].carrier].carriedFlag = Kind(w.flag[f].carrier, f)
  BY DEF Sound, Held
<1>4. w.flag[f].carrier \in Alive(w) => w.flag[f].carrier \in Used(w)
  BY DEF Alive
<1>5. \A p : Kind(p, f) # "none"
  BY DEF Kind
<1>6. \A p \in Used(w) : w.player[p].who \in Person
  BY PlayersOf DEF Sound
<1> QED
  BY <1>1, <1>2, <1>3, <1>4, <1>5, <1>6 DEF HasFlag

LEMMA DropFollows ==
  ASSUME rules \in Settings, NEW w, Sound(w), NEW p \in Used(w)
  PROVE  LET v == DropFlagIfAny(w, p) IN
         /\ Follows(w, v) /\ Settled(w, v) /\ Alive(v) = Alive(w)
         /\ ~HasFlag(v, p) /\ \A f \in Flags : v.flag[f].carrier # p
         /\ v.player = [w.player EXCEPT ![p].carriedFlag = "none"]
<1> DEFINE v == DropFlagIfAny(w, p)
<1>0. /\ w \in Worlds /\ Held(w) /\ p \in Pid /\ w.player[p] \in Player /\ w.player[p] # None
      /\ \A q \in Used(w) : q \in Pid /\ w.player[q] \in Player
  BY PlayersOf DEF Sound
<1>1. CASE ~HasFlag(w, p)
  <2>1. v = w
    BY <1>1 DEF DropFlagIfAny
  <2>2. Settled(w, w)
    BY <1>0 DEF Settled, Rest, Fallen
  <2>3. \A f \in Flags : w.flag[f].carrier # p
    BY <1>1, CarriersOf, <1>0, Sides
  <2>4. w.player = [w.player EXCEPT ![p].carriedFlag = "none"]
    <3>1. w.player \in [Pid -> Player \cup {None}] /\ w.player[p].carriedFlag = "none"
      BY <1>0, <1>1 DEF Worlds, HasFlag
    <3> QED
      BY <1>0, <3>1 DEF Player
  <2> QED
    BY <1>1, <2>1, <2>2, <2>3, <2>4, NothingFollows
<1>2. CASE HasFlag(w, p)
  <2> DEFINE f == CHOOSE f \in CarriedBy(w, p) : TRUE
             P == [w.player EXCEPT ![p].carriedFlag = "none"]
             F == [w.flag EXCEPT ![f] = Dropped(w.flag[f])]
  <2>1. f \in Flags /\ w.flag[f].carrier = p /\ CarriedBy(w, p) # {}
    BY <1>0, <1>2 DEF Held, CarriedBy
  <2>2. \A g \in Flags : g # f => w.flag[g].carrier # p
    BY <1>0, <2>1, Sides DEF Held
  <2>3. v = [w EXCEPT !.player = P, !.flag = F]
    BY <1>0, <1>2, <2>1 DEF DropFlagIfAny, Worlds
  <2>4. /\ P \in [Pid -> Player \cup {None}]
        /\ P[p] \in Player /\ P[p].carriedFlag = "none" /\ P[p].who = w.player[p].who
        /\ P[p].infected = w.player[p].infected /\ P[p].dead = w.player[p].dead
        /\ \A q \in Pid : q # p => P[q] = w.player[q]
    BY <1>0 DEF Worlds, Player
  <2> HIDE DEF f
  <2>5. /\ Dropped(w.flag[f]) \in FlagState /\ Dropped(w.flag[f]).carrier = -1
        /\ Dropped(w.flag[f]).status = "dropped"
    BY <2>1, CarriersOf DEF Dropped, FlagState
  <2>6. /\ F \in [Flags -> FlagState] /\ F[f] = Dropped(w.flag[f])
        /\ \A g \in Flags : g # f => F[g] = w.flag[g]
    BY <1>0, <2>1, <2>5 DEF Worlds
  <2> HIDE DEF P, F, v
  <2>7. /\ v \in Worlds /\ v.player = P /\ v.flag = F /\ Rest(w, v)
        /\ v.rock = w.rock /\ v.db = w.db
    <3>1. /\ w \in Worlds /\ P \in [Pid -> Player \cup {None}] /\ F \in [Flags -> FlagState]
          /\ v = [w EXCEPT !.player = P, !.flag = F]
      BY <1>0, <2>3, <2>4, <2>6
    <3> QED
      BY <3>1 DEF Worlds, Rest
  <2>8. Used(v) = Used(w) /\ Alive(v) = Alive(w)
    <3>1. P[p] # None
      BY <2>4, Names
    <3>2. \A q \in Pid : v.player[q] # None <=> w.player[q] # None
      BY <1>0, <2>4, <2>7, <3>1
    <3>3. \A q \in Pid : v.player[q].dead = w.player[q].dead
      BY <2>4, <2>7
    <3>4. Used(v) = Used(w)
      BY <3>2 DEF Used
    <3> QED
      BY <1>0, <3>3, <3>4 DEF Alive
  <2>9. Settled(w, v)
    <3>1. w.flag[f] # AtBase
      BY <1>0, <2>1, Sides DEF AtBase
    <3>2. Fallen(w, v)
      BY <2>5, <2>6, <2>7, <3>1 DEF Fallen
    <3>3. \A q \in Used(w) : /\ v.player[q].who = w.player[q].who
                             /\ v.player[q].infected = w.player[q].infected
                             /\ HasFlag(v, q) => HasFlag(w, q)
      BY <1>0, <2>4, <2>7 DEF HasFlag
    <3> QED
      BY <2>7, <2>8, <3>2, <3>3 DEF Settled
  <2>10. Held(v)
    <3>1. v.failed \in {"none", "oldVotes"}
      BY <1>0, <2>7 DEF Held, Rest
    <3>2. ASSUME NEW g \in Flags
          PROVE  /\ (v.flag[g].carrier # -1) = (v.flag[g].status = "carried")
                 /\ v.flag[g].carrier # -1 =>
                      /\ v.flag[g].carrier \in Alive(v)
                      /\ v.player[v.flag[g].carrier].carriedFlag = Kind(v.flag[g].carrier, g)
      <4>1. CASE g = f
        BY <2>1, <2>5, <2>6, <2>7, <4>1
      <4>2. CASE g # f
        <5>1. v.flag[g] = w.flag[g] /\ w.flag[g].carrier # p
          BY <2>2, <2>6, <2>7, <4>2
        <5>2. w.flag[g].carrier \in Pid => v.player[w.flag[g].carrier] = w.player[w.flag[g].carrier]
          BY <2>4, <2>7, <5>1
        <5> QED
          BY <5>1, <5>2, CarriersOf, <2>8
      <4> QED
        BY <4>1, <4>2
    <3>3. \A g, h \in Flags : v.flag[g].carrier = v.flag[h].carrier /\ g # h => v.flag[g].carrier = -1
      BY <1>0, <2>5, <2>6, <2>7 DEF Held
    <3>4. ASSUME NEW q \in Used(v), HasFlag(v, q) PROVE \E g \in Flags : v.flag[g].carrier = q
      <4>1. q # p /\ v.player[q] = w.player[q] /\ q \in Used(w) /\ HasFlag(w, q)
        BY <1>0, <2>4, <2>7, <2>8, <3>4 DEF HasFlag
      <4>2. PICK g \in Flags : w.flag[g].carrier = q
        BY <1>0, <4>1 DEF Held
      <4>3. g # f
        BY <2>1, <4>1, <4>2
      <4> QED
        BY <2>6, <2>7, <4>2, <4>3
    <3> QED
      BY <3>1, <3>2, <3>3, <3>4 DEF Held
  <2>11. Lower(w, v)
    <3>1. v.score = w.score
      BY <2>7 DEF Rest
    <3>2. ASSUME NEW g \in Flags, g # f PROVE HolderIn(v, g) = HolderIn(w, g)
      <4>1. v.flag[g] = w.flag[g] /\ w.flag[g].carrier # p
        BY <2>2, <2>6, <2>7, <3>2
      <4>2. w.flag[g].status = "carried" => v.player[w.flag[g].carrier] = w.player[w.flag[g].carrier]
        BY <2>4, <2>7, <4>1, CarriersOf
      <4> QED
        BY <4>1, <4>2 DEF HolderIn
    <3>3. HolderIn(w, f) \in Person /\ HolderIn(v, f) = "ground"
      <4>1. w.flag[f].status = "carried" /\ w.player[p].who \in Person
        BY <1>0, <2>1, CarriersOf, Sides
      <4> QED
        BY <2>1, <2>5, <2>6, <2>7, <4>1 DEF HolderIn
    <3> QED
      BY <3>1, <3>2, <3>3 DEF Lower
  <2>13. Follows(w, v)
    BY <2>9, <2>10, <2>11, SettledFollows
  <2>14. ~HasFlag(v, p) /\ \A g \in Flags : v.flag[g].carrier # p
    <3>1. v.flag[f].carrier # p
      BY <1>0, <2>5, <2>6, <2>7, Sides
    <3> QED
      BY <2>2, <2>4, <2>6, <2>7, <3>1 DEF HasFlag
  <2> QED
    BY <2>7, <2>8, <2>9, <2>13, <2>14 DEF v, P
<1> QED
  BY <1>1, <1>2

(* What keeps the carriers and who they are keeps the flags.                      *)
LEMMA CarriersKeep ==
  ASSUME NEW w, Held(w), NEW v, v.failed \in {"none", "oldVotes"},
         \A f \in Flags : v.flag[f].carrier = w.flag[f].carrier /\ v.flag[f].status = w.flag[f].status,
         \A p \in Alive(w) : HasFlag(w, p) =>
           p \in Alive(v) /\ v.player[p].carriedFlag = w.player[p].carriedFlag
                          /\ v.player[p].who = w.player[p].who,
         \A p \in Used(v) : HasFlag(v, p) => p \in Used(w) /\ HasFlag(w, p)
  PROVE  Held(v) /\ \A f \in Flags : HolderIn(v, f) = HolderIn(w, f)
<1>0. \A p, f : Kind(p, f) # "none"
  BY DEF Kind
<1>1. ASSUME NEW f \in Flags
      PROVE  /\ (v.flag[f].carrier # -1) = (v.flag[f].status = "carried")
             /\ v.flag[f].carrier # -1 =>
                  /\ v.flag[f].carrier \in Alive(v)
                  /\ v.player[v.flag[f].carrier].carriedFlag = Kind(v.flag[f].carrier, f)
                  /\ v.player[v.flag[f].carrier].who = w.player[v.flag[f].carrier].who
  <2>1. /\ (w.flag[f].carrier # -1) = (w.flag[f].status = "carried")
        /\ w.flag[f].carrier # -1 =>
             /\ w.flag[f].carrier \in Alive(w)
             /\ w.player[w.flag[f].carrier].carriedFlag = Kind(w.flag[f].carrier, f)
    BY DEF Held
  <2> QED
    BY <1>0, <2>1 DEF HasFlag
<1>2. \A f, g \in Flags : v.flag[f].carrier = v.flag[g].carrier /\ f # g => v.flag[f].carrier = -1
  BY DEF Held
<1>3. \A p \in Used(v) : HasFlag(v, p) => \E f \in Flags : v.flag[f].carrier = p
  BY DEF Held
<1> QED
  BY <1>1, <1>2, <1>3 DEF Held, HolderIn

(* The same for a world with the same people, where only those without flags die. *)
LEMMA PeopleKeep ==
  ASSUME NEW w, Sound(w), NEW v \in Worlds, v.flag = w.flag, v.failed = w.failed,
         v.score = w.score, Len(v.maprot) <= Cardinality(rules.maps), Used(v) = Used(w),
         \A p \in Used(w) : /\ v.player[p].who = w.player[p].who
                            /\ v.player[p].carriedFlag = w.player[p].carriedFlag
                            /\ v.player[p].dead => w.player[p].dead \/ ~HasFlag(w, p)
  PROVE  Sound(v) /\ Lower(w, v)
<1>1. Held(w) /\ Distinct(w)
  BY DEF Sound
<1>2. Held(v) /\ \A f \in Flags : HolderIn(v, f) = HolderIn(w, f)
  <2>1. v.failed \in {"none", "oldVotes"}
    BY <1>1 DEF Held
  <2>2. \A p \in Alive(w) : HasFlag(w, p) =>
           p \in Alive(v) /\ v.player[p].carriedFlag = w.player[p].carriedFlag
                          /\ v.player[p].who = w.player[p].who
    BY DEF Alive
  <2>3. \A p \in Used(v) : HasFlag(v, p) => p \in Used(w) /\ HasFlag(w, p)
    BY DEF HasFlag
  <2> QED
    BY <1>1, <2>1, <2>2, <2>3, CarriersKeep
<1>3. Distinct(v)
  BY <1>1 DEF Distinct
<1> QED
  BY <1>2, <1>3 DEF Sound, Lower

--------------------------------------------------------------------------------
(* Deaths.                                                                        *)

(* Who carries no flag and is dead, or will be.                                   *)
Idle(w, p) == ~HasFlag(w, p) /\ \A f \in Flags : w.flag[f].carrier # p

Died(w, p) == [w EXCEPT !.player[p].dead = TRUE]

LEMMA DiesFollows ==
  ASSUME rules \in Settings, NEW w, Sound(w), NEW p \in Used(w), Idle(w, p),
         NEW v, v = Died(w, p)
  PROVE  /\ Follows(w, v) /\ Settled(w, v) /\ v.flag = w.flag /\ Idle(v, p)
         /\ p \notin Alive(v)
         /\ v.player = [w.player EXCEPT ![p].dead = TRUE]
<1> DEFINE P == [w.player EXCEPT ![p].dead = TRUE]
<1>0. /\ w \in Worlds /\ Held(w) /\ p \in Pid /\ w.player[p] \in Player /\ w.player[p] # None
      /\ \A q \in Used(w) : q \in Pid /\ w.player[q] \in Player
      /\ Len(w.maprot) <= Cardinality(rules.maps)
  BY PlayersOf DEF Sound
<1>1. /\ P \in [Pid -> Player \cup {None}]
      /\ P[p] \in Player /\ P[p].carriedFlag = w.player[p].carriedFlag /\ P[p].who = w.player[p].who
      /\ P[p].infected = w.player[p].infected /\ P[p].dead = TRUE
      /\ \A q \in Pid : q # p => P[q] = w.player[q]
  BY <1>0 DEF Worlds, Player
<1>2. v = [w EXCEPT !.player = P]
  BY <1>0 DEF Worlds, Died
<1> HIDE DEF P
<1>3. /\ v \in Worlds /\ v.player = P /\ v.flag = w.flag /\ Rest(w, v)
      /\ v.rock = w.rock /\ v.db = w.db
  BY <1>0, <1>1, <1>2 DEF Worlds, Rest
<1>4. Used(v) = Used(w) /\ Alive(v) = Alive(w) \ {p}
  <2>1. P[p] # None
    BY <1>1, Names
  <2>2. \A q \in Pid : v.player[q] # None <=> w.player[q] # None
    BY <1>0, <1>1, <1>3, <2>1
  <2>3. Used(v) = Used(w)
    BY <2>2 DEF Used
  <2>4. \A q \in Used(w) : v.player[q].dead <=> w.player[q].dead \/ q = p
    BY <1>0, <1>1, <1>3
  <2> QED
    BY <2>3, <2>4 DEF Alive
<1>5. Settled(w, v)
  <2>1. \A q \in Used(w) : /\ v.player[q].who = w.player[q].who
                           /\ v.player[q].infected = w.player[q].infected
                           /\ HasFlag(v, q) => HasFlag(w, q)
    BY <1>0, <1>1, <1>3 DEF HasFlag
  <2> QED
    BY <1>3, <1>4, <2>1 DEF Settled, Fallen
<1>6. Sound(v) /\ Lower(w, v)
  <2>1. v.failed = w.failed /\ v.score = w.score /\ Len(v.maprot) <= Cardinality(rules.maps)
    BY <1>0, <1>3 DEF Rest
  <2>2. \A q \in Used(w) : /\ v.player[q].who = w.player[q].who
                           /\ v.player[q].carriedFlag = w.player[q].carriedFlag
                           /\ v.player[q].dead => w.player[q].dead \/ ~HasFlag(w, q)
    BY <1>0, <1>1, <1>3 DEF Idle
  <2> QED
    BY <1>3, <1>4, <2>1, <2>2, PeopleKeep
<1>7. Follows(w, v)
  BY <1>3, <1>5, <1>6, SettledFollows DEF Sound
<1>8. Idle(v, p) /\ p \notin Alive(v)
  BY <1>1, <1>3, <1>4 DEF Idle, HasFlag
<1> QED
  BY <1>3, <1>5, <1>7, <1>8 DEF P

LEMMA SettledTwice ==
  ASSUME NEW u, NEW v, NEW w, Settled(u, v), Settled(v, w)
  PROVE  Settled(u, w)
BY DEF Settled, Rest, Fallen

LEMMA ResetFollows ==
  ASSUME rules \in Settings, NEW w, Sound(w), NEW p \in Used(w), NEW v, v = ResetPlayer(w, p)
  PROVE  /\ Follows(w, v) /\ Settled(w, v) /\ Idle(v, p) /\ p \notin Alive(v)
<1> DEFINE u == DropFlagIfAny(w, p)
<1>1. /\ Follows(w, u) /\ Settled(w, u) /\ Idle(u, p)
  BY DropFollows DEF Idle
<1>2. v = Died(u, p)
  BY Zenon DEF ResetPlayer, Died
<1>3. Sound(u) /\ p \in Used(u)
  BY <1>1 DEF Follows, Settled
<1> HIDE DEF u
<1>4. /\ Follows(u, v) /\ Settled(u, v) /\ Idle(v, p) /\ p \notin Alive(v)
  BY <1>1, <1>2, <1>3, DiesFollows
<1> QED
  BY <1>1, <1>4, FollowsTwice, SettledTwice

LEMMA KillFollows ==
  ASSUME rules \in Settings, NEW w, Sound(w), Calm(w), NEW p \in Alive(w), NEW v \in KillPlayer(w, p)
  PROVE  Follows(w, v)
<1> DEFINE u == DropFlagIfAny(w, p)
           x == [u EXCEPT !.db = [pid |-> p, who |-> u.player[p].who]]
<1>0. p \in Used(w) /\ ~w.over
  BY DEF Alive, Calm
<1>1. Follows(w, u) /\ Settled(w, u) /\ Idle(u, p)
  BY <1>0, DropFollows DEF Idle
<1>2. Sound(u) /\ p \in Used(u) /\ u \in Worlds /\ ~u.over
  BY <1>0, <1>1 DEF Follows, Settled, Rest
<1>3. CASE v = ResetPlayer(u, p)
  <2> HIDE DEF u
  <2> QED
    BY <1>1, <1>2, <1>3, ResetFollows, FollowsTwice
<1>4. CASE v = ResetPlayer(x, p)
  <2> HIDE DEF u
  <2>1. u.player[p].who \in Person /\ p \in Pid
    BY <1>2, PlayersOf
  <2>2. [pid |-> p, who |-> u.player[p].who] \in Owner
    BY <2>1, Names
  <2>3. /\ x \in Worlds /\ x.player = u.player /\ x.flag = u.flag /\ x.rock = u.rock /\ Rest(u, x)
        /\ x.db = [pid |-> p, who |-> u.player[p].who]
    BY <1>2, <2>2 DEF Worlds, Rest
  <2> HIDE DEF x
  <2>4. Used(x) = Used(u)
    BY <2>3 DEF Used
  <2>5. Sound(x) /\ Lower(u, x)
    BY <1>2, <2>3, <2>4, PeopleKeep DEF Rest, Sound
  <2>6. Owned(u) => Owned(x)
    <3>1. \A s : Rightful(u, s) => Rightful(x, s)
      BY <2>3, <2>4 DEF Rightful
    <3>2. Rightful(x, x.db)
      BY <1>2, <2>3, <2>4 DEF Rightful
    <3> QED
      BY <2>3, <2>4, <3>1, <3>2 DEF Owned
  <2>7. Follows(u, x)
    BY <1>2, <2>3, <2>5, <2>6 DEF Follows, Calm, Rest
  <2>8. Follows(x, v)
    BY <1>2, <1>4, <2>4, <2>5, ResetFollows
  <2> QED
    BY <1>1, <2>7, <2>8, FollowsTwice
<1>5. v = ResetPlayer(u, p) \/ v = ResetPlayer(x, p)
  BY DEF KillPlayer
<1> QED
  BY <1>3, <1>4, <1>5

LEMMA DamageFollows ==
  ASSUME rules \in Settings, NEW w, Sound(w), Calm(w), NEW p \in Used(w), NEW v \in DamagePlayer(w, p)
  PROVE  Follows(w, v)
<1>1. v = w \/ (p \in Alive(w) /\ v \in KillPlayer(w, p))
  BY DEF DamagePlayer, Alive
<1> QED
  BY <1>1, NothingFollows, KillFollows

LEMMA IdleStays ==
  ASSUME NEW w, NEW v, Settled(w, v), NEW p \in Used(w), Idle(w, p), p # -1
  PROVE  Idle(v, p) /\ p \in Used(v) /\ (p \notin Alive(w) => p \notin Alive(v))
BY DEF Settled, Fallen, Idle

--------------------------------------------------------------------------------
(* Players that leave and change places.                                          *)

(* The same people in the same places with the same flags, and others in charge.  *)
Alike(w, v) ==
  /\ v \in Worlds /\ Rest(w, v) /\ v.flag = w.flag
  /\ Used(v) = Used(w)
  /\ \A p \in Used(w) : /\ v.player[p].who = w.player[p].who
                        /\ v.player[p].dead = w.player[p].dead
                        /\ v.player[p].carriedFlag = w.player[p].carriedFlag

LEMMA AlikeKeeps ==
  ASSUME NEW w, NEW v, Alike(w, v)
  PROVE  /\ Alive(v) = Alive(w)
         /\ Sound(w) => Sound(v) /\ Lower(w, v)
         /\ \A p \in Used(w) : HasFlag(v, p) <=> HasFlag(w, p)
<1>1. ASSUME Sound(w) PROVE Sound(v) /\ Lower(w, v)
  <2>1. /\ v \in Worlds /\ v.flag = w.flag /\ v.failed = w.failed /\ v.score = w.score
        /\ Len(v.maprot) <= Cardinality(rules.maps) /\ Used(v) = Used(w)
    BY <1>1 DEF Alike, Rest, Sound
  <2>2. \A p \in Used(w) : /\ v.player[p].who = w.player[p].who
                           /\ v.player[p].carriedFlag = w.player[p].carriedFlag
                           /\ v.player[p].dead => w.player[p].dead \/ ~HasFlag(w, p)
    BY DEF Alike
  <2> QED
    BY <1>1, <2>1, <2>2, PeopleKeep
<1>2. Alive(v) = Alive(w)
  BY DEF Alike, Alive
<1> QED
  BY <1>1, <1>2 DEF Alike, HasFlag

(* Whose something is, renamed.                                                   *)
LEMMA RenamedOwner ==
  ASSUME rules \in Settings, NEW map, \A p \in DOMAIN map : map[p] \in Pid,
         NEW s \in Owner \cup {None}
  PROVE  /\ Renamed(s, map) \in Owner \cup {None}
         /\ Renamed(s, map) = None <=> s = None
         /\ s # None =>
              /\ Renamed(s, map).who = s.who
              /\ Renamed(s, map).pid = IF s.pid \in DOMAIN map THEN map[s.pid] ELSE s.pid
<1>1. CASE s = None
  BY <1>1 DEF Renamed
<1>2. CASE s # None
  <2>1. s \in Owner /\ None \notin Owner
    BY <1>2, Names
  <2>2. CASE s.pid \in DOMAIN map
    <3>1. Renamed(s, map) = [pid |-> map[s.pid], who |-> s.who]
      BY <2>1, <2>2 DEF Renamed, Owner
    <3>2. [pid |-> map[s.pid], who |-> s.who] \in Owner
      BY <2>1, <2>2 DEF Owner
    <3> QED
      BY <2>1, <2>2, <3>1, <3>2
  <2>3. CASE s.pid \notin DOMAIN map
    BY <2>1, <2>3 DEF Renamed
  <2> QED
    BY <2>2, <2>3
<1> QED
  BY <1>1, <1>2

LEMMA Embedded ==
  ASSUME rules \in Settings, NEW w \in Worlds, NEW map, \A p \in DOMAIN map : map[p] \in Pid,
         NEW v, v = EmbeddedPids(w, map)
  PROVE  /\ Alike(w, v)
         /\ \A r \in Rocket : v.rock[r] = Renamed(w.rock[r], map)
         /\ v.db = Renamed(w.db, map)
         /\ \A p \in Used(w) : v.player[p].infected = Renamed(w.player[p].infected, map)
<1> DEFINE R == [r \in Rocket |-> Renamed(w.rock[r], map)]
           D == Renamed(w.db, map)
           P == [p \in Pid |-> IF w.player[p] = None THEN None
                               ELSE [w.player[p] EXCEPT !.infected = Renamed(w.player[p].infected, map)]]
<1>1. v = [w EXCEPT !.rock = R, !.db = D, !.player = P]
  BY DEF EmbeddedPids, Worlds
<1>2. R \in [Rocket -> Owner \cup {None}] /\ D \in Owner \cup {None}
  <2>1. \A r \in Rocket : w.rock[r] \in Owner \cup {None}
    BY DEF Worlds
  <2>2. w.db \in Owner \cup {None}
    BY DEF Worlds
  <2>3. \A r \in Rocket : Renamed(w.rock[r], map) \in Owner \cup {None}
    BY <2>1, RenamedOwner
  <2> QED
    BY <2>2, <2>3, RenamedOwner
<1>3. ASSUME NEW p \in Pid, w.player[p] # None
      PROVE  /\ P[p] \in Player /\ P[p] # None
             /\ P[p].who = w.player[p].who /\ P[p].dead = w.player[p].dead
             /\ P[p].carriedFlag = w.player[p].carriedFlag
             /\ P[p].infected = Renamed(w.player[p].infected, map)
  <2>1. w.player[p] \in Player /\ w.player[p].infected \in Owner \cup {None}
    BY <1>3 DEF Worlds, Player
  <2>2. Renamed(w.player[p].infected, map) \in Owner \cup {None}
    BY <2>1, RenamedOwner
  <2>3. P[p] = [w.player[p] EXCEPT !.infected = Renamed(w.player[p].infected, map)]
    BY <1>3
  <2> HIDE DEF P
  <2>4. P[p] \in Player
    BY <2>1, <2>2, <2>3 DEF Player
  <2> QED
    BY <2>1, <2>3, <2>4, Names DEF Player
<1>4. P \in [Pid -> Player \cup {None}] /\ \A p \in Pid : P[p] = None <=> w.player[p] = None
  <2>1. \A p \in Pid : P[p] \in Player \cup {None} /\ (P[p] = None <=> w.player[p] = None)
    <3>1. \A p \in Pid : w.player[p] = None => P[p] = None
      OBVIOUS
    <3> HIDE DEF P
    <3> QED
      BY <1>3, <3>1
  <2> QED
    BY <2>1
<1>5. \A r \in Rocket : R[r] = Renamed(w.rock[r], map)
  OBVIOUS
<1> HIDE DEF P, R, D
<1>6. /\ v \in Worlds /\ v.player = P /\ v.rock = R /\ v.db = D /\ v.flag = w.flag /\ Rest(w, v)
  BY <1>1, <1>2, <1>4 DEF Worlds, Rest
<1>7. Used(v) = Used(w) /\ \A p \in Used(w) : p \in Pid /\ w.player[p] # None
  BY <1>4, <1>6 DEF Used
<1> QED
  BY <1>3, <1>5, <1>6, <1>7 DEF Alike, D

(* Nothing is owned from a place.                                                 *)
NoneOf(w, p) ==
  /\ \A r \in Rocket : w.rock[r] # None => w.rock[r].pid # p
  /\ w.db # None => w.db.pid # p
  /\ \A q \in Used(w) : w.player[q].infected # None => w.player[q].infected.pid # p

(* removePlayer, up to the flag of the player, and after it.                      *)
Bereft(w, p) ==
  LET v == [w EXCEPT !.rock = [r \in Rocket |-> IF @[r] # None /\ @[r].pid = p THEN None
                                                ELSE @[r]]]
  IN  IF maxplayers = MAX_PLAYERS THEN v
      ELSE [v EXCEPT !.db = Disowned(@, p),
                     !.player = [q \in Pid |->
                       IF w.player[q] = None THEN None
                       ELSE [w.player[q] EXCEPT !.infected = Disowned(@, p)]]]

Emptied(w, p) == [ResetCarrierData(w, p) EXCEPT !.player[p] = None]

LEMMA RemovedIs ==
  ASSUME NEW w, NEW p
  PROVE  RemovePlayer(w, p) = Emptied(DropFlagIfAny(Bereft(w, p), p), p)
BY DEF RemovePlayer, Emptied, Bereft

LEMMA DisownedOwner ==
  ASSUME rules \in Settings, NEW p \in Pid, maxplayers < MAX_PLAYERS, NEW s \in Owner \cup {None}
  PROVE  /\ Disowned(s, p) \in Owner \cup {None}
         /\ Disowned(s, p) = None <=> s = None
         /\ s # None => /\ Disowned(s, p).who = s.who /\ Disowned(s, p).pid # p
                        /\ Disowned(s, p).pid \in {s.pid, Gone}
<1>1. CASE s = None
  BY <1>1 DEF Disowned
<1>2. CASE s # None
  <2>1. s \in Owner /\ None \notin Owner /\ Gone # p
    BY <1>2, Names
  <2>2. CASE s.pid = p
    <3>1. Disowned(s, p) = [pid |-> Gone, who |-> s.who]
      BY <1>2, <2>1, <2>2 DEF Disowned, Owner
    <3>2. [pid |-> Gone, who |-> s.who] \in Owner
      BY <2>1 DEF Owner
    <3> QED
      BY <2>1, <3>1, <3>2
  <2>3. CASE s.pid # p
    BY <1>2, <2>1, <2>3 DEF Disowned
  <2> QED
    BY <2>2, <2>3
<1> QED
  BY <1>1, <1>2

LEMMA BereftKeeps ==
  ASSUME rules \in Settings, NEW w \in Worlds, NEW p \in Pid, NEW v, v = Bereft(w, p)
  PROVE  /\ Alike(w, v)
         /\ maxplayers < MAX_PLAYERS => NoneOf(v, p)
         /\ Owned(w) => Owned(v)
         /\ Calm(w) => Calm(v)
<1> DEFINE R == [r \in Rocket |-> IF w.rock[r] # None /\ w.rock[r].pid = p THEN None ELSE w.rock[r]]
           D == Disowned(w.db, p)
           P == [q \in Pid |-> IF w.player[q] = None THEN None
                               ELSE [w.player[q] EXCEPT !.infected = Disowned(w.player[q].infected, p)]]
<1>1. R \in [Rocket -> Owner \cup {None}] /\ \A r \in Rocket : R[r] # None => R[r] = w.rock[r] /\ R[r].pid # p
  BY DEF Worlds
<1>2. CASE maxplayers = MAX_PLAYERS
  <2>1. v = [w EXCEPT !.rock = R]
    BY <1>2 DEF Bereft
  <2> HIDE DEF R
  <2>2. v \in Worlds /\ v.player = w.player /\ v.rock = R /\ v.db = w.db /\ v.flag = w.flag /\ Rest(w, v)
    BY <1>1, <2>1 DEF Worlds, Rest
  <2>3. Used(v) = Used(w)
    BY <2>2 DEF Used
  <2>4. Alike(w, v)
    BY <2>2, <2>3 DEF Alike
  <2>5. ~(maxplayers < MAX_PLAYERS)
    BY <1>2, PlayersAssumption
  <2> QED
    BY <1>1, <2>2, <2>4, <2>5, AlikeKeeps DEF Calm, Rest, Owned
<1>3. CASE maxplayers # MAX_PLAYERS
  <2>1. maxplayers < MAX_PLAYERS
    BY <1>3, PlayersAssumption
  <2>2. v = [w EXCEPT !.rock = R, !.db = D, !.player = P]
    BY <1>3 DEF Bereft, Worlds
  <2>3. D \in Owner \cup {None} /\ (D # None => w.db # None /\ D.who = w.db.who /\ D.pid # p /\ D.pid \in {w.db.pid, Gone})
    <3>1. w.db \in Owner \cup {None}
      BY DEF Worlds
    <3> QED
      BY <2>1, <3>1, DisownedOwner
  <2>4. ASSUME NEW q \in Pid, w.player[q] # None
        PROVE  /\ P[q] \in Player /\ P[q] # None
               /\ P[q].who = w.player[q].who /\ P[q].dead = w.player[q].dead
               /\ P[q].carriedFlag = w.player[q].carriedFlag
               /\ P[q].infected # None =>
                    /\ w.player[q].infected # None /\ P[q].infected.who = w.player[q].infected.who
                    /\ P[q].infected.pid # p /\ P[q].infected.pid \in {w.player[q].infected.pid, Gone}
    <3>1. w.player[q] \in Player /\ w.player[q].infected \in Owner \cup {None}
      BY <2>4 DEF Worlds, Player
    <3>2. /\ Disowned(w.player[q].infected, p) \in Owner \cup {None}
          /\ Disowned(w.player[q].infected, p) # None =>
               /\ w.player[q].infected # None
               /\ Disowned(w.player[q].infected, p).who = w.player[q].infected.who
               /\ Disowned(w.player[q].infected, p).pid # p
               /\ Disowned(w.player[q].infected, p).pid \in {w.player[q].infected.pid, Gone}
      BY <2>1, <3>1, DisownedOwner
    <3>3. P[q] = [w.player[q] EXCEPT !.infected = Disowned(w.player[q].infected, p)]
      BY <2>4
    <3> HIDE DEF P
    <3>4. P[q] \in Player /\ P[q].infected = Disowned(w.player[q].infected, p)
      BY <3>1, <3>2, <3>3 DEF Player
    <3>5. /\ P[q] # None
          /\ P[q].who = w.player[q].who /\ P[q].dead = w.player[q].dead
          /\ P[q].carriedFlag = w.player[q].carriedFlag
      BY <3>1, <3>3, <3>4, Names DEF Player
    <3> QED
      BY <3>2, <3>4, <3>5
  <2>5. P \in [Pid -> Player \cup {None}] /\ \A q \in Pid : P[q] = None <=> w.player[q] = None
    <3>1. \A q \in Pid : w.player[q] = None => P[q] = None
      OBVIOUS
    <3>2. \A q \in Pid : P[q] \in Player \cup {None} /\ (P[q] = None <=> w.player[q] = None)
      <4> HIDE DEF P
      <4> QED
        BY <2>4, <3>1
    <3> QED
      BY <3>2
  <2> HIDE DEF P, R, D
  <2>6. /\ v \in Worlds /\ v.player = P /\ v.rock = R /\ v.db = D /\ v.flag = w.flag /\ Rest(w, v)
    BY <1>1, <2>2, <2>3, <2>5 DEF Worlds, Rest
  <2>7. Used(v) = Used(w) /\ \A q \in Used(w) : q \in Pid /\ w.player[q] # None
    BY <2>5, <2>6 DEF Used
  <2>8. Alike(w, v)
    BY <2>4, <2>6, <2>7 DEF Alike
  <2>9. NoneOf(v, p)
    BY <1>1, <2>3, <2>4, <2>6, <2>7 DEF NoneOf
  <2>10. ASSUME Owned(w) PROVE Owned(v)
    <3>1. \A s, u : u.who = s.who /\ u.pid \in {s.pid, Gone} /\ s # None /\ Rightful(w, s) => Rightful(v, u)
      BY <2>8 DEF Rightful, Alike
    <3>2. \A r \in Rocket : Rightful(v, v.rock[r])
      BY <1>1, <2>1, <2>6, <2>10, <3>1 DEF Owned, Rightful
    <3>3. Rightful(v, v.db)
      <4>1. Rightful(w, w.db)
        BY <2>1, <2>10 DEF Owned
      <4>2. v.db = None => Rightful(v, v.db)
        BY DEF Rightful
      <4> QED
        BY <2>3, <2>6, <3>1, <4>1, <4>2
    <3>4. ASSUME NEW q \in Used(v) PROVE Rightful(v, v.player[q].infected)
      <4>1. Rightful(w, w.player[q].infected)
        BY <2>1, <2>7, <2>10 DEF Owned
      <4>2. v.player[q].infected = None => Rightful(v, v.player[q].infected)
        BY DEF Rightful
      <4> QED
        BY <2>4, <2>6, <2>7, <3>1, <4>1, <4>2
    <3> QED
      BY <3>2, <3>3, <3>4 DEF Owned
  <2>11. Calm(w) => Calm(v)
    BY <1>1, <2>3, <2>6, <2>8, AlikeKeeps DEF Calm, Rest
  <2> QED
    BY <2>8, <2>9, <2>10, <2>11
<1> QED
  BY <1>2, <1>3

(* resetCarrierData changes nothing but who has carried flags.                    *)
LEMMA ForgottenFlag ==
  ASSUME NEW p \in Pid, NEW f \in FlagState
  PROVE  /\ Forgotten(f, p) \in FlagState /\ Forgotten(f, p).carrier = f.carrier
         /\ Forgotten(f, p).status = f.status /\ (f = AtBase => Forgotten(f, p) = AtBase)
<1>1. p # -1
  BY Sides
<1> QED
  BY <1>1 DEF Forgotten, FlagState, AtBase

LEMMA ForgetsCarriers ==
  ASSUME NEW w \in Worlds, NEW p \in Pid, NEW v, v = ResetCarrierData(w, p)
  PROVE  /\ v \in Worlds /\ Rest(w, v) /\ v.player = w.player /\ v.rock = w.rock /\ v.db = w.db
         /\ \A f \in Flags : /\ v.flag[f].carrier = w.flag[f].carrier
                             /\ v.flag[f].status = w.flag[f].status
                             /\ w.flag[f] = AtBase => v.flag[f] = AtBase
<1> DEFINE F == [f \in Flags |-> IF f[1] # Team(p) THEN Forgotten(w.flag[f], p) ELSE w.flag[f]]
<1>1. v = [w EXCEPT !.flag = F]
  BY DEF ResetCarrierData, Worlds
<1>2. \A f \in Flags : w.flag[f] \in FlagState
  BY DEF Worlds
<1>3. \A f \in Flags : /\ F[f] \in FlagState /\ F[f].carrier = w.flag[f].carrier
                       /\ F[f].status = w.flag[f].status
                       /\ w.flag[f] = AtBase => F[f] = AtBase
  BY <1>2, ForgottenFlag
<1>4. F \in [Flags -> FlagState]
  BY <1>3
<1> HIDE DEF F
<1>5. v \in Worlds /\ v.flag = F /\ Rest(w, v) /\ v.player = w.player /\ v.rock = w.rock /\ v.db = w.db
  BY <1>1, <1>4 DEF Worlds, Rest
<1> QED
  BY <1>3, <1>5

LEMMA ForgettingFollows ==
  ASSUME NEW w, Sound(w), NEW p \in Pid, NEW v, v = ResetCarrierData(w, p)
  PROVE  Follows(w, v) /\ Settled(w, v)
<1>0. w \in Worlds /\ Held(w)
  BY DEF Sound
<1>1. /\ v \in Worlds /\ Rest(w, v) /\ v.player = w.player /\ v.rock = w.rock /\ v.db = w.db
      /\ \A f \in Flags : /\ v.flag[f].carrier = w.flag[f].carrier
                          /\ v.flag[f].status = w.flag[f].status
                          /\ w.flag[f] = AtBase => v.flag[f] = AtBase
  BY <1>0, ForgetsCarriers
<1>2. Used(v) = Used(w) /\ Alive(v) = Alive(w) /\ \A q : HasFlag(v, q) <=> HasFlag(w, q)
  BY <1>1 DEF Used, Alive, HasFlag
<1>3. Settled(w, v)
  BY <1>1, <1>2 DEF Settled, Fallen
<1>4. Held(v) /\ \A f \in Flags : HolderIn(v, f) = HolderIn(w, f)
  <2>1. v.failed \in {"none", "oldVotes"}
    BY <1>0, <1>1 DEF Held, Rest
  <2>2. \A q \in Alive(w) : HasFlag(w, q) =>
           q \in Alive(v) /\ v.player[q].carriedFlag = w.player[q].carriedFlag
                          /\ v.player[q].who = w.player[q].who
    BY <1>1, <1>2
  <2>3. \A f \in Flags : v.flag[f].carrier = w.flag[f].carrier /\ v.flag[f].status = w.flag[f].status
    BY <1>1
  <2> QED
    BY <1>0, <1>2, <2>1, <2>2, <2>3, CarriersKeep
<1> QED
  BY <1>1, <1>3, <1>4, SettledFollows DEF Lower, Rest

LEMMA EmptiedKeeps ==
  ASSUME NEW w \in Worlds, NEW p \in Used(w), NEW v, v = Emptied(w, p)
  PROVE  /\ v \in Worlds /\ Rest(w, v) /\ Used(v) = Used(w) \ {p}
         /\ \A q \in Used(v) : v.player[q] = w.player[q]
         /\ \A f \in Flags : /\ v.flag[f].carrier = w.flag[f].carrier
                             /\ v.flag[f].status = w.flag[f].status
                             /\ w.flag[f] = AtBase => v.flag[f] = AtBase
         /\ Owned(w) /\ (maxplayers < MAX_PLAYERS => NoneOf(w, p)) => Owned(v)
         /\ Calm(w) => Calm(v)
<1> DEFINE u == ResetCarrierData(w, p)
           P == [w.player EXCEPT ![p] = None]
<1>1. p \in Pid
  BY DEF Used
<1>2. /\ u \in Worlds /\ Rest(w, u) /\ u.player = w.player /\ u.rock = w.rock /\ u.db = w.db
      /\ \A f \in Flags : /\ u.flag[f].carrier = w.flag[f].carrier
                          /\ u.flag[f].status = w.flag[f].status
                          /\ w.flag[f] = AtBase => u.flag[f] = AtBase
  BY <1>1, ForgetsCarriers
<1>3. v = [u EXCEPT !.player[p] = None]
  BY DEF Emptied
<1> HIDE DEF u
<1>4. v = [u EXCEPT !.player = P]
  BY <1>2, <1>3 DEF Worlds
<1>5. P \in [Pid -> Player \cup {None}] /\ P[p] = None /\ \A q \in Pid : q # p => P[q] = w.player[q]
  BY <1>1 DEF Worlds
<1> HIDE DEF P
<1>6. /\ v \in Worlds /\ v.player = P /\ v.flag = u.flag /\ v.rock = w.rock /\ v.db = w.db /\ Rest(w, v)
  BY <1>2, <1>4, <1>5 DEF Worlds, Rest
<1>7. Used(v) = Used(w) \ {p} /\ \A q \in Used(v) : v.player[q] = w.player[q]
  BY <1>5, <1>6 DEF Used
<1>8. ASSUME Owned(w), maxplayers < MAX_PLAYERS => NoneOf(w, p) PROVE Owned(v)
  <2>1. \A s : Rightful(w, s) /\ (s # None => s.pid # p) => Rightful(v, s)
    BY <1>7 DEF Rightful
  <2> QED
    BY <1>6, <1>7, <1>8, <2>1 DEF Owned, NoneOf
<1>9. Calm(w) => Calm(v)
  BY <1>2, <1>6, <1>7 DEF Calm, Rest, Alive
<1> QED
  BY <1>2, <1>6, <1>7, <1>8, <1>9

(* Who has left without a flag is missed by no flag.                              *)
LEMMA EmptiedFollows ==
  ASSUME NEW w, Sound(w), NEW p \in Used(w), Idle(w, p), NEW v, v = Emptied(w, p),
         maxplayers < MAX_PLAYERS => NoneOf(w, p)
  PROVE  Follows(w, v)
<1>0. w \in Worlds /\ Held(w) /\ Distinct(w) /\ Len(w.maprot) <= Cardinality(rules.maps)
  BY DEF Sound
<1>1. /\ v \in Worlds /\ Rest(w, v) /\ Used(v) = Used(w) \ {p}
      /\ \A q \in Used(v) : v.player[q] = w.player[q]
      /\ \A f \in Flags : v.flag[f].carrier = w.flag[f].carrier /\ v.flag[f].status = w.flag[f].status
      /\ Owned(w) => Owned(v)
      /\ Calm(w) => Calm(v)
  BY <1>0, EmptiedKeeps
<1>2. Held(v) /\ \A f \in Flags : HolderIn(v, f) = HolderIn(w, f)
  <2>1. v.failed \in {"none", "oldVotes"}
    BY <1>0, <1>1 DEF Held, Rest
  <2>2. \A q \in Alive(w) : HasFlag(w, q) =>
           q \in Alive(v) /\ v.player[q].carriedFlag = w.player[q].carriedFlag
                          /\ v.player[q].who = w.player[q].who
    BY <1>1 DEF Alive, Idle
  <2>3. \A q \in Used(v) : HasFlag(v, q) => q \in Used(w) /\ HasFlag(w, q)
    BY <1>1 DEF HasFlag
  <2> QED
    BY <1>0, <1>1, <2>1, <2>2, <2>3, CarriersKeep
<1>3. Distinct(v)
  BY <1>0, <1>1 DEF Distinct
<1> QED
  BY <1>0, <1>1, <1>2, <1>3 DEF Follows, Sound, Lower, Rest

LEMMA AlikeFollows ==
  ASSUME NEW w, Sound(w), NEW v, Alike(w, v), Owned(w) => Owned(v), Calm(w) => Calm(v)
  PROVE  Follows(w, v)
BY AlikeKeeps DEF Follows, Alike

LEMMA RemoveFollows ==
  ASSUME rules \in Settings, NEW w, Sound(w), NEW p \in Used(w), NEW v, v = RemovePlayer(w, p)
  PROVE  Follows(w, v) /\ Used(v) = Used(w) \ {p} /\ \A q \in Used(v) : v.player[q].who = w.player[q].who
<1> DEFINE b == Bereft(w, p)
           d == DropFlagIfAny(b, p)
<1>0. w \in Worlds /\ p \in Pid
  BY PlayersOf DEF Sound
<1>1. /\ Alike(w, b) /\ (maxplayers < MAX_PLAYERS => NoneOf(b, p))
      /\ Owned(w) => Owned(b)
      /\ Calm(w) => Calm(b)
  BY <1>0, BereftKeeps
<1>2. v = Emptied(d, p)
  BY RemovedIs
<1> HIDE DEF b
<1>3. Follows(w, b) /\ Sound(b) /\ p \in Used(b)
  BY <1>1, AlikeFollows DEF Follows, Alike
<1>4. Follows(b, d) /\ Settled(b, d) /\ Idle(d, p)
  BY <1>3, DropFollows DEF Idle
<1> HIDE DEF d
<1>5. Sound(d) /\ p \in Used(d) /\ d \in Worlds
  BY <1>3, <1>4 DEF Follows, Settled
<1>6. maxplayers < MAX_PLAYERS => NoneOf(d, p)
  BY <1>1, <1>4 DEF NoneOf, Settled
<1>7. Follows(d, v)
  BY <1>2, <1>4, <1>5, <1>6, EmptiedFollows
<1>8. Used(v) = Used(d) \ {p} /\ \A q \in Used(v) : v.player[q] = d.player[q]
  BY <1>2, <1>5, EmptiedKeeps
<1>9. Used(v) = Used(w) \ {p} /\ \A q \in Used(v) : v.player[q].who = w.player[q].who
  BY <1>1, <1>4, <1>8 DEF Alike, Settled
<1> QED
  BY <1>3, <1>4, <1>7, <1>9, FollowsTwice

LEMMA ForgetAlike ==
  ASSUME NEW w \in Worlds, NEW who, NEW v, v = Forget(w, who)
  PROVE  /\ Alike(w, v) /\ v.player = w.player
         /\ Owned(w) => Owned(v)
         /\ Calm(w) => Calm(v)
<1> DEFINE B == [f \in Flags |-> w.by[f] \ {who}]
<1>1. v = [w EXCEPT !.by = B]
  BY DEF Forget, Worlds
<1>2. B \in [Flags -> SUBSET Person]
  BY DEF Worlds
<1> HIDE DEF B
<1>3. /\ v \in Worlds /\ v.player = w.player /\ v.flag = w.flag /\ v.rock = w.rock /\ v.db = w.db
      /\ Rest(w, v)
  BY <1>1, <1>2 DEF Worlds, Rest
<1>4. Alike(w, v)
  BY <1>3 DEF Alike, Used
<1>5. \A s : Rightful(w, s) => Rightful(v, s)
  BY <1>3 DEF Rightful, Used
<1>6. Owned(w) => Owned(v)
  BY <1>3, <1>4, <1>5 DEF Owned, Alike
<1> QED
  BY <1>3, <1>4, <1>6, AlikeKeeps DEF Calm, Rest

LEMMA ForgetFollows ==
  ASSUME NEW w, Sound(w), NEW who
  PROVE  Follows(w, Forget(w, who)) /\ Used(Forget(w, who)) = Used(w)
<1>1. w \in Worlds
  BY DEF Sound
<1>2. /\ Alike(w, Forget(w, who))
      /\ Owned(w) => Owned(Forget(w, who))
      /\ Calm(w) => Calm(Forget(w, who))
  BY <1>1, ForgetAlike
<1> QED
  BY <1>2, AlikeFollows DEF Alike

--------------------------------------------------------------------------------
(* Moves and swaps.                                                               *)

(* One who is about to move: without a flag, and dead.                            *)
Laid(w, u, p) == Follows(w, u) /\ Settled(w, u) /\ Idle(u, p) /\ p \notin Alive(u)

LEMMA LaysDown ==
  ASSUME rules \in Settings, NEW w, Sound(w), NEW p \in Used(w), Idle(w, p),
         NEW u, u = IF w.player[p].dead THEN w ELSE ResetPlayer(w, p)
  PROVE  Laid(w, u, p)
<1>1. CASE w.player[p].dead
  <2>1. Settled(w, w)
    BY DEF Settled, Rest, Fallen, Sound
  <2>2. p \notin Alive(w)
    BY <1>1 DEF Alive
  <2> QED
    BY <1>1, <2>1, <2>2, NothingFollows DEF Laid
<1>2. CASE ~w.player[p].dead
  <2>1. u = ResetPlayer(w, p)
    BY <1>2
  <2> QED
    BY <2>1, ResetFollows DEF Laid
<1> QED
  BY <1>1, <1>2

(* The player of place f in place t as well.                                      *)
Doubled(u, f, t) == [u EXCEPT !.player[t] = u.player[f]]

LEMMA DoubledIs ==
  ASSUME NEW u \in Worlds, NEW f \in Used(u), NEW t \in Pid \ Used(u), NEW d, d = Doubled(u, f, t)
  PROVE  /\ d \in Worlds /\ Rest(u, d) /\ d.flag = u.flag /\ d.rock = u.rock /\ d.db = u.db
         /\ Used(d) = Used(u) \cup {t} /\ d.player[t] = u.player[f]
         /\ \A p \in Used(u) : d.player[p] = u.player[p]
<1> DEFINE P == [u.player EXCEPT ![t] = u.player[f]]
<1>1. f \in Pid /\ u.player[f] # None
  BY DEF Used
<1>2. d = [u EXCEPT !.player = P]
  BY DEF Doubled, Worlds
<1>3. /\ P \in [Pid -> Player \cup {None}] /\ P[t] = u.player[f]
      /\ \A p \in Pid : p # t => P[p] = u.player[p]
  BY <1>1 DEF Worlds
<1> HIDE DEF P
<1>4. /\ d \in Worlds /\ d.player = P /\ Rest(u, d) /\ d.flag = u.flag /\ d.rock = u.rock /\ d.db = u.db
  BY <1>2, <1>3 DEF Worlds, Rest
<1>5. Used(d) = Used(u) \cup {t} /\ \A p \in Used(u) : d.player[p] = u.player[p]
  BY <1>1, <1>3, <1>4 DEF Used
<1> QED
  BY <1>3, <1>4, <1>5

LEMMA MovedIs ==
  ASSUME NEW w, NEW f, NEW t
  PROVE  LET v == DropFlagIfAny(w, f)
             u == IF v.player[f].dead THEN v ELSE ResetPlayer(v, f)
         IN  MovePlayer(w, f, t) = Forget(RemovePlayer(EmbeddedPids(Doubled(u, f, t), [p \in {f} |-> t]), f),
                                          w.player[f].who)
BY DEF MovePlayer, Doubled, ChangeEmbeddedPids

LEMMA MoveFollows ==
  ASSUME rules \in Settings, NEW w, Sound(w), NEW f \in Used(w), NEW t \in Pid \ Used(w),
         NEW z, z = MovePlayer(w, f, t)
  PROVE  Follows(w, z) /\ Used(z) = (Used(w) \ {f}) \cup {t}
<1> DEFINE v == DropFlagIfAny(w, f)
           u == IF v.player[f].dead THEN v ELSE ResetPlayer(v, f)
           d == Doubled(u, f, t)
           map == [p \in {f} |-> t]
           x == EmbeddedPids(d, map)
           b == Bereft(x, f)
           e == Emptied(b, f)
<1>0. f \in Pid /\ f # t /\ -1 \notin Pid
  BY Sides DEF Used
<1>1. Follows(w, v) /\ Settled(w, v) /\ Idle(v, f)
  BY DropFollows DEF Idle
<1>2. Laid(v, u, f)
  <2>1. Sound(v) /\ f \in Used(v)
    BY <1>1 DEF Follows, Settled
  <2> HIDE DEF v
  <2> QED
    BY <1>1, <2>1, LaysDown
<1>3. z = Forget(RemovePlayer(x, f), w.player[f].who)
  BY MovedIs, Zenon
<1> HIDE DEF v, u
<1>4. Follows(w, u) /\ Settled(w, u) /\ Idle(u, f) /\ f \notin Alive(u)
  BY <1>1, <1>2, FollowsTwice, SettledTwice DEF Laid
<1>5. /\ u \in Worlds /\ Held(u) /\ Distinct(u) /\ Len(u.maprot) <= Cardinality(rules.maps)
      /\ Used(u) = Used(w) /\ f \in Used(u) /\ t \in Pid \ Used(u)
  BY <1>4 DEF Follows, Settled, Sound
<1>6. /\ d \in Worlds /\ Rest(u, d) /\ d.flag = u.flag /\ d.rock = u.rock /\ d.db = u.db
      /\ Used(d) = Used(u) \cup {t} /\ d.player[t] = u.player[f]
      /\ \A p \in Used(u) : d.player[p] = u.player[p]
  BY <1>5, DoubledIs
<1> HIDE DEF d
<1>m. DOMAIN map = {f} /\ map[f] = t
  OBVIOUS
<1>7. /\ Alike(d, x)
      /\ \A r \in Rocket : x.rock[r] = Renamed(d.rock[r], map)
      /\ x.db = Renamed(d.db, map)
      /\ \A p \in Used(d) : x.player[p].infected = Renamed(d.player[p].infected, map)
  <2>1. \A p \in DOMAIN map : map[p] \in Pid
    OBVIOUS
  <2> HIDE DEF map
  <2> QED
    BY <1>6, <2>1, Embedded
<1> HIDE DEF map, x
<1>8. x \in Worlds /\ Used(x) = Used(u) \cup {t} /\ f \in Used(x)
  BY <1>5, <1>6, <1>7 DEF Alike
<1>9. ASSUME Owned(u) PROVE Owned(x)
  <2> SUFFICES ASSUME maxplayers < MAX_PLAYERS PROVE Owned(x)
    BY DEF Owned
  <2>1. Gone \notin Pid
    BY Names
  <2>2. ASSUME NEW s \in Owner \cup {None}, Rightful(u, s) PROVE Rightful(x, Renamed(s, map))
    <3>0. \A p \in DOMAIN map : map[p] \in Pid
      BY <1>m
    <3>1. CASE s = None
      BY <3>0, <3>1, RenamedOwner DEF Rightful
    <3>2. CASE s # None
      <4>1. /\ Renamed(s, map).who = s.who
            /\ Renamed(s, map).pid = IF s.pid \in {f} THEN t ELSE s.pid
        BY <1>m, <3>0, <3>2, RenamedOwner
      <4>2. CASE s.pid = f
        <5>1. u.player[f].who = s.who
          BY <1>0, <2>1, <2>2, <3>2, <4>2 DEF Rightful
        <5>2. x.player[t].who = s.who
          BY <1>6, <1>7, <5>1 DEF Alike
        <5> QED
          BY <1>8, <4>1, <4>2, <5>2 DEF Rightful
      <4>3. CASE s.pid # f
        <5>1. s.pid = Gone \/ (s.pid \in Used(u) /\ u.player[s.pid].who = s.who)
          BY <2>2, <3>2 DEF Rightful
        <5>2. s.pid \in Used(u) => x.player[s.pid].who = u.player[s.pid].who
          BY <1>6, <1>7 DEF Alike
        <5> QED
          BY <1>8, <4>1, <4>3, <5>1, <5>2 DEF Rightful
      <4> QED
        BY <4>2, <4>3
    <3> QED
      BY <3>1, <3>2
  <2>3. \A r \in Rocket : Rightful(x, x.rock[r])
    <3>1. \A r \in Rocket : u.rock[r] \in Owner \cup {None} /\ Rightful(u, u.rock[r])
      BY <1>5, <1>9 DEF Owned, Worlds
    <3> QED
      BY <1>6, <1>7, <2>2, <3>1
  <2>4. Rightful(x, x.db)
    <3>1. u.db \in Owner \cup {None} /\ Rightful(u, u.db)
      BY <1>5, <1>9 DEF Owned, Worlds
    <3> QED
      BY <1>6, <1>7, <2>2, <3>1
  <2>5. ASSUME NEW p \in Used(x) PROVE Rightful(x, x.player[p].infected)
    <3> DEFINE q == IF p = t THEN f ELSE p
    <3>1. q \in Used(u) /\ d.player[p] = u.player[q]
      BY <1>5, <1>6, <1>8
    <3> HIDE DEF q
    <3>2. u.player[q].infected \in Owner \cup {None} /\ Rightful(u, u.player[q].infected)
      BY <1>5, <1>9, <3>1, PlayersOf DEF Owned
    <3>3. x.player[p].infected = Renamed(u.player[q].infected, map)
      BY <1>6, <1>7, <1>8, <3>1
    <3> QED
      BY <2>2, <3>2, <3>3
  <2> QED
    BY <2>3, <2>4, <2>5 DEF Owned
<1>10. ASSUME Calm(u) PROVE Calm(x)
  <2> SUFFICES ASSUME x.over PROVE Calm(x)
    BY DEF Calm
  <2>1. u.over
    BY <1>6, <1>7 DEF Alike, Rest
  <2>2. /\ Alive(u) = {} /\ \A g \in Flags : u.flag[g] = AtBase
        /\ u.score = [k \in {0, 1} |-> 0]
        /\ u.db = None /\ \A r \in Rocket : u.rock[r] = None
    BY <1>10, <2>1 DEF Calm
  <2>3. Alive(x) = {}
    <3>1. \A p \in Used(u) : u.player[p].dead
      BY <2>2 DEF Alive
    <3>2. \A p \in Used(x) : x.player[p].dead
      BY <1>5, <1>6, <1>7, <1>8, <3>1 DEF Alike
    <3> QED
      BY <3>2 DEF Alive
  <2>4. x.flag = u.flag /\ x.score = u.score
    BY <1>6, <1>7 DEF Alike, Rest
  <2>5. x.db = None /\ \A r \in Rocket : x.rock[r] = None
    <3>1. Renamed(None, map) = None
      BY DEF Renamed
    <3> QED
      BY <1>6, <1>7, <2>2, <3>1
  <2> QED
    BY <2>2, <2>3, <2>4, <2>5 DEF Calm
<1>11. /\ Alike(x, b) /\ (maxplayers < MAX_PLAYERS => NoneOf(b, f))
       /\ Owned(x) => Owned(b)
       /\ Calm(x) => Calm(b)
  BY <1>0, <1>8, BereftKeeps
<1>12. RemovePlayer(x, f) = e
  <2>1. RemovePlayer(x, f) = Emptied(DropFlagIfAny(b, f), f)
    BY RemovedIs
  <2>2. ~HasFlag(b, f)
    BY <1>4, <1>5, <1>6, <1>7, <1>8, <1>11 DEF Alike, HasFlag, Idle
  <2>3. DropFlagIfAny(b, f) = b
    BY <2>2 DEF DropFlagIfAny
  <2> QED
    BY <2>1, <2>3
<1> HIDE DEF b
<1>13. b \in Worlds /\ f \in Used(b) /\ Used(b) = Used(u) \cup {t}
  BY <1>8, <1>11 DEF Alike
<1>14. /\ e \in Worlds /\ Rest(b, e) /\ Used(e) = Used(b) \ {f}
       /\ \A q \in Used(e) : e.player[q] = b.player[q]
       /\ \A g \in Flags : e.flag[g].carrier = b.flag[g].carrier /\ e.flag[g].status = b.flag[g].status
       /\ Owned(b) /\ (maxplayers < MAX_PLAYERS => NoneOf(b, f)) => Owned(e)
       /\ Calm(b) => Calm(e)
  BY <1>13, EmptiedKeeps
<1> HIDE DEF e
<1>15. Used(e) = (Used(w) \ {f}) \cup {t}
  BY <1>0, <1>5, <1>13, <1>14
<1>16. Rest(u, e)
  BY <1>6, <1>7, <1>11, <1>14 DEF Alike, Rest
<1>17. /\ \A p \in Used(u) \ {f} : /\ p \in Used(e) /\ p # t
                                   /\ e.player[p].who = u.player[p].who
                                   /\ e.player[p].dead = u.player[p].dead
                                   /\ e.player[p].carriedFlag = u.player[p].carriedFlag
       /\ e.player[t].who = u.player[f].who /\ e.player[t].carriedFlag = u.player[f].carriedFlag
  BY <1>5, <1>6, <1>7, <1>8, <1>11, <1>13, <1>14, <1>15 DEF Alike
<1>18. \A g \in Flags : e.flag[g].carrier = u.flag[g].carrier /\ e.flag[g].status = u.flag[g].status
  BY <1>6, <1>7, <1>11, <1>14 DEF Alike
<1>19. Held(e) /\ \A g \in Flags : HolderIn(e, g) = HolderIn(u, g)
  <2>1. e.failed \in {"none", "oldVotes"}
    BY <1>5, <1>16 DEF Held, Rest
  <2>2. \A q \in Alive(u) : HasFlag(u, q) =>
           q \in Alive(e) /\ e.player[q].carriedFlag = u.player[q].carriedFlag
                          /\ e.player[q].who = u.player[q].who
    BY <1>4, <1>17 DEF Alive
  <2>3. \A q \in Used(e) : HasFlag(e, q) => q \in Used(u) /\ HasFlag(u, q)
    BY <1>4, <1>5, <1>15, <1>17 DEF HasFlag, Idle
  <2> QED
    BY <1>5, <1>18, <2>1, <2>2, <2>3, CarriersKeep
<1>20. Distinct(e)
  <2>1. ASSUME NEW p \in Used(e), NEW q \in Used(e), e.player[p].who = e.player[q].who PROVE p = q
    <3>1. p \in (Used(u) \ {f}) \cup {t} /\ q \in (Used(u) \ {f}) \cup {t}
      BY <1>5, <1>15
    <3> QED
      BY <1>5, <1>17, <2>1, <3>1 DEF Distinct
  <2> QED
    BY <2>1 DEF Distinct
<1>21. Follows(u, e)
  <2>1. Sound(e)
    BY <1>5, <1>14, <1>16, <1>19, <1>20 DEF Sound, Rest
  <2>2. Lower(u, e)
    BY <1>16, <1>19 DEF Lower, Rest
  <2> QED
    BY <1>9, <1>10, <1>11, <1>14, <1>16, <2>1, <2>2 DEF Follows
<1>22. Follows(e, z) /\ Used(z) = Used(e)
  <2>1. Sound(e)
    BY <1>21 DEF Follows
  <2> QED
    BY <1>3, <1>12, <2>1, ForgetFollows
<1> QED
  BY <1>4, <1>15, <1>21, <1>22, FollowsTwice

(* The players of two places, exchanged.                                          *)
Crossed(y, a, b) == [y EXCEPT !.player[a] = y.player[b], !.player[b] = y.player[a]]

LEMMA CrossedIs ==
  ASSUME NEW y \in Worlds, NEW a \in Used(y), NEW b \in Used(y), a # b, NEW s, s = Crossed(y, a, b)
  PROVE  /\ s \in Worlds /\ Rest(y, s) /\ s.flag = y.flag /\ s.rock = y.rock /\ s.db = y.db
         /\ Used(s) = Used(y) /\ s.player[a] = y.player[b] /\ s.player[b] = y.player[a]
         /\ \A p \in Used(y) : p # a /\ p # b => s.player[p] = y.player[p]
<1> DEFINE P == [y.player EXCEPT ![a] = y.player[b], ![b] = y.player[a]]
<1>1. a \in Pid /\ b \in Pid /\ y.player[a] # None /\ y.player[b] # None
  BY DEF Used
<1>2. s = [y EXCEPT !.player = P]
  BY DEF Crossed, Worlds
<1>3. /\ P \in [Pid -> Player \cup {None}] /\ P[a] = y.player[b] /\ P[b] = y.player[a]
      /\ \A p \in Pid : p # a /\ p # b => P[p] = y.player[p]
  BY <1>1 DEF Worlds
<1> HIDE DEF P
<1>4. /\ s \in Worlds /\ s.player = P /\ Rest(y, s) /\ s.flag = y.flag /\ s.rock = y.rock /\ s.db = y.db
  BY <1>2, <1>3 DEF Worlds, Rest
<1>5. Used(s) = Used(y) /\ \A p \in Used(y) : p # a /\ p # b => s.player[p] = y.player[p]
  BY <1>1, <1>3, <1>4 DEF Used
<1> QED
  BY <1>3, <1>4, <1>5

LEMMA SwappedIs ==
  ASSUME NEW w, NEW a, NEW b
  PROVE  LET v == DropFlagIfAny(DropFlagIfAny(w, a), b)
             u == ResetCarrierData(ResetCarrierData(v, a), b)
             x == IF u.player[a].dead THEN u ELSE ResetPlayer(u, a)
             y == IF x.player[b].dead THEN x ELSE ResetPlayer(x, b)
         IN  SwapPlayers(w, a, b) = Forget(Forget(
               EmbeddedPids(Crossed(y, a, b), [p \in {a, b} |-> a + b - p]),
               w.player[a].who), w.player[b].who)
BY DEF SwapPlayers, Crossed, SwapEmbeddedPids

LEMMA SwapFollows ==
  ASSUME rules \in Settings, NEW w, Sound(w), NEW a \in Used(w), NEW b \in Used(w), a # b,
         NEW z, z = SwapPlayers(w, a, b)
  PROVE  Follows(w, z) /\ Used(z) = Used(w)
<1> DEFINE v0 == DropFlagIfAny(w, a)
           v == DropFlagIfAny(v0, b)
           u0 == ResetCarrierData(v, a)
           u == ResetCarrierData(u0, b)
           x == IF u.player[a].dead THEN u ELSE ResetPlayer(u, a)
           y == IF x.player[b].dead THEN x ELSE ResetPlayer(x, b)
           s == Crossed(y, a, b)
           map == [p \in {a, b} |-> a + b - p]
           e == EmbeddedPids(s, map)
<1>0. a \in Pid /\ b \in Pid /\ -1 \notin Pid /\ a \in Nat /\ b \in Nat
  BY Sides DEF Used
<1>1. Follows(w, v0) /\ Settled(w, v0) /\ Idle(v0, a)
  BY DropFollows DEF Idle
<1>z. z = Forget(Forget(e, w.player[a].who), w.player[b].who)
  BY SwappedIs, Zenon
<1> HIDE DEF v0
<1>2. Follows(v0, v) /\ Settled(v0, v) /\ Idle(v, a) /\ Idle(v, b)
  <2>1. Sound(v0) /\ a \in Used(v0) /\ b \in Used(v0)
    BY <1>1 DEF Follows, Settled
  <2>2. Follows(v0, v) /\ Settled(v0, v) /\ Idle(v, b)
    BY <2>1, DropFollows DEF Idle
  <2> QED
    BY <1>0, <1>1, <2>1, <2>2, IdleStays
<1> HIDE DEF v
<1>3. Follows(v, u0) /\ Settled(v, u0)
  BY <1>0, <1>2, ForgettingFollows DEF Follows
<1> HIDE DEF u0
<1>4. Follows(u0, u) /\ Settled(u0, u)
  BY <1>0, <1>3, ForgettingFollows DEF Follows
<1> HIDE DEF u
<1>5. Follows(w, u) /\ Settled(w, u) /\ Settled(v, u)
  BY <1>1, <1>2, <1>3, <1>4, FollowsTwice, SettledTwice
<1>6. Idle(u, a) /\ Idle(u, b) /\ a \in Used(u) /\ b \in Used(u) /\ Sound(u)
  <2>1. a \in Used(v) /\ b \in Used(v)
    BY <1>1, <1>2 DEF Settled
  <2> QED
    BY <1>0, <1>2, <1>5, <2>1, IdleStays DEF Follows
<1>7. Laid(u, x, a)
  BY <1>6, LaysDown
<1> HIDE DEF x
<1>8. /\ Follows(u, x) /\ Settled(u, x) /\ Idle(x, a) /\ a \notin Alive(x) /\ Idle(x, b)
      /\ a \in Used(x) /\ b \in Used(x) /\ Sound(x)
  BY <1>0, <1>6, <1>7, IdleStays DEF Laid, Follows
<1>9. Laid(x, y, b)
  BY <1>8, LaysDown
<1> HIDE DEF y
<1>10. /\ Follows(x, y) /\ Settled(x, y) /\ Idle(y, a) /\ a \notin Alive(y)
       /\ Idle(y, b) /\ b \notin Alive(y)
  BY <1>0, <1>8, <1>9, IdleStays DEF Laid
<1>11. Follows(w, y) /\ Settled(w, y)
  BY <1>5, <1>8, <1>10, FollowsTwice, SettledTwice
<1>12. /\ y \in Worlds /\ Held(y) /\ Distinct(y) /\ Len(y.maprot) <= Cardinality(rules.maps)
       /\ Used(y) = Used(w) /\ a \in Used(y) /\ b \in Used(y)
  BY <1>11 DEF Follows, Settled, Sound
<1>13. /\ s \in Worlds /\ Rest(y, s) /\ s.flag = y.flag /\ s.rock = y.rock /\ s.db = y.db
       /\ Used(s) = Used(y) /\ s.player[a] = y.player[b] /\ s.player[b] = y.player[a]
       /\ \A p \in Used(y) : p # a /\ p # b => s.player[p] = y.player[p]
  BY <1>12, CrossedIs
<1> HIDE DEF s
<1>m. DOMAIN map = {a, b} /\ map[a] = b /\ map[b] = a /\ \A p \in DOMAIN map : map[p] \in Pid
  <2>1. a + b - a = b /\ a + b - b = a
    BY <1>0
  <2> QED
    BY <1>0, <2>1
<1> HIDE DEF map
<1>14. /\ Alike(s, e)
       /\ \A r \in Rocket : e.rock[r] = Renamed(s.rock[r], map)
       /\ e.db = Renamed(s.db, map)
       /\ \A p \in Used(s) : e.player[p].infected = Renamed(s.player[p].infected, map)
  BY <1>13, <1>m, Embedded
<1> HIDE DEF e
<1>15. /\ e \in Worlds /\ Used(e) = Used(y) /\ Rest(y, e) /\ e.flag = y.flag
       /\ \A p \in Used(y) \ {a, b} : /\ e.player[p].who = y.player[p].who
                                      /\ e.player[p].dead = y.player[p].dead
                                      /\ e.player[p].carriedFlag = y.player[p].carriedFlag
       /\ e.player[a].who = y.player[b].who /\ e.player[b].who = y.player[a].who
       /\ e.player[a].dead = y.player[b].dead /\ e.player[b].dead = y.player[a].dead
       /\ ~HasFlag(e, a) /\ ~HasFlag(e, b)
  <2>1. ~HasFlag(y, a) /\ ~HasFlag(y, b)
    BY <1>10 DEF Idle
  <2>2. e \in Worlds /\ Used(e) = Used(y) /\ Rest(y, e) /\ e.flag = y.flag
    BY <1>13, <1>14 DEF Alike, Rest
  <2> QED
    BY <1>12, <1>13, <1>14, <2>1, <2>2 DEF Alike, HasFlag
<1>16. Held(e) /\ \A g \in Flags : HolderIn(e, g) = HolderIn(y, g)
  <2>1. e.failed \in {"none", "oldVotes"}
    BY <1>12, <1>15 DEF Held, Rest
  <2>2. \A q \in Alive(y) : HasFlag(y, q) =>
           q \in Alive(e) /\ e.player[q].carriedFlag = y.player[q].carriedFlag
                          /\ e.player[q].who = y.player[q].who
    BY <1>10, <1>15 DEF Alive
  <2>3. \A q \in Used(e) : HasFlag(e, q) => q \in Used(y) /\ HasFlag(y, q)
    BY <1>15 DEF HasFlag
  <2> QED
    BY <1>12, <1>15, <2>1, <2>2, <2>3, CarriersKeep
<1>17. Distinct(e)
  <2>1. ASSUME NEW p \in Used(e), NEW q \in Used(e), e.player[p].who = e.player[q].who PROVE p = q
    <3> DEFINE o(k) == IF k = a THEN b ELSE IF k = b THEN a ELSE k
    <3>1. /\ o(p) \in Used(y) /\ y.player[o(p)].who = e.player[p].who
          /\ o(q) \in Used(y) /\ y.player[o(q)].who = e.player[q].who
      BY <1>12, <1>15
    <3>2. o(p) = o(q)
      <4> HIDE DEF o
      <4> QED
        BY <1>12, <2>1, <3>1 DEF Distinct
    <3> QED
      BY <3>2
  <2> QED
    BY <2>1 DEF Distinct
<1>18. ASSUME Owned(y) PROVE Owned(e)
  <2> SUFFICES ASSUME maxplayers < MAX_PLAYERS PROVE Owned(e)
    BY DEF Owned
  <2>1. Gone \notin Pid
    BY Names
  <2>2. ASSUME NEW k \in Owner \cup {None}, Rightful(y, k) PROVE Rightful(e, Renamed(k, map))
    <3>1. CASE k = None
      BY <1>m, <3>1, RenamedOwner DEF Rightful
    <3>2. CASE k # None
      <4>1. /\ Renamed(k, map).who = k.who
            /\ Renamed(k, map).pid = IF k.pid \in {a, b} THEN map[k.pid] ELSE k.pid
        BY <1>m, <3>2, RenamedOwner
      <4>2. k.pid = Gone \/ (k.pid \in Used(y) /\ y.player[k.pid].who = k.who)
        BY <2>2, <3>2 DEF Rightful
      <4>3. CASE k.pid = a
        <5>1. e.player[b].who = k.who
          BY <1>0, <1>15, <2>1, <4>2, <4>3
        <5> QED
          BY <1>12, <1>15, <1>m, <4>1, <4>3, <5>1 DEF Rightful
      <4>4. CASE k.pid = b
        <5>1. e.player[a].who = k.who
          BY <1>0, <1>15, <2>1, <4>2, <4>4
        <5> QED
          BY <1>12, <1>15, <1>m, <4>1, <4>4, <5>1 DEF Rightful
      <4>5. CASE k.pid \notin {a, b}
        BY <1>15, <4>1, <4>2, <4>5 DEF Rightful
      <4> QED
        BY <4>3, <4>4, <4>5
    <3> QED
      BY <3>1, <3>2
  <2>3. \A r \in Rocket : Rightful(e, e.rock[r])
    <3>1. \A r \in Rocket : y.rock[r] \in Owner \cup {None} /\ Rightful(y, y.rock[r])
      BY <1>12, <1>18 DEF Owned, Worlds
    <3> QED
      BY <1>13, <1>14, <2>2, <3>1
  <2>4. Rightful(e, e.db)
    <3>1. y.db \in Owner \cup {None} /\ Rightful(y, y.db)
      BY <1>12, <1>18 DEF Owned, Worlds
    <3> QED
      BY <1>13, <1>14, <2>2, <3>1
  <2>5. ASSUME NEW p \in Used(e) PROVE Rightful(e, e.player[p].infected)
    <3> DEFINE q == IF p = a THEN b ELSE IF p = b THEN a ELSE p
    <3>1. q \in Used(y) /\ s.player[p] = y.player[q]
      BY <1>12, <1>13, <1>15
    <3> HIDE DEF q
    <3>2. y.player[q].infected \in Owner \cup {None} /\ Rightful(y, y.player[q].infected)
      BY <1>12, <1>18, <3>1, PlayersOf DEF Owned
    <3>3. e.player[p].infected = Renamed(y.player[q].infected, map)
      BY <1>13, <1>14, <1>15, <3>1
    <3> QED
      BY <2>2, <3>2, <3>3
  <2> QED
    BY <2>3, <2>4, <2>5 DEF Owned
<1>19. ASSUME Calm(y) PROVE Calm(e)
  <2> SUFFICES ASSUME e.over PROVE Calm(e)
    BY DEF Calm
  <2>1. y.over
    BY <1>15 DEF Rest
  <2>2. /\ Alive(y) = {} /\ \A g \in Flags : y.flag[g] = AtBase
        /\ y.score = [k \in {0, 1} |-> 0]
        /\ y.db = None /\ \A r \in Rocket : y.rock[r] = None
    BY <1>19, <2>1 DEF Calm
  <2>3. Alive(e) = {}
    <3>1. \A p \in Used(y) : y.player[p].dead
      BY <2>2 DEF Alive
    <3>2. \A p \in Used(e) : e.player[p].dead
      BY <1>12, <1>15, <3>1
    <3> QED
      BY <3>2 DEF Alive
  <2>4. e.score = y.score
    BY <1>15 DEF Rest
  <2>5. e.db = None /\ \A r \in Rocket : e.rock[r] = None
    <3>1. Renamed(None, map) = None
      BY DEF Renamed
    <3> QED
      BY <1>13, <1>14, <2>2, <3>1
  <2> QED
    BY <1>15, <2>2, <2>3, <2>4, <2>5 DEF Calm
<1>20. Follows(y, e)
  <2>1. Sound(e)
    BY <1>12, <1>15, <1>16, <1>17 DEF Sound, Rest
  <2>2. Lower(y, e)
    BY <1>15, <1>16 DEF Lower, Rest
  <2> QED
    BY <1>15, <1>18, <1>19, <2>1, <2>2 DEF Follows
<1>21. Follows(e, z) /\ Used(z) = Used(e)
  <2> DEFINE k == Forget(e, w.player[a].who)
  <2>1. Follows(e, k) /\ Used(k) = Used(e)
    BY <1>20, ForgetFollows DEF Follows
  <2>2. z = Forget(k, w.player[b].who)
    BY <1>z
  <2> HIDE DEF k
  <2>3. Follows(k, z) /\ Used(z) = Used(k)
    BY <2>1, <2>2, ForgetFollows DEF Follows
  <2> QED
    BY <2>1, <2>3, FollowsTwice
<1> QED
  BY <1>11, <1>12, <1>15, <1>20, <1>21, FollowsTwice

--------------------------------------------------------------------------------
(* Who votes for what, and who has carried which flag.                            *)

(* The same person, who wants the same.                                           *)
Alter(x, y) == x.who = y.who /\ x.want_map_exit = y.want_map_exit /\ x.mapVote = y.mapVote

(* The same people with the same votes, in the same places, in any places, and    *)
(* with the same flags.                                                           *)
Seated(w, v) == Used(v) = Used(w) /\ \A p \in Used(w) : Alter(v.player[p], w.player[p])

Reseated(w, v) ==
  /\ \A p \in Used(v) : \E q \in Used(w) : Alter(v.player[p], w.player[q])
  /\ \A q \in Used(w) : \E p \in Used(v) : Alter(v.player[p], w.player[q])

Unmoved(w, v) == Seated(w, v) /\ v.flag = w.flag /\ v.by = w.by

(* No flag names p, but those of his team.                                        *)
Unnamed(w, p) ==
  \A f \in Flags : /\ w.flag[f].carrier # p
                   /\ f[1] # Team(p) => w.flag[f].prev # p /\ w.flag[f].prev_prev # p

LEMMA SeatedTwice ==
  ASSUME NEW u, NEW v, NEW w, Seated(u, v), Seated(v, w)
  PROVE  Seated(u, w)
BY DEF Seated, Alter

LEMMA ReseatedTwice ==
  ASSUME NEW u, NEW v, NEW w, Reseated(u, v), Reseated(v, w)
  PROVE  Reseated(u, w)
BY DEF Reseated, Alter

LEMMA SeatedReseated ==
  ASSUME NEW w, NEW v, Seated(w, v)
  PROVE  Reseated(w, v)
BY DEF Seated, Reseated

LEMMA UnmovedTwice ==
  ASSUME NEW u, NEW v, NEW w, Unmoved(u, v), Unmoved(v, w)
  PROVE  Unmoved(u, w)
BY SeatedTwice DEF Unmoved

LEMMA NothingUnmoved ==
  ASSUME NEW w
  PROVE  Unmoved(w, w) /\ Seated(w, w) /\ Reseated(w, w)
BY DEF Unmoved, Seated, Reseated, Alter

LEMMA UnmovedTraced ==
  ASSUME NEW w, NEW v, Unmoved(w, v)
  PROVE  /\ Traced(w) => Traced(v)
         /\ \A p : Unnamed(w, p) => Unnamed(v, p)
<1>1. \A f \in Flags : \A q : Named(w, f, q) => Named(v, f, q)
  BY DEF Unmoved, Seated, Alter, Named
<1>2. ASSUME Traced(w) PROVE Traced(v)
  <2> SUFFICES ASSUME NEW f \in Flags
      PROVE  LET g == v.flag[f] IN
             /\ \A q \in {g.carrier, g.prev, g.prev_prev} \ {-1} : Named(v, f, q)
             /\ g.carrier # -1 => /\ g.carrier \in Used(v) /\ v.player[g.carrier].who \in v.by[f]
                                  /\ g.prev # g.carrier /\ g.prev_prev = -1
             /\ g.prev # -1 => g.prev # g.prev_prev
    BY DEF Traced
  <2> QED
    BY <1>1, <1>2 DEF Traced, Unmoved, Seated, Alter
<1> QED
  BY <1>2 DEF Unnamed, Unmoved

(* Other fields of the players and other parts of the world.                      *)
LEMMA UnmovedIf ==
  ASSUME NEW w, NEW v, v.flag = w.flag, v.by = w.by,
         \A p \in Pid : /\ v.player[p] = None <=> w.player[p] = None
                        /\ w.player[p] # None => Alter(v.player[p], w.player[p])
  PROVE  Unmoved(w, v)
BY DEF Unmoved, Seated, Used

LEMMA SamePlayersUnmoved ==
  ASSUME NEW w, NEW v, v.player = w.player, v.flag = w.flag, v.by = w.by
  PROVE  Unmoved(w, v)
BY DEF Unmoved, Seated, Used, Alter

(* Deaths, and places in rockets, explosions and the infected.                    *)
LEMMA DiedUnmoved ==
  ASSUME NEW w \in Worlds, rules \in Settings, NEW p \in Used(w), NEW v, v = Died(w, p)
  PROVE  Unmoved(w, v) /\ v.player = [w.player EXCEPT ![p].dead = TRUE]
<1> DEFINE P == [w.player EXCEPT ![p].dead = TRUE]
<1>1. v = [w EXCEPT !.player = P]
  BY DEF Died, Worlds
<1>2. p \in Pid /\ w.player[p] \in Player
  BY PlayersOf
<1>3. /\ P[p] \in Player /\ Alter(P[p], w.player[p])
      /\ \A q \in Pid : q # p => P[q] = w.player[q]
  BY <1>2 DEF Player, Alter, Worlds
<1> HIDE DEF P
<1>4. v.player = P /\ v.flag = w.flag /\ v.by = w.by
  BY <1>1 DEF Worlds
<1>5. None \notin Player
  BY Names
<1>6. ASSUME NEW q \in Pid
      PROVE  /\ v.player[q] = None <=> w.player[q] = None
             /\ w.player[q] # None => Alter(v.player[q], w.player[q])
  BY <1>2, <1>3, <1>4, <1>5 DEF Alter
<1>7. Unmoved(w, v)
  BY <1>4, <1>6, UnmovedIf
<1> QED
  BY <1>4, <1>7 DEF P

LEMMA InfectedAlter ==
  ASSUME NEW x \in Player, NEW s
  PROVE  Alter([x EXCEPT !.infected = s], x)
BY DEF Player, Alter

(* A drop makes the carrier the previous one.                                     *)
LEMMA DropTraced ==
  ASSUME rules \in Settings, NEW w, Sound(w), NEW p \in Used(w), NEW v, v = DropFlagIfAny(w, p)
  PROVE  /\ Seated(w, v) /\ v.by = w.by
         /\ Traced(w) => Traced(v)
         /\ ~HasFlag(w, p) => v = w
<1>0. w \in Worlds /\ p \in Pid /\ w.player[p] \in Player /\ None \notin Player /\ p # -1
  BY PlayersOf, Names DEF Sound
<1>1. CASE ~HasFlag(w, p)
  <2>1. v = w
    BY <1>1 DEF DropFlagIfAny
  <2> QED
    BY <2>1, NothingUnmoved
<1>2. CASE HasFlag(w, p)
  <2> DEFINE f == CHOOSE f \in CarriedBy(w, p) : TRUE
             P == [w.player EXCEPT ![p].carriedFlag = "none"]
             F == [w.flag EXCEPT ![f] = Dropped(w.flag[f])]
  <2>1. f \in Flags /\ w.flag[f].carrier = p /\ CarriedBy(w, p) # {}
    BY <1>2 DEF Held, Sound, CarriedBy
  <2>2. v = [w EXCEPT !.player = P, !.flag = F]
    BY <1>0, <1>2, <2>1 DEF DropFlagIfAny, Worlds
  <2>3. P[p] \in Player /\ Alter(P[p], w.player[p]) /\ \A q \in Pid : q # p => P[q] = w.player[q]
    BY <1>0 DEF Worlds, Player, Alter
  <2> HIDE DEF f
  <2>4. F[f] = Dropped(w.flag[f]) /\ \A g \in Flags : g # f => F[g] = w.flag[g]
    BY <1>0, <2>1 DEF Worlds
  <2> HIDE DEF P, F
  <2>5. v.player = P /\ v.flag = F /\ v.by = w.by
    BY <1>0, <2>2 DEF Worlds
  <2>6. Used(v) = Used(w)
    BY <1>0, <2>3, <2>5 DEF Used
  <2>7. Seated(w, v)
    BY <2>3, <2>5, <2>6 DEF Seated, Alter, Used
  <2>8. \A g \in Flags : \A q : Named(w, g, q) => Named(v, g, q)
    BY <2>5, <2>7 DEF Seated, Alter, Named
  <2>9. ASSUME Traced(w) PROVE Traced(v)
    <3> SUFFICES ASSUME NEW g \in Flags
        PROVE  LET h == v.flag[g] IN
               /\ \A q \in {h.carrier, h.prev, h.prev_prev} \ {-1} : Named(v, g, q)
               /\ h.carrier # -1 => /\ h.carrier \in Used(v) /\ v.player[h.carrier].who \in v.by[g]
                                    /\ h.prev # h.carrier /\ h.prev_prev = -1
               /\ h.prev # -1 => h.prev # h.prev_prev
      BY DEF Traced
    <3> DEFINE h == v.flag[g]
               k == w.flag[g]
    <3>1. /\ \A q \in {k.carrier, k.prev, k.prev_prev} \ {-1} : Named(v, g, q)
          /\ k.carrier # -1 => /\ k.carrier \in Used(w) /\ w.player[k.carrier].who \in w.by[g]
                               /\ k.prev # k.carrier /\ k.prev_prev = -1
          /\ k.prev # -1 => k.prev # k.prev_prev
      BY <2>8, <2>9 DEF Traced
    <3>2. CASE g = f
      <4>1. h.carrier = -1 /\ h.prev = p /\ h.prev_prev = k.prev /\ k.prev # p /\ k.carrier = p
        BY <1>0, <2>1, <2>4, <2>5, <3>1, <3>2 DEF Dropped
      <4> HIDE DEF h, k
      <4> QED
        BY <3>1, <4>1 DEF h
    <3>3. CASE g # f
      <4>1. h = k
        BY <2>4, <2>5, <3>3
      <4>2. \A q \in Used(w) : v.player[q].who = w.player[q].who
        BY <2>7 DEF Seated, Alter
      <4> HIDE DEF k
      <4> QED
        BY <2>5, <2>6, <3>1, <4>1, <4>2
    <3> QED
      BY <3>2, <3>3
  <2> QED
    BY <1>2, <2>5, <2>7, <2>9
<1> QED
  BY <1>1, <1>2

LEMMA ResetUnmoved ==
  ASSUME rules \in Settings, NEW w, Sound(w), NEW p \in Used(w), NEW v, v = ResetPlayer(w, p)
  PROVE  /\ Seated(w, v) /\ v.by = w.by
         /\ Traced(w) => Traced(v)
         /\ ~HasFlag(w, p) => Unmoved(w, v)
<1> DEFINE u == DropFlagIfAny(w, p)
<1>1. /\ Seated(w, u) /\ u.by = w.by
      /\ Traced(w) => Traced(u)
      /\ ~HasFlag(w, p) => u = w
  BY DropTraced
<1>2. Follows(w, u) /\ Settled(w, u)
  BY DropFollows
<1>3. u \in Worlds /\ p \in Used(u)
  BY <1>2 DEF Settled
<1>4. v = Died(u, p)
  BY Zenon DEF ResetPlayer, Died
<1> HIDE DEF u
<1>5. Unmoved(u, v)
  BY <1>3, <1>4, DiedUnmoved
<1>6. Traced(u) => Traced(v)
  BY <1>5, UnmovedTraced
<1>7. Seated(w, v)
  BY <1>1, <1>5, SeatedTwice DEF Unmoved
<1> QED
  BY <1>1, <1>5, <1>6, <1>7 DEF Unmoved

(* Renamed places and shooters who have left.                                     *)
LEMMA EmbeddedUnmoved ==
  ASSUME rules \in Settings, NEW w \in Worlds, NEW map, \A p \in DOMAIN map : map[p] \in Pid,
         NEW v, v = EmbeddedPids(w, map)
  PROVE  Unmoved(w, v)
<1>1. Alike(w, v)
  BY Embedded
<1>2. v.by = w.by /\ v.player = [p \in Pid |-> IF w.player[p] = None THEN None
                                  ELSE [w.player[p] EXCEPT !.infected = Renamed(@, map)]]
  BY DEF EmbeddedPids, Worlds
<1>3. \A p \in Used(w) : w.player[p] \in Player /\ p \in Pid /\ w.player[p] # None
  BY DEF Worlds, Used
<1>4. \A p \in Used(w) : v.player[p] = [w.player[p] EXCEPT !.infected = Renamed(@, map)]
  BY <1>2, <1>3
<1>5. ASSUME NEW p \in Used(w) PROVE Alter(v.player[p], w.player[p])
  <2>1. Alter([w.player[p] EXCEPT !.infected = Renamed(w.player[p].infected, map)], w.player[p])
    BY <1>3, InfectedAlter
  <2> QED
    BY <1>4, <2>1
<1> QED
  BY <1>1, <1>2, <1>5 DEF Unmoved, Seated, Alike

LEMMA BereftUnmoved ==
  ASSUME rules \in Settings, NEW w \in Worlds, NEW p \in Pid, NEW v, v = Bereft(w, p)
  PROVE  Unmoved(w, v)
<1> DEFINE R == [r \in Rocket |-> IF w.rock[r] # None /\ w.rock[r].pid = p THEN None ELSE w.rock[r]]
           P == [q \in Pid |-> IF w.player[q] = None THEN None
                               ELSE [w.player[q] EXCEPT !.infected = Disowned(w.player[q].infected, p)]]
<1>1. Alike(w, v)
  BY BereftKeeps
<1>2. CASE maxplayers = MAX_PLAYERS
  <2>1. v = [w EXCEPT !.rock = R]
    BY <1>2 DEF Bereft
  <2> HIDE DEF R
  <2>2. v.player = w.player /\ v.flag = w.flag /\ v.by = w.by
    BY <2>1 DEF Worlds
  <2> QED
    BY <2>2, SamePlayersUnmoved
<1>3. CASE maxplayers # MAX_PLAYERS
  <2>1. v = [w EXCEPT !.rock = R, !.db = Disowned(w.db, p), !.player = P]
    BY <1>3 DEF Bereft, Worlds
  <2>2. \A q \in Used(w) : w.player[q] \in Player /\ q \in Pid /\ w.player[q] # None
    BY DEF Worlds, Used
  <2>3. \A q \in Used(w) : P[q] = [w.player[q] EXCEPT !.infected = Disowned(@, p)]
    BY <2>2
  <2>4. \A q \in Used(w) : Alter(P[q], w.player[q])
    BY <2>2, <2>3, InfectedAlter
  <2> HIDE DEF R, P
  <2>5. v.player = P /\ v.by = w.by
    BY <2>1 DEF Worlds
  <2> QED
    BY <1>1, <2>4, <2>5 DEF Unmoved, Seated, Alike
<1> QED
  BY <1>2, <1>3

(* resetCarrierData forgets a player without a flag.                              *)
LEMMA ForgottenTwice ==
  ASSUME NEW p \in Pid, NEW f \in FlagState, NEW x, x = Forgotten(f, p)
  PROVE  /\ x.carrier = f.carrier /\ x.prev \in {-1, f.prev} /\ x.prev_prev \in {-1, f.prev_prev}
         /\ (f.prev # -1 => f.prev # f.prev_prev) =>
              /\ x.prev # p /\ x.prev_prev # p
              /\ x.prev # -1 => x.prev # x.prev_prev
<1>1. p # -1
  BY Sides
<1>2. CASE f.prev = p
  BY <1>1, <1>2 DEF Forgotten, FlagState
<1>3. CASE f.prev # p /\ f.prev_prev = p
  BY <1>1, <1>3 DEF Forgotten, FlagState
<1>4. CASE f.prev # p /\ f.prev_prev # p
  BY <1>4 DEF Forgotten
<1> QED
  BY <1>2, <1>3, <1>4

LEMMA ForgettingTraced ==
  ASSUME NEW w \in Worlds, NEW p \in Pid, NEW v, v = ResetCarrierData(w, p)
  PROVE  /\ Seated(w, v) /\ v.by = w.by
         /\ Traced(w) => Traced(v)
         /\ \A q \in Pid : Unnamed(w, q) => Unnamed(v, q)
         /\ Traced(w) /\ (\A f \in Flags : w.flag[f].carrier # p) => Unnamed(v, p)
<1> DEFINE F == [f \in Flags |-> IF f[1] # Team(p) THEN Forgotten(w.flag[f], p) ELSE w.flag[f]]
<1>1. v = [w EXCEPT !.flag = F]
  BY DEF ResetCarrierData, Worlds
<1>2. \A f \in Flags : F[f] = IF f[1] # Team(p) THEN Forgotten(w.flag[f], p) ELSE w.flag[f]
  OBVIOUS
<1> HIDE DEF F
<1>3. v.flag = F /\ v.player = w.player /\ v.by = w.by
  BY <1>1 DEF Worlds
<1>4. Seated(w, v)
  BY <1>3 DEF Seated, Used, Alter
<1>5. ASSUME NEW f \in Flags
      PROVE  /\ F[f].carrier = w.flag[f].carrier
             /\ F[f].prev \in {-1, w.flag[f].prev} /\ F[f].prev_prev \in {-1, w.flag[f].prev_prev}
             /\ (w.flag[f].prev # -1 => w.flag[f].prev # w.flag[f].prev_prev) =>
                  /\ f[1] # Team(p) => F[f].prev # p /\ F[f].prev_prev # p
                  /\ F[f].prev # -1 => F[f].prev # F[f].prev_prev
  <2>1. w.flag[f] \in FlagState
    BY DEF Worlds
  <2>2. CASE f[1] # Team(p)
    <3>1. F[f] = Forgotten(w.flag[f], p)
      BY <1>2, <2>2
    <3> QED
      BY <2>1, <3>1, ForgottenTwice
  <2>3. CASE f[1] = Team(p)
    BY <1>2, <2>3
  <2> QED
    BY <2>2, <2>3
<1>6. \A f \in Flags : \A q : Named(w, f, q) => Named(v, f, q)
  BY <1>3, <1>4 DEF Seated, Named
<1>7. ASSUME Traced(w) PROVE Traced(v)
  <2> SUFFICES ASSUME NEW g \in Flags
      PROVE  LET h == v.flag[g] IN
             /\ \A q \in {h.carrier, h.prev, h.prev_prev} \ {-1} : Named(v, g, q)
             /\ h.carrier # -1 => /\ h.carrier \in Used(v) /\ v.player[h.carrier].who \in v.by[g]
                                  /\ h.prev # h.carrier /\ h.prev_prev = -1
             /\ h.prev # -1 => h.prev # h.prev_prev
    BY DEF Traced
  <2> DEFINE h == v.flag[g]
             k == w.flag[g]
  <2>1. /\ \A q \in {k.carrier, k.prev, k.prev_prev} \ {-1} : Named(v, g, q)
        /\ k.carrier # -1 => /\ k.carrier \in Used(v) /\ v.player[k.carrier].who \in v.by[g]
                             /\ k.prev # k.carrier /\ k.prev_prev = -1
        /\ k.prev # -1 => k.prev # k.prev_prev
    BY <1>3, <1>4, <1>6, <1>7 DEF Traced, Seated
  <2>2. /\ h.carrier = k.carrier /\ h.prev \in {-1, k.prev} /\ h.prev_prev \in {-1, k.prev_prev}
        /\ h.prev # -1 => h.prev # h.prev_prev
    BY <1>3, <1>5, <2>1
  <2>3. k.carrier # -1 => h.prev # h.carrier
    BY <2>1, <2>2
  <2> HIDE DEF h, k
  <2> QED
    BY <2>1, <2>2, <2>3 DEF h
<1>8. ASSUME NEW q \in Pid, Unnamed(w, q) PROVE Unnamed(v, q)
  <2>1. q # -1
    BY Sides
  <2> QED
    BY <1>3, <1>5, <1>8, <2>1 DEF Unnamed
<1>9. ASSUME Traced(w), \A f \in Flags : w.flag[f].carrier # p PROVE Unnamed(v, p)
  <2>1. \A f \in Flags : w.flag[f].prev # -1 => w.flag[f].prev # w.flag[f].prev_prev
    BY <1>9 DEF Traced
  <2> QED
    BY <1>3, <1>5, <1>9, <2>1 DEF Unnamed
<1> QED
  BY <1>3, <1>4, <1>7, <1>8, <1>9

(* Who has left is unknown to the flags, but those of his team.                   *)
LEMMA EmptiedTraced ==
  ASSUME NEW w \in Worlds, NEW p \in Used(w), \A f \in Flags : w.flag[f].carrier # p,
         NEW v, v = Emptied(w, p)
  PROVE  /\ v.by = w.by
         /\ Traced(w) => Traced(v)
         /\ \A q \in Pid : Unnamed(w, q) => Unnamed(v, q)
<1> DEFINE u == ResetCarrierData(w, p)
           P == [w.player EXCEPT ![p] = None]
<1>1. p \in Pid
  BY DEF Used
<1>2. u \in Worlds /\ u.player = w.player
  BY <1>1, ForgetsCarriers
<1>3. /\ Seated(w, u) /\ u.by = w.by
      /\ Traced(w) => Traced(u)
      /\ \A q \in Pid : Unnamed(w, q) => Unnamed(u, q)
      /\ Traced(w) => Unnamed(u, p)
  BY <1>1, ForgettingTraced
<1>4. v = [u EXCEPT !.player[p] = None]
  BY DEF Emptied
<1> HIDE DEF u
<1>5. v = [u EXCEPT !.player = P]
  BY <1>2, <1>4 DEF Worlds
<1>6. P[p] = None /\ \A q \in Pid : q # p => P[q] = w.player[q]
  BY <1>1 DEF Worlds
<1> HIDE DEF P
<1>7. v.player = P /\ v.flag = u.flag /\ v.by = u.by
  BY <1>2, <1>5 DEF Worlds
<1>8. \A q \in Used(u) : q # p => q \in Used(v) /\ v.player[q] = u.player[q]
  BY <1>2, <1>6, <1>7 DEF Used
<1>9. ASSUME Traced(u), Unnamed(u, p) PROVE Traced(v)
  <2> SUFFICES ASSUME NEW g \in Flags
      PROVE  LET h == v.flag[g] IN
             /\ \A q \in {h.carrier, h.prev, h.prev_prev} \ {-1} : Named(v, g, q)
             /\ h.carrier # -1 => /\ h.carrier \in Used(v) /\ v.player[h.carrier].who \in v.by[g]
                                  /\ h.prev # h.carrier /\ h.prev_prev = -1
             /\ h.prev # -1 => h.prev # h.prev_prev
    BY DEF Traced
  <2> DEFINE h == u.flag[g]
  <2>1. /\ \A q \in {h.carrier, h.prev, h.prev_prev} \ {-1} : Named(u, g, q)
        /\ h.carrier # -1 => /\ h.carrier \in Used(u) /\ u.player[h.carrier].who \in u.by[g]
                             /\ h.prev # h.carrier /\ h.prev_prev = -1
        /\ h.prev # -1 => h.prev # h.prev_prev
    BY <1>9 DEF Traced
  <2>2. h.carrier # p /\ (g[1] # Team(p) => h.prev # p /\ h.prev_prev # p)
    BY <1>9 DEF Unnamed
  <2>3. v.flag[g] = h
    BY <1>7
  <2> HIDE DEF h
  <2>4. \A q \in {h.carrier, h.prev, h.prev_prev} \ {-1} : Named(v, g, q)
    BY <1>7, <1>8, <2>1, <2>2 DEF Named
  <2> QED
    BY <1>7, <1>8, <2>1, <2>2, <2>3, <2>4
<1> QED
  BY <1>3, <1>7, <1>9 DEF Unnamed

(* A player whom no flag names is not who has carried flags.                      *)
LEMMA ForgetTraced ==
  ASSUME NEW w \in Worlds, NEW who, \A q \in Used(w) : w.player[q].who = who => Unnamed(w, q),
         NEW v, v = Forget(w, who)
  PROVE  /\ Seated(w, v)
         /\ Traced(w) => Traced(v)
         /\ \A q : Unnamed(w, q) => Unnamed(v, q)
<1> DEFINE B == [f \in Flags |-> w.by[f] \ {who}]
<1>1. v = [w EXCEPT !.by = B]
  BY DEF Forget, Worlds
<1>2. \A f \in Flags : B[f] = w.by[f] \ {who}
  OBVIOUS
<1> HIDE DEF B
<1>3. v.player = w.player /\ v.flag = w.flag /\ v.by = B
  BY <1>1 DEF Worlds
<1>4. Seated(w, v)
  BY <1>3 DEF Seated, Used, Alter
<1>5. ASSUME Traced(w) PROVE Traced(v)
  <2> SUFFICES ASSUME NEW g \in Flags
      PROVE  LET h == v.flag[g] IN
             /\ \A q \in {h.carrier, h.prev, h.prev_prev} \ {-1} : Named(v, g, q)
             /\ h.carrier # -1 => /\ h.carrier \in Used(v) /\ v.player[h.carrier].who \in v.by[g]
                                  /\ h.prev # h.carrier /\ h.prev_prev = -1
             /\ h.prev # -1 => h.prev # h.prev_prev
    BY DEF Traced
  <2> DEFINE h == w.flag[g]
  <2>1. /\ \A q \in {h.carrier, h.prev, h.prev_prev} \ {-1} : Named(w, g, q)
        /\ h.carrier # -1 => /\ h.carrier \in Used(w) /\ w.player[h.carrier].who \in w.by[g]
                             /\ h.prev # h.carrier /\ h.prev_prev = -1
        /\ h.prev # -1 => h.prev # h.prev_prev
    BY <1>5 DEF Traced
  <2>2. \A q \in Used(w) : w.player[q].who = who =>
          h.carrier # q /\ (g[1] # Team(q) => h.prev # q /\ h.prev_prev # q)
    BY DEF Unnamed
  <2>3. v.flag[g] = h /\ v.by[g] = w.by[g] \ {who} /\ Used(v) = Used(w) /\ v.player = w.player
    BY <1>2, <1>3, <1>4 DEF Seated
  <2> HIDE DEF h
  <2>4. \A q \in {h.carrier, h.prev, h.prev_prev} \ {-1} : Named(v, g, q)
    <3> SUFFICES ASSUME NEW q, q = h.carrier \/ q = h.prev \/ q = h.prev_prev, Named(w, g, q)
        PROVE  Named(v, g, q)
      BY <2>1
    <3>1. CASE g[1] = Team(q)
      BY <3>1 DEF Named
    <3>2. CASE g[1] # Team(q)
      BY <2>2, <2>3, <3>2 DEF Named
    <3> QED
      BY <3>1, <3>2
  <2> QED
    BY <2>1, <2>2, <2>3, <2>4
<1> QED
  BY <1>3, <1>4, <1>5 DEF Unnamed

(* Players in other places: the flags name nobody there.                          *)
LEMMA PlacesTraced ==
  ASSUME NEW w, NEW v, NEW T, v.flag = w.flag, v.by = w.by,
         \A p \in T : Unnamed(w, p),
         \A p \in Used(w) \ T : p \in Used(v) /\ v.player[p].who = w.player[p].who
  PROVE  /\ Traced(w) => Traced(v)
         /\ \A p : Unnamed(w, p) => Unnamed(v, p)
<1>1. ASSUME Traced(w) PROVE Traced(v)
  <2> SUFFICES ASSUME NEW g \in Flags
      PROVE  LET h == v.flag[g] IN
             /\ \A q \in {h.carrier, h.prev, h.prev_prev} \ {-1} : Named(v, g, q)
             /\ h.carrier # -1 => /\ h.carrier \in Used(v) /\ v.player[h.carrier].who \in v.by[g]
                                  /\ h.prev # h.carrier /\ h.prev_prev = -1
             /\ h.prev # -1 => h.prev # h.prev_prev
    BY DEF Traced
  <2> DEFINE h == w.flag[g]
  <2>1. /\ \A q \in {h.carrier, h.prev, h.prev_prev} \ {-1} : Named(w, g, q)
        /\ h.carrier # -1 => /\ h.carrier \in Used(w) /\ w.player[h.carrier].who \in w.by[g]
                             /\ h.prev # h.carrier /\ h.prev_prev = -1
        /\ h.prev # -1 => h.prev # h.prev_prev
    BY <1>1 DEF Traced
  <2>2. \A q \in T : h.carrier # q /\ (g[1] # Team(q) => h.prev # q /\ h.prev_prev # q)
    BY DEF Unnamed
  <2>3. v.flag[g] = h /\ v.by[g] = w.by[g]
    OBVIOUS
  <2> HIDE DEF h
  <2>4. \A q \in {h.carrier, h.prev, h.prev_prev} \ {-1} : Named(v, g, q)
    <3> SUFFICES ASSUME NEW q, q = h.carrier \/ q = h.prev \/ q = h.prev_prev, Named(w, g, q)
        PROVE  Named(v, g, q)
      BY <2>1
    <3>1. CASE g[1] = Team(q)
      BY <3>1 DEF Named
    <3>2. CASE g[1] # Team(q)
      BY <2>2, <2>3, <3>2 DEF Named
    <3> QED
      BY <3>1, <3>2
  <2> QED
    BY <2>1, <2>2, <2>3, <2>4
<1> QED
  BY <1>1 DEF Unnamed

(* A place that is free is unknown to the flags, but to those of its team.        *)
LEMMA FreeUnnamed ==
  ASSUME NEW w, Traced(w), NEW t \in Pid \ Used(w)
  PROVE  Unnamed(w, t)
<1>1. t # -1
  BY Sides
<1>2. ASSUME NEW f \in Flags
      PROVE  /\ w.flag[f].carrier # t
             /\ f[1] # Team(t) => w.flag[f].prev # t /\ w.flag[f].prev_prev # t
  BY <1>1 DEF Traced, Named
<1> QED
  BY <1>2 DEF Unnamed

LEMMA LaysDownUnmoved ==
  ASSUME rules \in Settings, NEW w, Sound(w), NEW p \in Used(w), Idle(w, p),
         NEW u, u = IF w.player[p].dead THEN w ELSE ResetPlayer(w, p)
  PROVE  Unmoved(w, u)
<1>1. CASE w.player[p].dead
  BY <1>1, NothingUnmoved
<1>2. CASE ~w.player[p].dead
  <2>1. u = ResetPlayer(w, p) /\ ~HasFlag(w, p)
    BY <1>2 DEF Idle
  <2> QED
    BY <2>1, ResetUnmoved
<1> QED
  BY <1>1, <1>2

(* What a change of teams keeps: the world is sound, all are there with their     *)
(* votes, and the flags name those who have carried them.                         *)
Keeps(w, v) == Follows(w, v) /\ Reseated(w, v) /\ (Traced(w) => Traced(v))

LEMMA NothingKeeps ==
  ASSUME NEW w, Sound(w)
  PROVE  Keeps(w, w)
BY NothingFollows, NothingUnmoved DEF Keeps

LEMMA KeepsTwice ==
  ASSUME NEW u, NEW v, NEW w, Keeps(u, v), Keeps(v, w)
  PROVE  Keeps(u, w)
BY FollowsTwice, ReseatedTwice DEF Keeps

LEMMA MoveKeeps ==
  ASSUME rules \in Settings, NEW w, Sound(w), NEW f \in Used(w), NEW t \in Pid \ Used(w),
         NEW z, z = MovePlayer(w, f, t)
  PROVE  Keeps(w, z)
<1> DEFINE v == DropFlagIfAny(w, f)
           u == IF v.player[f].dead THEN v ELSE ResetPlayer(v, f)
           d == Doubled(u, f, t)
           map == [p \in {f} |-> t]
           x == EmbeddedPids(d, map)
           b == Bereft(x, f)
           e == Emptied(b, f)
           who == w.player[f].who
<1>0. f \in Pid /\ f # t
  BY DEF Used
<1>1. Follows(w, v) /\ Settled(w, v) /\ Idle(v, f)
  BY DropFollows DEF Idle
<1>2. Seated(w, v) /\ (Traced(w) => Traced(v))
  BY DropTraced
<1>3. z = Forget(RemovePlayer(x, f), who)
  BY MovedIs, Zenon
<1>4. Laid(v, u, f) /\ Unmoved(v, u)
  <2>1. Sound(v) /\ f \in Used(v)
    BY <1>1 DEF Follows, Settled
  <2> HIDE DEF v
  <2> QED
    BY <1>1, <2>1, LaysDown, LaysDownUnmoved
<1> HIDE DEF v, u
<1>5. /\ Follows(w, u) /\ Settled(w, u) /\ Idle(u, f) /\ Seated(w, u)
      /\ Traced(w) => Traced(u)
  BY <1>1, <1>2, <1>4, FollowsTwice, SettledTwice, SeatedTwice, UnmovedTraced DEF Laid, Unmoved
<1>6. /\ u \in Worlds /\ Distinct(u) /\ Used(u) = Used(w) /\ f \in Used(u) /\ t \in Pid \ Used(u)
      /\ u.player[f].who = who
  BY <1>5 DEF Follows, Settled, Sound
<1>7. /\ d \in Worlds /\ d.flag = u.flag
      /\ Used(d) = Used(u) \cup {t} /\ d.player[t] = u.player[f]
      /\ \A p \in Used(u) : d.player[p] = u.player[p]
  BY <1>6, DoubledIs
<1>8. d.by = u.by
  BY <1>6 DEF Doubled, Worlds
<1> HIDE DEF d
<1>9. Unmoved(d, x)
  <2>1. \A p \in DOMAIN map : map[p] \in Pid
    OBVIOUS
  <2> HIDE DEF map
  <2> QED
    BY <1>7, <2>1, EmbeddedUnmoved
<1>10. x \in Worlds
  <2>1. \A p \in DOMAIN map : map[p] \in Pid
    OBVIOUS
  <2> HIDE DEF map
  <2> QED
    BY <1>7, <2>1, Embedded DEF Alike
<1>m. Alike(d, x)
  <2>1. \A p \in DOMAIN map : map[p] \in Pid
    OBVIOUS
  <2> HIDE DEF map
  <2> QED
    BY <1>7, <2>1, Embedded
<1> HIDE DEF x
<1>11. Unmoved(x, b) /\ Alike(x, b)
  BY <1>0, <1>10, BereftUnmoved, BereftKeeps
<1>12. RemovePlayer(x, f) = e
  <2>1. RemovePlayer(x, f) = Emptied(DropFlagIfAny(b, f), f)
    BY RemovedIs
  <2>2. ~HasFlag(b, f)
    BY <1>5, <1>6, <1>7, <1>m, <1>11 DEF Alike, HasFlag, Idle
  <2>3. DropFlagIfAny(b, f) = b
    BY <2>2 DEF DropFlagIfAny
  <2> QED
    BY <2>1, <2>3
<1> HIDE DEF b
<1>13. Unmoved(d, b) /\ b \in Worlds /\ f \in Used(b) /\ Used(b) = Used(u) \cup {t}
  BY <1>6, <1>7, <1>9, <1>11, UnmovedTwice DEF Alike, Unmoved, Seated
<1>14. e \in Worlds /\ Used(e) = Used(b) \ {f} /\ \A q \in Used(e) : e.player[q] = b.player[q]
  BY <1>13, EmptiedKeeps
<1>15. /\ Traced(b) => Traced(e)
       /\ \A q \in Pid : Unnamed(b, q) => Unnamed(e, q)
  <2>1. \A g \in Flags : b.flag[g].carrier # f
    BY <1>5, <1>7, <1>13 DEF Idle, Unmoved
  <2> QED
    BY <1>13, <2>1, EmptiedTraced
<1> HIDE DEF e, map
<1>16. Reseated(u, e)
  <2>1. \A p \in Used(d) : p \in Used(b) /\ Alter(b.player[p], d.player[p])
    BY <1>13 DEF Unmoved, Seated
  <2>2. ASSUME NEW p \in Used(u), p # f PROVE p \in Used(e) /\ Alter(e.player[p], u.player[p])
    BY <1>7, <1>13, <1>14, <2>1, <2>2
  <2>3. t \in Used(e) /\ Alter(e.player[t], u.player[f])
    BY <1>0, <1>7, <1>13, <1>14, <2>1
  <2>4. Used(e) = (Used(u) \ {f}) \cup {t}
    BY <1>0, <1>6, <1>13, <1>14
  <2> QED
    BY <1>6, <2>2, <2>3, <2>4 DEF Reseated
<1>17. ASSUME Traced(w) PROVE Traced(e) /\ \A q \in Used(e) : e.player[q].who = who => Unnamed(e, q)
  <2>1. Traced(u) /\ Unnamed(u, t)
    BY <1>5, <1>6, <1>17, FreeUnnamed
  <2>2. Traced(d) /\ Unnamed(d, t)
    <3> DEFINE T == {}
    <3>1. \A p \in T : Unnamed(u, p)
      OBVIOUS
    <3>2. \A p \in Used(u) \ T : p \in Used(d) /\ d.player[p].who = u.player[p].who
      BY <1>7
    <3> HIDE DEF T
    <3> QED
      BY <1>7, <1>8, <2>1, <3>1, <3>2, PlacesTraced
  <2>3. Traced(b) /\ Unnamed(b, t)
    BY <1>13, <2>2, UnmovedTraced
  <2>4. Traced(e) /\ Unnamed(e, t)
    BY <1>15, <2>3
  <2>5. ASSUME NEW q \in Used(e), e.player[q].who = who PROVE q = t
    <3>1. q = t \/ (q \in Used(u) /\ q # f)
      BY <1>13, <1>14
    <3>2. \A p \in Used(d) : b.player[p].who = d.player[p].who
      BY <1>13 DEF Unmoved, Seated, Alter
    <3>3. q \in Used(u) => u.player[q].who = who
      BY <1>7, <1>14, <2>5, <3>2
    <3> QED
      BY <1>6, <3>1, <3>3 DEF Distinct
  <2> QED
    BY <2>4, <2>5
<1>18. Seated(e, z) /\ (Traced(w) => Traced(z))
  <2>1. z = Forget(e, who)
    BY <1>3, <1>12
  <2>2. Seated(e, z)
    <3>1. z.player = e.player
      BY <1>14, <2>1, ForgetAlike
    <3> QED
      BY <3>1 DEF Seated, Used, Alter
  <2> HIDE DEF who
  <2>3. ASSUME Traced(w) PROVE Traced(z)
    BY <1>14, <1>17, <2>1, <2>3, ForgetTraced
  <2> QED
    BY <2>2, <2>3
<1>19. Reseated(w, z)
  <2>1. Reseated(w, u) /\ Reseated(e, z)
    BY <1>5, <1>18, SeatedReseated
  <2> QED
    BY <1>16, <2>1, ReseatedTwice
<1>20. Follows(w, z)
  BY MoveFollows
<1> QED
  BY <1>18, <1>19, <1>20 DEF Keeps

LEMMA SwapKeeps ==
  ASSUME rules \in Settings, NEW w, Sound(w), NEW a \in Used(w), NEW b \in Used(w), a # b,
         NEW z, z = SwapPlayers(w, a, b)
  PROVE  Keeps(w, z)
<1> DEFINE v0 == DropFlagIfAny(w, a)
           v == DropFlagIfAny(v0, b)
           u0 == ResetCarrierData(v, a)
           u == ResetCarrierData(u0, b)
           x == IF u.player[a].dead THEN u ELSE ResetPlayer(u, a)
           y == IF x.player[b].dead THEN x ELSE ResetPlayer(x, b)
           s == Crossed(y, a, b)
           map == [p \in {a, b} |-> a + b - p]
           e == EmbeddedPids(s, map)
           A == w.player[a].who
           B == w.player[b].who
           k == Forget(e, A)
<1>0. a \in Pid /\ b \in Pid /\ -1 \notin Pid /\ a \in Nat /\ b \in Nat
  BY Sides DEF Used
<1>1. Follows(w, v0) /\ Settled(w, v0) /\ Idle(v0, a)
  BY DropFollows DEF Idle
<1>a. Seated(w, v0) /\ (Traced(w) => Traced(v0))
  BY DropTraced
<1>z. z = Forget(k, B)
  BY SwappedIs, Zenon
<1> HIDE DEF v0
<1>2. /\ Follows(v0, v) /\ Settled(v0, v) /\ Idle(v, a) /\ Idle(v, b)
      /\ Seated(v0, v) /\ (Traced(v0) => Traced(v))
  <2>1. Sound(v0) /\ a \in Used(v0) /\ b \in Used(v0)
    BY <1>1 DEF Follows, Settled
  <2>2. Follows(v0, v) /\ Settled(v0, v) /\ Idle(v, b)
    BY <2>1, DropFollows DEF Idle
  <2>3. Seated(v0, v) /\ (Traced(v0) => Traced(v))
    BY <2>1, DropTraced
  <2> QED
    BY <1>0, <1>1, <2>1, <2>2, <2>3, IdleStays
<1> HIDE DEF v
<1>3. Follows(v, u0) /\ Settled(v, u0)
  BY <1>0, <1>2, ForgettingFollows DEF Follows
<1>b. Seated(v, u0) /\ (Traced(v) => Traced(u0) /\ Unnamed(u0, a))
  <2>1. v \in Worlds /\ \A f \in Flags : v.flag[f].carrier # a
    BY <1>2 DEF Follows, Sound, Idle
  <2> QED
    BY <1>0, <2>1, ForgettingTraced
<1> HIDE DEF u0
<1>4. Follows(u0, u) /\ Settled(u0, u)
  BY <1>0, <1>3, ForgettingFollows DEF Follows
<1>c. Seated(u0, u) /\ (Traced(u0) /\ Unnamed(u0, a) => Traced(u) /\ Unnamed(u, a) /\ Unnamed(u, b))
  <2>1. Idle(u0, b)
    BY <1>0, <1>1, <1>2, <1>3, IdleStays DEF Settled
  <2>2. u0 \in Worlds /\ \A f \in Flags : u0.flag[f].carrier # b
    BY <1>3, <2>1 DEF Settled, Idle
  <2> QED
    BY <1>0, <2>2, ForgettingTraced
<1> HIDE DEF u
<1>5. Follows(w, u) /\ Settled(w, u) /\ Settled(v, u) /\ Seated(w, u)
  BY <1>1, <1>2, <1>3, <1>4, <1>a, <1>b, <1>c, FollowsTwice, SettledTwice, SeatedTwice
<1>6. Idle(u, a) /\ Idle(u, b) /\ a \in Used(u) /\ b \in Used(u) /\ Sound(u)
  <2>1. a \in Used(v) /\ b \in Used(v)
    BY <1>1, <1>2 DEF Settled
  <2> QED
    BY <1>0, <1>2, <1>5, <2>1, IdleStays DEF Follows
<1>7. Laid(u, x, a) /\ Unmoved(u, x)
  BY <1>6, LaysDown, LaysDownUnmoved
<1> HIDE DEF x
<1>8. /\ Follows(u, x) /\ Settled(u, x) /\ Idle(x, b) /\ b \in Used(x) /\ Sound(x)
  BY <1>0, <1>6, <1>7, IdleStays DEF Laid, Follows
<1>9. Laid(x, y, b) /\ Unmoved(x, y)
  BY <1>8, LaysDown, LaysDownUnmoved
<1> HIDE DEF y
<1>10. /\ Follows(x, y) /\ Settled(x, y) /\ Seated(w, y) /\ Unmoved(u, y)
  BY <1>5, <1>7, <1>9, UnmovedTwice, SeatedTwice DEF Laid, Unmoved
<1>11. Follows(w, y) /\ Settled(w, y)
  BY <1>5, <1>8, <1>10, FollowsTwice, SettledTwice
<1>12. /\ y \in Worlds /\ Distinct(y) /\ Used(y) = Used(w) /\ a \in Used(y) /\ b \in Used(y)
       /\ y.player[a].who = A /\ y.player[b].who = B
  BY <1>11 DEF Follows, Settled, Sound
<1>13. /\ s \in Worlds /\ s.flag = y.flag
       /\ Used(s) = Used(y) /\ s.player[a] = y.player[b] /\ s.player[b] = y.player[a]
       /\ \A p \in Used(y) : p # a /\ p # b => s.player[p] = y.player[p]
  BY <1>12, CrossedIs
<1>d. s.by = y.by
  BY <1>12 DEF Crossed, Worlds
<1> HIDE DEF s
<1>m. \A p \in DOMAIN map : map[p] \in Pid
  <2>1. a + b - a = b /\ a + b - b = a
    BY <1>0
  <2> QED
    BY <1>0, <2>1
<1> HIDE DEF map
<1>14. Unmoved(s, e) /\ e \in Worlds
  BY <1>13, <1>m, EmbeddedUnmoved, Embedded DEF Alike
<1> HIDE DEF e
<1>15. Used(e) = Used(y) /\ \A p \in Used(y) : Alter(e.player[p], s.player[p])
  BY <1>13, <1>14 DEF Unmoved, Seated
<1>16. Reseated(y, e)
  <2>1. Alter(e.player[a], y.player[b]) /\ Alter(e.player[b], y.player[a])
    BY <1>12, <1>13, <1>15
  <2>2. \A p \in Used(y) : p # a /\ p # b => Alter(e.player[p], y.player[p])
    BY <1>13, <1>15
  <2> QED
    BY <1>12, <1>15, <2>1, <2>2 DEF Reseated
<1>17. ASSUME Traced(w)
       PROVE  Traced(e) /\ Unnamed(e, a) /\ Unnamed(e, b)
  <2>1. Traced(y) /\ Unnamed(y, a) /\ Unnamed(y, b)
    BY <1>17, <1>a, <1>2, <1>b, <1>c, <1>10, UnmovedTraced
  <2>2. Traced(s) /\ Unnamed(s, a) /\ Unnamed(s, b)
    <3> DEFINE T == {a, b}
    <3>1. \A p \in T : Unnamed(y, p)
      BY <2>1
    <3>2. \A p \in Used(y) \ T : p \in Used(s) /\ s.player[p].who = y.player[p].who
      BY <1>13
    <3> HIDE DEF T
    <3> QED
      BY <1>13, <1>d, <2>1, <3>1, <3>2, PlacesTraced
  <2> QED
    BY <1>14, <2>2, UnmovedTraced
<1>18. \A q \in Used(e) : e.player[q].who \in {A, B} => q \in {a, b}
  <2> SUFFICES ASSUME NEW q \in Used(e), q # a, q # b PROVE e.player[q].who # A /\ e.player[q].who # B
    OBVIOUS
  <2>1. q \in Used(y) /\ e.player[q].who = y.player[q].who
    BY <1>13, <1>15 DEF Alter
  <2> HIDE DEF A, B
  <2> QED
    BY <1>12, <2>1 DEF Distinct
<1> HIDE DEF A, B
<1>19. k \in Worlds /\ k.player = e.player /\ Seated(e, k)
  <2>1. k \in Worlds /\ k.player = e.player
    BY <1>14, ForgetAlike DEF Alike
  <2> QED
    BY <2>1 DEF Seated, Used, Alter
<1>20. Seated(k, z)
  <2>1. z.player = k.player
    BY <1>19, <1>z, ForgetAlike
  <2> QED
    BY <2>1 DEF Seated, Used, Alter
<1>21. ASSUME Traced(w) PROVE Traced(z)
  <2>1. \A q \in Used(e) : e.player[q].who = A => Unnamed(e, q)
    BY <1>17, <1>18, <1>21
  <2>2. Traced(k) /\ Unnamed(k, a) /\ Unnamed(k, b)
    BY <1>14, <1>17, <1>21, <2>1, ForgetTraced
  <2>3. \A q \in Used(k) : k.player[q].who = B => Unnamed(k, q)
    BY <1>18, <1>19, <2>2 DEF Seated
  <2> HIDE DEF k
  <2> QED
    BY <1>19, <1>z, <2>2, <2>3, ForgetTraced
<1>22. Reseated(w, z)
  <2>1. Reseated(w, y) /\ Reseated(e, z)
    BY <1>10, <1>19, <1>20, SeatedTwice, SeatedReseated
  <2> QED
    BY <1>16, <2>1, ReseatedTwice
<1>23. Follows(w, z)
  BY SwapFollows
<1> QED
  BY <1>21, <1>22, <1>23 DEF Keeps

(* A change of teams.                                                             *)
LEMMA TeamChangeKeeps ==
  ASSUME rules \in Settings, NEW w, Sound(w), NEW v \in TeamChange(w)
  PROVE  Keeps(w, v)
<1>1. ASSUME NEW p \in Used(w), FreePlaces(w, 1 - Team(p)) # {},
             v = MovePlayer(w, p, Min(FreePlaces(w, 1 - Team(p))))
      PROVE  Keeps(w, v)
  <2>1. 1 - Team(p) \in {0, 1}
    BY Teams, Sides DEF Used
  <2>2. Min(FreePlaces(w, 1 - Team(p))) \in Pid \ Used(w)
    BY <1>1, <2>1, FreePlaceIsFree
  <2> QED
    BY <1>1, <2>2, MoveKeeps
<1>2. ASSUME NEW a \in Members(w, 0), NEW b \in Members(w, 1), v = SwapPlayers(w, a, b)
      PROVE  Keeps(w, v)
  <2>1. a \in Used(w) /\ b \in Used(w) /\ a # b
    BY DEF Members
  <2> QED
    BY <1>2, <2>1, SwapKeeps
<1> QED
  BY <1>1, <1>2 DEF TeamChange

(* Flags dropped and deaths.                                                      *)
LEMMA DropKeeps ==
  ASSUME rules \in Settings, NEW w, Sound(w), NEW p \in Used(w), NEW v, v = DropFlagIfAny(w, p)
  PROVE  Keeps(w, v)
BY DropFollows, DropTraced, SeatedReseated DEF Keeps

LEMMA ResetKeeps ==
  ASSUME rules \in Settings, NEW w, Sound(w), NEW p \in Used(w), NEW v, v = ResetPlayer(w, p)
  PROVE  Keeps(w, v)
BY ResetFollows, ResetUnmoved, SeatedReseated DEF Keeps

LEMMA KillKeeps ==
  ASSUME rules \in Settings, NEW w, Sound(w), Calm(w), NEW p \in Alive(w), NEW v \in KillPlayer(w, p)
  PROVE  Keeps(w, v)
<1> DEFINE u == DropFlagIfAny(w, p)
           o == [pid |-> p, who |-> u.player[p].who]
           x == [u EXCEPT !.db = o]
<1>1. p \in Used(w)
  BY DEF Alive
<1>2. Keeps(w, u) /\ Settled(w, u) /\ ~HasFlag(u, p)
  BY <1>1, DropFollows, DropKeeps
<1>3. Sound(u) /\ p \in Used(u) /\ u \in Worlds
  BY <1>1, <1>2 DEF Settled, Keeps, Follows
<1>4. v = ResetPlayer(u, p) \/ v = ResetPlayer(x, p)
  BY DEF KillPlayer
<1> HIDE DEF u
<1>5. Unmoved(u, v)
  <2>1. CASE v = ResetPlayer(u, p)
    BY <1>2, <1>3, <2>1, ResetUnmoved
  <2>2. CASE v = ResetPlayer(x, p)
    <3>1. o \in Owner
      BY <1>3, PlayersOf, Names
    <3> HIDE DEF o
    <3>2. x \in Worlds /\ x.player = u.player /\ x.flag = u.flag /\ x.by = u.by
      BY <1>3, <3>1 DEF Worlds
    <3> HIDE DEF x
    <3>3. p \in Used(x) /\ ~HasFlag(x, p) /\ Unmoved(u, x)
      BY <1>2, <1>3, <3>2, SamePlayersUnmoved DEF Used, HasFlag
    <3>a. DropFlagIfAny(x, p) = x
      BY <3>3 DEF DropFlagIfAny
    <3>4. v = Died(x, p)
      BY <2>2, <3>a, Zenon DEF ResetPlayer, Died
    <3>5. Unmoved(x, v)
      BY <3>2, <3>3, <3>4, DiedUnmoved
    <3> QED
      BY <3>3, <3>5, UnmovedTwice
  <2> QED
    BY <1>4, <2>1, <2>2
<1>6. Reseated(w, v) /\ (Traced(w) => Traced(v))
  BY <1>2, <1>5, UnmovedTraced, SeatedReseated, ReseatedTwice DEF Keeps, Unmoved
<1> QED
  BY <1>6, KillFollows DEF Keeps

LEMMA DamageKeeps ==
  ASSUME rules \in Settings, NEW w, Sound(w), Calm(w), NEW p \in Used(w), NEW v \in DamagePlayer(w, p)
  PROVE  Keeps(w, v)
<1>1. v = w \/ (p \in Alive(w) /\ v \in KillPlayer(w, p))
  BY DEF DamagePlayer, Alive
<1> QED
  BY <1>1, NothingKeeps, KillKeeps

--------------------------------------------------------------------------------
(* Teams at the start of a game.                                                  *)

LEMMA MoveOneKeeps ==
  ASSUME rules \in Settings, NEW w, Sound(w), NEW n, NEW v \in MoveOne(w, n)
  PROVE  Keeps(w, v)
<1>1. CASE ~Uneven(w)
  <2>1. v = w
    BY <1>1 DEF MoveOne
  <2> QED
    BY <2>1, NothingKeeps
<1>2. CASE Uneven(w)
  <2> DEFINE b == Bigger(w)
  <2>1. b \in {0, 1} /\ 1 - b \in {0, 1}
    BY DEF Bigger
  <2>2. PICK p \in Members(w, b) : v = MovePlayer(w, p, Min(FreePlaces(w, 1 - Team(p))))
    BY <1>2 DEF MoveOne
  <2>3. Cardinality(Members(w, b)) - Cardinality(Members(w, 1 - b)) > 1
    BY <1>2 DEF Uneven
  <2> HIDE DEF b
  <2>4. /\ Cardinality(Members(w, b)) \in Nat /\ Cardinality(Members(w, b)) <= TSIZE
        /\ Cardinality(Members(w, 1 - b)) \in Nat
        /\ Cardinality(Members(w, 1 - b)) < TSIZE <=> FreePlaces(w, 1 - b) # {}
    BY <2>1, Teams
  <2>5. FreePlaces(w, 1 - b) # {}
    BY <2>3, <2>4, Halves
  <2>6. p \in Used(w) /\ Team(p) = b
    BY <2>2 DEF Members
  <2>7. Min(FreePlaces(w, 1 - b)) \in Pid \ Used(w)
    BY <2>1, <2>5, FreePlaceIsFree
  <2> QED
    BY <2>2, <2>6, <2>7, MoveKeeps
<1> QED
  BY <1>1, <1>2


(* balance_teams, as long as it may take.                                         *)
LEMMA MovesInOrder ==
  ASSUME rules \in Settings, NEW w, Sound(w),
         NEW seq, DOMAIN seq \in SUBSET Nat, IsFiniteSet(DOMAIN seq), NEW z \in InOrder(MoveOne, w, seq)
  PROVE  Keeps(w, z)
<1> DEFINE D == DOMAIN seq
           A == {k \in Worlds : Keeps(w, k)}
           After(i, v) == UNION {MoveOne(k, seq[i]) : k \in v}
           F == [p \in D \X SUBSET A |-> After(p[1], p[2])]
           E(t, s) == IF s = {} THEN {w} ELSE After(Max(s), t[s \ {Max(s)}])
           iter == CHOOSE t : t = [s \in SUBSET D |-> E(t, s)]
<1>0. D \in SUBSET Nat /\ IsFiniteSet(D)
  OBVIOUS
<1>1. ASSUME NEW i \in D, NEW v \in SUBSET A PROVE After(i, v) \in SUBSET A
  <2> SUFFICES ASSUME NEW k \in v, NEW l \in MoveOne(k, seq[i]) PROVE l \in A
    OBVIOUS
  <2>1. Keeps(w, k) /\ Sound(k)
    BY DEF Keeps, Follows
  <2>2. Keeps(k, l)
    BY <2>1, MoveOneKeeps
  <2>3. Keeps(w, l)
    BY <2>1, <2>2, KeepsTwice
  <2> QED
    BY <2>3 DEF Keeps, Follows, Sound
<1>2. w \in A
  BY NothingKeeps DEF Sound
<1>3. PICK t : IsRun(t, F, {w}, D)
  BY <1>0, RunExists, Zenon
<1> HIDE DEF D, A, After
<1>a. \A s \in SUBSET D : s # {} => Max(s) \in D /\ s \ {Max(s)} \in SUBSET D
  <2> SUFFICES ASSUME NEW s \in SUBSET D, s # {} PROVE Max(s) \in D /\ s \ {Max(s)} \in SUBSET D
    OBVIOUS
  <2>1. s \in SUBSET Nat /\ IsFiniteSet(s)
    BY <1>0, FS_Subset
  <2>2. Max(s) \in s
    BY <2>1, MaxIsIn
  <2> QED
    BY <2>2
<1>4. ASSUME NEW s \in SUBSET D, s # {}, t[s \ {Max(s)}] \in SUBSET A
      PROVE  F[<<Max(s), t[s \ {Max(s)}]>>] = After(Max(s), t[s \ {Max(s)}])
  BY <1>a, <1>4
<1>b. \A s \in SUBSET D : t[s] = IF s = {} THEN {w} ELSE F[<<Max(s), t[s \ {Max(s)}]>>]
  <2> HIDE DEF F
  <2>1. \A s \in SUBSET D : t[s] = RunAt(t, F, {w}, s)
    BY <1>3, RunStep, Zenon
  <2> QED
    BY <2>1, Zenon DEF RunAt
<1> DEFINE V == [s \in SUBSET D |-> SUBSET A]
<1>5. \A s \in SUBSET D : t[s] \in SUBSET A
  <2> HIDE DEF F
  <2>1. t[{}] \in V[{}]
    BY <1>2, <1>b
  <2>2. ASSUME NEW s \in SUBSET D, s # {}, t[s \ {Max(s)}] \in V[s \ {Max(s)}]
        PROVE  t[s] \in V[s]
    <3>1. Max(s) \in D /\ t[s \ {Max(s)}] \in SUBSET A
      BY <1>a, <2>2
    <3>2. t[s] = After(Max(s), t[s \ {Max(s)}])
      BY <1>4, <1>b, <2>2, <3>1, Zenon
    <3>3. t[s] \in SUBSET A
      BY <1>1, <3>1, <3>2, Zenon
    <3> QED
      BY <3>3
  <2>3. \A s \in SUBSET D : t[s] \in V[s]
    <3> HIDE DEF V
    <3> QED
      BY <1>0, <2>1, <2>2, RunStays
  <2> QED
    BY <2>3
<1>6. iter = [s \in SUBSET D |-> E(iter, s)]
  <2>1. \A s \in SUBSET D : t[s] = E(t, s)
    BY <1>4, <1>5, <1>a, <1>b, Zenon
  <2>2. t = [s \in SUBSET D |-> t[s]]
    BY <1>3, Zenon DEF IsRun
  <2>3. t = [s \in SUBSET D |-> E(t, s)]
    <3> HIDE DEF E
    <3> QED
      BY <2>1, <2>2
  <2> QED
    BY <2>3, Zenon
<1>c. \A s \in SUBSET D : iter[s] = E(iter, s)
  <2> HIDE DEF iter, E
  <2> QED
    BY <1>6
<1>7. iter[D] \in SUBSET A
  <2> HIDE DEF iter
  <2>1. iter[{}] \in V[{}]
    BY <1>2, <1>c
  <2>2. ASSUME NEW s \in SUBSET D, s # {}, iter[s \ {Max(s)}] \in V[s \ {Max(s)}]
        PROVE  iter[s] \in V[s]
    <3>1. Max(s) \in D /\ iter[s \ {Max(s)}] \in SUBSET A
      BY <1>a, <2>2
    <3>2. iter[s] = After(Max(s), iter[s \ {Max(s)}])
      BY <1>c, <2>2, Zenon
    <3>3. iter[s] \in SUBSET A
      BY <1>1, <3>1, <3>2, Zenon
    <3> QED
      BY <3>3
  <2>3. \A s \in SUBSET D : iter[s] \in V[s]
    <3> HIDE DEF V
    <3> QED
      BY <1>0, <2>1, <2>2, RunStays
  <2> QED
    BY <2>3
<1>8. InOrder(MoveOne, w, seq) = iter[D]
  BY Zenon DEF InOrder, Then, FoldLeft, MapThenFoldSet, D, After
<1> QED
  BY <1>7, <1>8 DEF A

LEMMA BalanceKeeps ==
  ASSUME rules \in Settings, NEW w, Sound(w), NEW v \in BalanceTeams(w)
  PROVE  Keeps(w, v)
<1> DEFINE seq == [k \in 1 .. TSIZE |-> k]
<1>1. DOMAIN seq \in SUBSET Nat /\ IsFiniteSet(DOMAIN seq)
  BY Halves, FS_Interval
<1>2. v \in InOrder(MoveOne, w, seq)
  BY DEF BalanceTeams
<1> HIDE DEF seq
<1> QED
  BY <1>1, <1>2, MovesInOrder

(* A shuffle keeps the places that are taken, so the next player to swap is there. *)
LEMMA SwapShuffledKeeps ==
  ASSUME rules \in Settings, NEW w, NEW order \in SetToSeqs(Used(w)),
         NEW v, Sound(v), Used(v) = Used(w),
         NEW i \in Pid, Team(i) = 0, NEW z \in SwapShuffled(w, v, order, i)
  PROVE  Keeps(v, z) /\ Used(z) = Used(w)
<1> DEFINE below == {p \in Members(w, 0) : p <= i}
           n == Cardinality(below)
<1>1. CASE z = v
  BY <1>1, NothingKeeps
<1>2. CASE z # v
  <2>1. i \in Used(w) /\ Team(order[n]) # 0 /\ z = SwapPlayers(v, i, order[n])
    BY <1>2 DEF SwapShuffled
  <2>2. i \in Members(w, 0) /\ i \in Nat
    BY <2>1, Sides DEF Members
  <2>3. i \in below /\ below \subseteq Used(w)
    BY <2>2 DEF Members
  <2>4. n \in 1 .. Cardinality(Used(w))
    <3>1. IsFiniteSet(Used(w)) /\ Cardinality(Used(w)) \in Nat
      BY Teams
    <3> HIDE DEF below
    <3>2. IsFiniteSet(below) /\ n \in Nat /\ n <= Cardinality(Used(w)) /\ n # 0
      BY <2>3, <3>1, FS_Subset, FS_CardinalityType, FS_EmptySet
    <3> QED
      BY <3>1, <3>2
  <2>5. order[n] \in Used(w)
    <3>1. order \in [1 .. Cardinality(Used(w)) -> Used(w)]
      BY DEF SetToSeqs
    <3> HIDE DEF n
    <3> QED
      BY <2>4, <3>1
  <2> HIDE DEF n
  <2>6. order[n] # i
    BY <2>1
  <2> QED
    BY <2>1, <2>5, <2>6, SwapFollows, SwapKeeps
<1> QED
  BY <1>1, <1>2

Shuffled(w, order, seq) == InOrder(LAMBDA v, i : SwapShuffled(w, v, order, i), w, seq)

LEMMA SwapsInOrder ==
  ASSUME rules \in Settings, NEW w, Sound(w), NEW order \in SetToSeqs(Used(w)),
         NEW seq, DOMAIN seq \in SUBSET Nat, IsFiniteSet(DOMAIN seq),
         \A i \in DOMAIN seq : seq[i] \in Pid /\ Team(seq[i]) = 0,
         NEW z \in Shuffled(w, order, seq)
  PROVE  Keeps(w, z)
<1> DEFINE D == DOMAIN seq
           A == {k \in Worlds : Keeps(w, k) /\ Used(k) = Used(w)}
           After(i, v) == UNION {SwapShuffled(w, k, order, seq[i]) : k \in v}
           F == [p \in D \X SUBSET A |-> After(p[1], p[2])]
           E(t, s) == IF s = {} THEN {w} ELSE After(Max(s), t[s \ {Max(s)}])
           iter == CHOOSE t : t = [s \in SUBSET D |-> E(t, s)]
<1>0. D \in SUBSET Nat /\ IsFiniteSet(D)
  OBVIOUS
<1>1. ASSUME NEW i \in D, NEW v \in SUBSET A PROVE After(i, v) \in SUBSET A
  <2> SUFFICES ASSUME NEW k \in v, NEW l \in SwapShuffled(w, k, order, seq[i]) PROVE l \in A
    OBVIOUS
  <2>1. Keeps(w, k) /\ Sound(k) /\ Used(k) = Used(w)
    BY DEF Keeps, Follows
  <2>a. seq[i] \in Pid /\ Team(seq[i]) = 0
    OBVIOUS
  <2> DEFINE x == seq[i]
  <2> HIDE DEF x, After, F, E, A, iter
  <2>2. Keeps(k, l) /\ Used(l) = Used(w)
    <3>1. x \in Pid /\ Team(x) = 0 /\ l \in SwapShuffled(w, k, order, x)
      BY <2>a DEF x
    <3> QED
      BY <2>1, <3>1, SwapShuffledKeeps
  <2>3. Keeps(w, l)
    BY <2>1, <2>2, KeepsTwice
  <2> QED
    BY <2>2, <2>3 DEF Keeps, Follows, Sound, A
<1>2. w \in A
  BY NothingKeeps DEF Sound
<1>3. PICK t : IsRun(t, F, {w}, D)
  BY <1>0, RunExists, Zenon
<1> HIDE DEF D, A, After
<1>a. \A s \in SUBSET D : s # {} => Max(s) \in D /\ s \ {Max(s)} \in SUBSET D
  <2> SUFFICES ASSUME NEW s \in SUBSET D, s # {} PROVE Max(s) \in D /\ s \ {Max(s)} \in SUBSET D
    OBVIOUS
  <2>1. s \in SUBSET Nat /\ IsFiniteSet(s)
    BY <1>0, FS_Subset
  <2>2. Max(s) \in s
    BY <2>1, MaxIsIn
  <2> QED
    BY <2>2
<1>4. ASSUME NEW s \in SUBSET D, s # {}, t[s \ {Max(s)}] \in SUBSET A
      PROVE  F[<<Max(s), t[s \ {Max(s)}]>>] = After(Max(s), t[s \ {Max(s)}])
  BY <1>a, <1>4
<1>b. \A s \in SUBSET D : t[s] = IF s = {} THEN {w} ELSE F[<<Max(s), t[s \ {Max(s)}]>>]
  <2> HIDE DEF F
  <2>1. \A s \in SUBSET D : t[s] = RunAt(t, F, {w}, s)
    BY <1>3, RunStep, Zenon
  <2> QED
    BY <2>1, Zenon DEF RunAt
<1> DEFINE V == [s \in SUBSET D |-> SUBSET A]
<1>5. \A s \in SUBSET D : t[s] \in SUBSET A
  <2> HIDE DEF F
  <2>1. t[{}] \in V[{}]
    BY <1>2, <1>b
  <2>2. ASSUME NEW s \in SUBSET D, s # {}, t[s \ {Max(s)}] \in V[s \ {Max(s)}]
        PROVE  t[s] \in V[s]
    <3>1. Max(s) \in D /\ t[s \ {Max(s)}] \in SUBSET A
      BY <1>a, <2>2
    <3>2. t[s] = After(Max(s), t[s \ {Max(s)}])
      BY <1>4, <1>b, <2>2, <3>1, Zenon
    <3>3. t[s] \in SUBSET A
      BY <1>1, <3>1, <3>2, Zenon
    <3> QED
      BY <3>3
  <2>3. \A s \in SUBSET D : t[s] \in V[s]
    <3> HIDE DEF V
    <3> QED
      BY <1>0, <2>1, <2>2, RunStays
  <2> QED
    BY <2>3
<1>6. iter = [s \in SUBSET D |-> E(iter, s)]
  <2>1. \A s \in SUBSET D : t[s] = E(t, s)
    BY <1>4, <1>5, <1>a, <1>b, Zenon
  <2>2. t = [s \in SUBSET D |-> t[s]]
    BY <1>3, Zenon DEF IsRun
  <2>3. t = [s \in SUBSET D |-> E(t, s)]
    <3> HIDE DEF E
    <3> QED
      BY <2>1, <2>2
  <2> QED
    BY <2>3, Zenon
<1>c. \A s \in SUBSET D : iter[s] = E(iter, s)
  <2> HIDE DEF iter, E
  <2> QED
    BY <1>6
<1>7. iter[D] \in SUBSET A
  <2> HIDE DEF iter
  <2>1. iter[{}] \in V[{}]
    BY <1>2, <1>c
  <2>2. ASSUME NEW s \in SUBSET D, s # {}, iter[s \ {Max(s)}] \in V[s \ {Max(s)}]
        PROVE  iter[s] \in V[s]
    <3>1. Max(s) \in D /\ iter[s \ {Max(s)}] \in SUBSET A
      BY <1>a, <2>2
    <3>2. iter[s] = After(Max(s), iter[s \ {Max(s)}])
      BY <1>c, <2>2, Zenon
    <3>3. iter[s] \in SUBSET A
      BY <1>1, <3>1, <3>2, Zenon
    <3> QED
      BY <3>3
  <2>3. \A s \in SUBSET D : iter[s] \in V[s]
    <3> HIDE DEF V
    <3> QED
      BY <1>0, <2>1, <2>2, RunStays
  <2> QED
    BY <2>3
<1>8. Shuffled(w, order, seq) = iter[D]
  BY Zenon DEF InOrder, Then, FoldLeft, MapThenFoldSet, D, After, Shuffled
<1> QED
  BY <1>7, <1>8 DEF A

LEMMA ShuffleKeeps ==
  ASSUME rules \in Settings, NEW w, Sound(w), NEW v \in ShuffleTeams(w)
  PROVE  Keeps(w, v)
<1> DEFINE seq == [k \in 1 .. TSIZE |-> k - 1]
<1>1. CASE Cardinality(Used(w)) <= 2
  <2>1. v = w
    BY <1>1 DEF ShuffleTeams
  <2> QED
    BY <2>1, NothingKeeps
<1>2. CASE ~(Cardinality(Used(w)) <= 2)
  <2>1. PICK order \in SetToSeqs(Used(w)) : v \in Shuffled(w, order, seq)
    BY <1>2, Zenon DEF ShuffleTeams, Shuffled
  <2>2. DOMAIN seq \in SUBSET Nat /\ IsFiniteSet(DOMAIN seq) /\ DOMAIN seq = 1 .. TSIZE
    BY Halves, FS_Interval
  <2>3. \A i \in 1 .. TSIZE : i - 1 \in Pid /\ i - 1 < TSIZE
    BY Halves
  <2>4. \A i \in DOMAIN seq : seq[i] \in Pid /\ Team(seq[i]) = 0
    BY <2>2, <2>3, Sides
  <2> HIDE DEF seq
  <2> QED
    BY <2>1, <2>2, <2>4, SwapsInOrder
<1> QED
  BY <1>1, <1>2

(* What ctf_game_restart does to the teams of a game with even teams of one: none. *)

LEMMA NobodyMoves ==
  ASSUME NEW w, ~Uneven(w),
         NEW seq, DOMAIN seq \in SUBSET Nat, IsFiniteSet(DOMAIN seq), NEW z \in InOrder(MoveOne, w, seq)
  PROVE  z = w
<1> DEFINE D == DOMAIN seq
           A == {w}
           After(i, v) == UNION {MoveOne(k, seq[i]) : k \in v}
           F == [p \in D \X SUBSET A |-> After(p[1], p[2])]
           E(t, s) == IF s = {} THEN {w} ELSE After(Max(s), t[s \ {Max(s)}])
           iter == CHOOSE t : t = [s \in SUBSET D |-> E(t, s)]
<1>0. D \in SUBSET Nat /\ IsFiniteSet(D)
  OBVIOUS
<1>1. ASSUME NEW i \in D, NEW v \in SUBSET A PROVE After(i, v) \in SUBSET A
  BY DEF MoveOne
<1>2. w \in A
  OBVIOUS
<1>3. PICK t : IsRun(t, F, {w}, D)
  BY <1>0, RunExists, Zenon
<1> HIDE DEF D, A, After
<1>a. \A s \in SUBSET D : s # {} => Max(s) \in D /\ s \ {Max(s)} \in SUBSET D
  <2> SUFFICES ASSUME NEW s \in SUBSET D, s # {} PROVE Max(s) \in D /\ s \ {Max(s)} \in SUBSET D
    OBVIOUS
  <2>1. s \in SUBSET Nat /\ IsFiniteSet(s)
    BY <1>0, FS_Subset
  <2>2. Max(s) \in s
    BY <2>1, MaxIsIn
  <2> QED
    BY <2>2
<1>4. ASSUME NEW s \in SUBSET D, s # {}, t[s \ {Max(s)}] \in SUBSET A
      PROVE  F[<<Max(s), t[s \ {Max(s)}]>>] = After(Max(s), t[s \ {Max(s)}])
  BY <1>a, <1>4
<1>b. \A s \in SUBSET D : t[s] = IF s = {} THEN {w} ELSE F[<<Max(s), t[s \ {Max(s)}]>>]
  <2> HIDE DEF F
  <2>1. \A s \in SUBSET D : t[s] = RunAt(t, F, {w}, s)
    BY <1>3, RunStep, Zenon
  <2> QED
    BY <2>1, Zenon DEF RunAt
<1> DEFINE V == [s \in SUBSET D |-> SUBSET A]
<1>5. \A s \in SUBSET D : t[s] \in SUBSET A
  <2> HIDE DEF F
  <2>1. t[{}] \in V[{}]
    BY <1>2, <1>b
  <2>2. ASSUME NEW s \in SUBSET D, s # {}, t[s \ {Max(s)}] \in V[s \ {Max(s)}]
        PROVE  t[s] \in V[s]
    <3>1. Max(s) \in D /\ t[s \ {Max(s)}] \in SUBSET A
      BY <1>a, <2>2
    <3>2. t[s] = After(Max(s), t[s \ {Max(s)}])
      BY <1>4, <1>b, <2>2, <3>1, Zenon
    <3>3. t[s] \in SUBSET A
      BY <1>1, <3>1, <3>2, Zenon
    <3> QED
      BY <3>3
  <2>3. \A s \in SUBSET D : t[s] \in V[s]
    <3> HIDE DEF V
    <3> QED
      BY <1>0, <2>1, <2>2, RunStays
  <2> QED
    BY <2>3
<1>6. iter = [s \in SUBSET D |-> E(iter, s)]
  <2>1. \A s \in SUBSET D : t[s] = E(t, s)
    BY <1>4, <1>5, <1>a, <1>b, Zenon
  <2>2. t = [s \in SUBSET D |-> t[s]]
    BY <1>3, Zenon DEF IsRun
  <2>3. t = [s \in SUBSET D |-> E(t, s)]
    <3> HIDE DEF E
    <3> QED
      BY <2>1, <2>2
  <2> QED
    BY <2>3, Zenon
<1>c. \A s \in SUBSET D : iter[s] = E(iter, s)
  <2> HIDE DEF iter, E
  <2> QED
    BY <1>6
<1>7. iter[D] \in SUBSET A
  <2> HIDE DEF iter
  <2>1. iter[{}] \in V[{}]
    BY <1>2, <1>c
  <2>2. ASSUME NEW s \in SUBSET D, s # {}, iter[s \ {Max(s)}] \in V[s \ {Max(s)}]
        PROVE  iter[s] \in V[s]
    <3>1. Max(s) \in D /\ iter[s \ {Max(s)}] \in SUBSET A
      BY <1>a, <2>2
    <3>2. iter[s] = After(Max(s), iter[s \ {Max(s)}])
      BY <1>c, <2>2, Zenon
    <3>3. iter[s] \in SUBSET A
      BY <1>1, <3>1, <3>2, Zenon
    <3> QED
      BY <3>3
  <2>3. \A s \in SUBSET D : iter[s] \in V[s]
    <3> HIDE DEF V
    <3> QED
      BY <1>0, <2>1, <2>2, RunStays
  <2> QED
    BY <2>3
<1>8. InOrder(MoveOne, w, seq) = iter[D]
  BY Zenon DEF InOrder, Then, FoldLeft, MapThenFoldSet, D, After
<1> QED
  BY <1>7, <1>8 DEF A

--------------------------------------------------------------------------------
(* A new game.                                                                    *)

TeamsOf(v) ==
  LET balanced == IF rules.balance_teams = "no" THEN {v} ELSE BalanceTeams(v)
  IN  IF rules.balance_teams = "shuffle" THEN UNION {ShuffleTeams(u) : u \in balanced}
      ELSE balanced

LEMMA TeamsKeep ==
  ASSUME rules \in Settings, NEW w, Sound(w), NEW v \in TeamsOf(w)
  PROVE  Keeps(w, v)
<1> DEFINE balanced == IF rules.balance_teams = "no" THEN {w} ELSE BalanceTeams(w)
<1>1. ASSUME NEW u \in balanced PROVE Keeps(w, u)
  <2>1. u = w \/ u \in BalanceTeams(w)
    OBVIOUS
  <2> QED
    BY <2>1, NothingKeeps, BalanceKeeps
<1>2. v \in balanced \/ \E u \in balanced : v \in ShuffleTeams(u)
  BY DEF TeamsOf
<1> HIDE DEF balanced
<1>3. ASSUME NEW u \in balanced, v \in ShuffleTeams(u) PROVE Keeps(w, v)
  <2>1. Keeps(w, u) /\ Sound(u)
    BY <1>1 DEF Keeps, Follows
  <2>2. Keeps(u, v)
    BY <1>3, <2>1, ShuffleKeeps
  <2> QED
    BY <2>1, <2>2, KeepsTwice
<1> QED
  BY <1>1, <1>2, <1>3

LEMMA TeamsStay ==
  ASSUME NEW w, ~Uneven(w), Cardinality(Used(w)) <= 2, NEW v \in TeamsOf(w)
  PROVE  v = w
<1> DEFINE seq == [k \in 1 .. TSIZE |-> k]
<1>1. DOMAIN seq \in SUBSET Nat /\ IsFiniteSet(DOMAIN seq)
  BY Halves, FS_Interval
<1>2. \A u \in BalanceTeams(w) : u \in InOrder(MoveOne, w, seq)
  BY DEF BalanceTeams
<1> HIDE DEF seq
<1>3. \A u \in BalanceTeams(w) : u = w
  BY <1>1, <1>2, NobodyMoves
<1>4. ShuffleTeams(w) = {w}
  BY DEF ShuffleTeams
<1> QED
  BY <1>3, <1>4 DEF TeamsOf

--------------------------------------------------------------------------------
(* Votes, counted by people, wherever they have moved.                            *)

Who(w, S) == {w.player[p].who : p \in S}

LEMMA PeopleAreCounted ==
  ASSUME NEW w, Distinct(w), NEW S \in SUBSET Used(w)
  PROVE  /\ IsFiniteSet(S) /\ Cardinality(S) \in Nat
         /\ IsFiniteSet(Who(w, S)) /\ Cardinality(Who(w, S)) = Cardinality(S)
<1> DEFINE P == Who(w, S)
           f == [p \in S |-> w.player[p].who]
<1>1. IsFiniteSet(S) /\ Cardinality(S) \in Nat
  BY Teams, FS_Subset, FS_CardinalityType
<1>2. P = {w.player[p].who : p \in S}
  BY DEF Who
<1>3. \A p, q \in S : w.player[p].who = w.player[q].who => p = q
  BY DEF Distinct
<1> HIDE DEF P
<1>4. f \in Surjection(S, P) /\ f \in Injection(S, P)
  BY <1>2, <1>3 DEF Surjection, Injection, IsInjective
<1> HIDE DEF f
<1>5. IsFiniteSet(P) /\ Cardinality(P) = Cardinality(S)
  BY <1>1, <1>4, FS_Surjection
<1> QED
  BY <1>1, <1>5 DEF P

LEMMA FewerPeople ==
  ASSUME NEW w, Distinct(w), NEW v, Distinct(v), NEW S \in SUBSET Used(w), NEW T \in SUBSET Used(v),
         Who(v, T) \subseteq Who(w, S)
  PROVE  Cardinality(T) <= Cardinality(S)
<1>1. IsFiniteSet(Who(w, S)) /\ Cardinality(Who(w, S)) = Cardinality(S)
  BY PeopleAreCounted
<1>2. Cardinality(Who(v, T)) = Cardinality(T)
  BY PeopleAreCounted
<1>3. Who(v, T) \in SUBSET Who(w, S)
  OBVIOUS
<1> QED
  BY <1>1, <1>2, <1>3, FS_Subset

LEMMA AsManyPeople ==
  ASSUME NEW w, Distinct(w), NEW v, Distinct(v), NEW S \in SUBSET Used(w), NEW T \in SUBSET Used(v),
         \A q \in T : \E p \in S : v.player[q].who = w.player[p].who,
         \A p \in S : \E q \in T : v.player[q].who = w.player[p].who
  PROVE  Cardinality(T) = Cardinality(S)
<1>1. Who(v, T) = Who(w, S)
  BY DEF Who
<1>2. Cardinality(Who(w, S)) = Cardinality(S)
  BY PeopleAreCounted
<1>3. Cardinality(Who(v, T)) = Cardinality(T)
  BY PeopleAreCounted
<1> QED
  BY <1>1, <1>2, <1>3

(* Those who vote for map i, but not the people of L.                             *)
Backing(w, i, L) == {p \in Used(w) : w.player[p].mapVote = i /\ w.player[p].who \notin L}

LEMMA ReseatedVote ==
  ASSUME NEW w, Distinct(w), NEW v, Distinct(v), Reseated(w, v)
  PROVE  /\ Cardinality(Used(v)) = Cardinality(Used(w))
         /\ Cardinality(InFavor(v)) = Cardinality(InFavor(w))
         /\ \A i, L : Cardinality(Backing(v, i, L)) = Cardinality(Backing(w, i, L))
<1>1. ASSUME NEW q \in Used(v)
      PROVE  \E p \in Used(w) : Alter(v.player[q], w.player[p])
  BY DEF Reseated
<1>2. ASSUME NEW p \in Used(w)
      PROVE  \E q \in Used(v) : Alter(v.player[q], w.player[p])
  BY DEF Reseated
<1>3. Cardinality(Used(v)) = Cardinality(Used(w))
  <2> DEFINE S == Used(w)
             T == Used(v)
  <2>1. /\ S \in SUBSET Used(w) /\ T \in SUBSET Used(v)
        /\ \A q \in T : \E p \in S : v.player[q].who = w.player[p].who
        /\ \A p \in S : \E q \in T : v.player[q].who = w.player[p].who
    BY <1>1, <1>2 DEF Alter
  <2> HIDE DEF S, T
  <2>2. Cardinality(T) = Cardinality(S)
    BY <2>1, AsManyPeople
  <2> QED
    BY <2>2 DEF S, T
<1>4. Cardinality(InFavor(v)) = Cardinality(InFavor(w))
  <2> DEFINE S == InFavor(w)
             T == InFavor(v)
  <2>1. S \in SUBSET Used(w) /\ T \in SUBSET Used(v)
    BY DEF InFavor
  <2>2. \A q \in T : \E p \in S : v.player[q].who = w.player[p].who
    BY <1>1 DEF Alter, InFavor
  <2>3. \A p \in S : \E q \in T : v.player[q].who = w.player[p].who
    BY <1>2 DEF Alter, InFavor
  <2> HIDE DEF S, T
  <2>4. Cardinality(T) = Cardinality(S)
    BY <2>1, <2>2, <2>3, AsManyPeople
  <2> QED
    BY <2>4 DEF S, T
<1>5. ASSUME NEW i, NEW L PROVE Cardinality(Backing(v, i, L)) = Cardinality(Backing(w, i, L))
  <2> DEFINE S == Backing(w, i, L)
             T == Backing(v, i, L)
  <2>1. S \in SUBSET Used(w) /\ T \in SUBSET Used(v)
    BY DEF Backing
  <2>2. \A q \in T : \E p \in S : v.player[q].who = w.player[p].who
    BY <1>1 DEF Alter, Backing
  <2>3. \A p \in S : \E q \in T : v.player[q].who = w.player[p].who
    BY <1>2 DEF Alter, Backing
  <2> HIDE DEF S, T
  <2>4. Cardinality(T) = Cardinality(S)
    BY <2>1, <2>2, <2>3, AsManyPeople
  <2> QED
    BY <2>4 DEF S, T
<1> QED
  BY <1>3, <1>4, <1>5

(* Everybody is there with his vote, and the maps as they were.                   *)
Resumes(w, z) ==
  /\ Reseated(w, z) /\ z.maprot = w.maprot /\ z.missed = w.missed /\ z.failed = w.failed
  /\ z.clock \in {0, w.clock}

LEMMA NothingResumes ==
  ASSUME NEW w
  PROVE  Resumes(w, w)
BY NothingUnmoved DEF Resumes

LEMMA ResumesTwice ==
  ASSUME NEW u, NEW v, NEW w, Resumes(u, v), Resumes(v, w)
  PROVE  Resumes(u, w)
BY ReseatedTwice DEF Resumes

LEMMA SeatedResumes ==
  ASSUME NEW w, NEW z, z.maprot = w.maprot, z.missed = w.missed, z.failed = w.failed,
         z.clock \in {0, w.clock}, Seated(w, z)
  PROVE  Resumes(w, z)
BY SeatedReseated DEF Resumes

LEMMA KeepsResumes ==
  ASSUME NEW w, NEW v, Keeps(w, v)
  PROVE  Resumes(w, v)
BY DEF Keeps, Follows, Rest, Resumes

(* The votes are counted, but those of the people of L, and those for the maps of *)
(* I, which are not asked for.                                                    *)
Tallied(w, L, I) ==
  /\ \A p \in Used(w) : w.player[p].who \notin L => w.player[p].mapVote \in {-1} \cup DOMAIN w.maprot
  /\ \A i \in DOMAIN w.maprot \ I : w.maprot[i].votes = Cardinality(Backing(w, i, L))

LEMMA ResumesTallied ==
  ASSUME NEW w, Distinct(w), NEW z, Distinct(z), Resumes(w, z), NEW L, NEW I, Tallied(w, L, I)
  PROVE  Tallied(z, L, I)
<1>1. /\ Reseated(w, z) /\ z.maprot = w.maprot
      /\ \A i : Cardinality(Backing(z, i, L)) = Cardinality(Backing(w, i, L))
  BY ReseatedVote DEF Resumes
<1>2. ASSUME NEW q \in Used(z), z.player[q].who \notin L
      PROVE  z.player[q].mapVote \in {-1} \cup DOMAIN z.maprot
  <2>1. PICK p \in Used(w) : Alter(z.player[q], w.player[p])
    BY <1>1 DEF Reseated
  <2> QED
    BY <1>1, <1>2, <2>1 DEF Alter, Tallied
<1> QED
  BY <1>1, <1>2 DEF Tallied

LEMMA TalliedIsCounted ==
  ASSUME NEW w, NEW L, L = {}
  PROVE  Tallied(w, L, L) <=> Counted(w)
<1>1. \A i : Backing(w, i, L) = Backers(w, i)
  BY DEF Backing, Backers
<1>2. DOMAIN w.maprot \ L = DOMAIN w.maprot
  OBVIOUS
<1> QED
  BY <1>1, <1>2 DEF Tallied, Counted, Ranged

--------------------------------------------------------------------------------
(* Those who want another map, and those who are there.                           *)

LEMMA FavorsOf ==
  ASSUME NEW w
  PROVE  /\ Used(w) \subseteq Pid /\ IsFiniteSet(Used(w)) /\ Cardinality(Used(w)) \in Nat
         /\ InFavor(w) \subseteq Used(w) /\ IsFiniteSet(InFavor(w)) /\ Cardinality(InFavor(w)) \in Nat
         /\ Cardinality(InFavor(w)) <= Cardinality(Used(w))
         /\ Unanimous(w) <=> Cardinality(InFavor(w)) = Cardinality(Used(w))
         /\ Used(w) = {} <=> Cardinality(Used(w)) = 0
         /\ InFavor(w) = {} <=> Cardinality(InFavor(w)) = 0
<1>1. IsFiniteSet(Used(w)) /\ Cardinality(Used(w)) \in Nat /\ Used(w) \subseteq Pid
  BY Teams
<1>2. InFavor(w) \in SUBSET Used(w)
  BY DEF InFavor
<1>3. /\ IsFiniteSet(InFavor(w)) /\ Cardinality(InFavor(w)) <= Cardinality(Used(w))
      /\ Cardinality(Used(w)) = Cardinality(InFavor(w)) => Used(w) = InFavor(w)
  BY <1>1, <1>2, FS_Subset
<1>4. Cardinality(InFavor(w)) \in Nat
  BY <1>3, FS_CardinalityType
<1>5. Unanimous(w) <=> Cardinality(InFavor(w)) = Cardinality(Used(w))
  BY <1>3 DEF Unanimous
<1>6. /\ Used(w) = {} <=> Cardinality(Used(w)) = 0
      /\ InFavor(w) = {} <=> Cardinality(InFavor(w)) = 0
  BY <1>1, <1>3, FS_EmptySet
<1> QED
  BY <1>1, <1>2, <1>3, <1>4, <1>5, <1>6

(* No more want another map, no fewer are there, and it is not later.             *)
Lessens(w, z) ==
  /\ Cardinality(InFavor(z)) <= Cardinality(InFavor(w))
  /\ Cardinality(Used(z)) >= Cardinality(Used(w))
  /\ z.clock <= w.clock /\ z.missed = w.missed

LEMMA LessensTwice ==
  ASSUME NEW u, NEW v, NEW w, Lessens(u, v), Lessens(v, w),
         u.clock \in Nat, v.clock \in Nat, w.clock \in Nat
  PROVE  Lessens(u, w)
<1>1. /\ Cardinality(InFavor(u)) \in Nat /\ Cardinality(InFavor(v)) \in Nat
      /\ Cardinality(InFavor(w)) \in Nat /\ Cardinality(Used(u)) \in Nat
      /\ Cardinality(Used(v)) \in Nat /\ Cardinality(Used(w)) \in Nat
  BY FavorsOf
<1> QED
  BY <1>1 DEF Lessens

LEMMA LessensHeard ==
  ASSUME rules \in Settings, NEW w, w.clock \in Nat, NEW z, z.clock \in Nat, Lessens(w, z), Heard(w)
  PROVE  Heard(z)
<1> DEFINE a == Cardinality(InFavor(w))
           b == Cardinality(Used(w))
           c == Cardinality(InFavor(z))
           d == Cardinality(Used(z))
<1>1. /\ a \in Nat /\ b \in Nat /\ c \in Nat /\ d \in Nat /\ a <= b /\ c <= d
      /\ (Unanimous(w) <=> a = b) /\ (Used(w) = {} <=> b = 0)
      /\ (Unanimous(z) <=> c = d) /\ (Used(z) = {} <=> d = 0)
      /\ (Majority(w) <=> 2 * a > b) /\ (Majority(z) <=> 2 * c > d)
  BY FavorsOf DEF Majority
<1>2. c <= a /\ d >= b /\ z.clock <= w.clock /\ z.missed = w.missed
  BY DEF Lessens
<1>3. rules.vote_block_time \in Nat
  BY SettingsAssumption
<1> HIDE DEF a, b, c, d
<1>4. Used(z) # {} => ~Unanimous(z)
  <2> SUFFICES ASSUME d # 0, c = d PROVE FALSE
    BY <1>1
  <2>1. a = b /\ b # 0
    BY <1>1, <1>2
  <2> QED
    BY <1>1, <2>1 DEF Heard
<1>5. ASSUME Majority(z), ~z.missed
      PROVE  z.clock <= rules.vote_block_time /\ rules.vote_block_time > 0
  <2>1. Majority(w)
    BY <1>1, <1>2, <1>5
  <2>2. w.clock <= rules.vote_block_time /\ rules.vote_block_time > 0
    BY <1>2, <1>5, <2>1 DEF Heard
  <2> QED
    BY <1>2, <1>3, <2>2
<1> QED
  BY <1>4, <1>5 DEF Heard

LEMMA ResumesLessens ==
  ASSUME NEW w, Distinct(w), w.clock \in Nat, NEW z, Distinct(z), Resumes(w, z)
  PROVE  Lessens(w, z) /\ z.clock \in Nat
<1>1. /\ Cardinality(Used(z)) = Cardinality(Used(w))
      /\ Cardinality(InFavor(z)) = Cardinality(InFavor(w))
  BY ReseatedVote DEF Resumes
<1>2. Cardinality(Used(w)) \in Nat /\ Cardinality(InFavor(w)) \in Nat
  BY FavorsOf
<1> QED
  BY <1>1, <1>2 DEF Lessens, Resumes

(* What the votes of w lead to in z, if the program has not failed.               *)
Tells(w, z) == z.failed = "none" => w.failed = "none" /\ (Polled(w) => Polled(z))

LEMMA TellsTwice ==
  ASSUME NEW u, NEW v, NEW w, Tells(u, v), Tells(v, w)
  PROVE  Tells(u, w)
BY DEF Tells

LEMMA ResumesTells ==
  ASSUME rules \in Settings, NEW w, Distinct(w), w.clock \in Nat, NEW z, Distinct(z), Resumes(w, z)
  PROVE  Tells(w, z)
<1>1. Lessens(w, z) /\ z.clock \in Nat
  BY ResumesLessens
<1>2. ASSUME Polled(w) PROVE Polled(z)
  <2>1. Heard(z)
    BY <1>1, <1>2, LessensHeard DEF Polled
  <2>2. Counted(z)
    <3> DEFINE L == {}
    <3>1. L = {}
      OBVIOUS
    <3> HIDE DEF L
    <3>2. Tallied(w, L, L)
      BY <1>2, <3>1, TalliedIsCounted DEF Polled
    <3>3. Tallied(z, L, L)
      BY <3>2, ResumesTallied
    <3> QED
      BY <3>1, <3>3, TalliedIsCounted
  <2> QED
    BY <2>1, <2>2 DEF Polled
<1>3. z.failed = w.failed
  BY DEF Resumes
<1> QED
  BY <1>2, <1>3 DEF Tells

(* What a new game may start from.                                                *)
Sane(w) ==
  /\ w \in Worlds /\ Len(w.maprot) <= Cardinality(rules.maps) /\ Distinct(w)
  /\ w.failed \in {"none", "oldVotes"}

Nought(v) == v.score = [t \in {0, 1} |-> 0] /\ \A f \in Flags : v.flag[f] = AtBase

Fresh(v) == Sound(v) /\ Owned(v) /\ Calm(v) /\ Nought(v)

LEMMA SoundIsSane ==
  ASSUME NEW w, Sound(w)
  PROVE  Sane(w)
BY DEF Sound, Sane, Held

(* A world whose flags are at their bases.                                        *)
LEMMA Returned ==
  ASSUME NEW w, Sane(w), NEW v, v = ReturnAllFlags(w)
  PROVE  /\ Sane(v) /\ v.player = w.player /\ v.rock = w.rock /\ v.db = w.db
         /\ v.maprot = w.maprot /\ v.currmap = w.currmap /\ v.over = w.over
         /\ \A f \in Flags : v.flag[f] = AtBase
         /\ Used(v) = Used(w)
         /\ (\A p \in Used(w) : ~HasFlag(w, p)) => Held(v)
         /\ Resumes(w, v)
<1> DEFINE F == [f \in Flags |-> AtBase]
           B == [f \in Flags |-> {}]
<1>1. F \in [Flags -> FlagState] /\ B \in [Flags -> SUBSET Person]
  BY DEF AtBase, FlagState
<1>2. v = [w EXCEPT !.flag = F, !.by = B]
  BY DEF ReturnAllFlags
<1>3. \A f \in Flags : F[f] = AtBase
  OBVIOUS
<1> HIDE DEF F, B
<1>4. /\ v \in Worlds /\ v.player = w.player /\ v.rock = w.rock /\ v.db = w.db /\ v.flag = F
      /\ v.maprot = w.maprot /\ v.currmap = w.currmap /\ v.over = w.over /\ v.failed = w.failed
      /\ v.missed = w.missed /\ v.clock = w.clock
  BY <1>1, <1>2 DEF Worlds, Sane
<1>5. Used(v) = Used(w)
  BY <1>4 DEF Used
<1>6. Sane(v)
  BY <1>4, <1>5 DEF Sane, Distinct
<1>7. \A f \in Flags : v.flag[f] = AtBase
  BY <1>3, <1>4
<1>8. ASSUME \A p \in Used(w) : ~HasFlag(w, p) PROVE Held(v)
  <2>1. \A p \in Used(v) : ~HasFlag(v, p)
    BY <1>4, <1>5, <1>8 DEF HasFlag
  <2>2. \A f \in Flags : v.flag[f].carrier = -1 /\ v.flag[f].status # "carried"
    BY <1>7 DEF AtBase
  <2>3. v.failed \in {"none", "oldVotes"}
    BY <1>6 DEF Sane
  <2> QED
    BY <2>1, <2>2, <2>3 DEF Held
<1>9. Seated(w, v)
  BY <1>4, <1>5 DEF Seated, Alter
<1>10. Resumes(w, v)
  BY <1>4, <1>9, SeatedResumes
<1> QED
  BY <1>4, <1>5, <1>6, <1>7, <1>8, <1>10

(* ServerWorld::reset leaves nothing of the last game.                            *)
LEMMA ResetIsFresh ==
  ASSUME rules \in Settings, NEW w, Sane(w), NEW v, v = Reset(w)
  PROVE  /\ Fresh(v) /\ v.maprot = w.maprot /\ v.currmap = w.currmap /\ v.over = w.over
         /\ Resumes(w, v)
<1> DEFINE r == ReturnAllFlags(w)
           S == [t \in {0, 1} |-> 0]
           R == [k \in Rocket |-> None]
           P == [p \in Pid |-> IF r.player[p] = None THEN None
                               ELSE [r.player[p] EXCEPT !.dead = TRUE, !.carriedFlag = "none",
                                                        !.infected = None]]
<1>1. v = [r EXCEPT !.score = S, !.period = 1, !.rock = R, !.db = None, !.player = P]
  BY DEF Reset
<1>2. /\ r \in Worlds /\ Sane(r) /\ r.maprot = w.maprot /\ r.currmap = w.currmap
      /\ r.over = w.over /\ \A f \in Flags : r.flag[f] = AtBase
      /\ Resumes(w, r)
  BY Returned DEF Sane
<1> HIDE DEF r
<1>3. \A p \in Pid : r.player[p] \in Player \cup {None}
  BY <1>2 DEF Worlds
<1>4. \A p \in Pid : /\ P[p] \in Player \cup {None} /\ (P[p] = None <=> r.player[p] = None)
                     /\ P[p] # None => /\ Alter(P[p], r.player[p])
                                       /\ P[p].who = r.player[p].who /\ P[p].dead = TRUE
                                       /\ P[p].carriedFlag = "none" /\ P[p].infected = None
  BY <1>3, Names DEF Player, Alter
<1>5. P \in [Pid -> Player \cup {None}]
  BY <1>4
<1>6. S \in [{0, 1} -> Nat] /\ R \in [Rocket -> Owner \cup {None}] /\ 1 \in 1 .. Periods
  BY Ruled
<1>7. \A k \in Rocket : R[k] = None
  OBVIOUS
<1>s. S = [t \in {0, 1} |-> 0]
  OBVIOUS
<1> HIDE DEF P, S, R
<1>8. /\ v \in Worlds /\ v.player = P /\ v.flag = r.flag /\ v.rock = R /\ v.db = None
      /\ v.maprot = r.maprot /\ v.currmap = r.currmap /\ v.over = r.over
      /\ v.failed = r.failed /\ v.score = S /\ v.missed = r.missed /\ v.clock = r.clock
  BY <1>1, <1>2, <1>5, <1>6 DEF Worlds
<1>9. Used(v) = Used(r)
  BY <1>4, <1>8 DEF Used
<1>10. \A p \in Used(v) : /\ v.player[p].who = r.player[p].who /\ v.player[p].dead = TRUE
                          /\ v.player[p].carriedFlag = "none" /\ v.player[p].infected = None
  BY <1>4, <1>8 DEF Used
<1>11. Alive(v) = {}
  BY <1>10 DEF Alive
<1>12. \A f \in Flags : v.flag[f] = AtBase
  BY <1>2, <1>8
<1>13. Held(v)
  <2>1. \A p \in Used(v) : ~HasFlag(v, p)
    BY <1>10 DEF HasFlag
  <2>2. \A f \in Flags : v.flag[f].carrier = -1 /\ v.flag[f].status # "carried"
    BY <1>12 DEF AtBase
  <2>3. v.failed \in {"none", "oldVotes"}
    BY <1>2, <1>8 DEF Sane
  <2> QED
    BY <2>1, <2>2, <2>3 DEF Held
<1>14. Distinct(v)
  BY <1>2, <1>9, <1>10 DEF Distinct, Sane
<1>15. Sound(v)
  BY <1>2, <1>8, <1>13, <1>14 DEF Sound, Sane
<1>16. Owned(v)
  BY <1>7, <1>8, <1>10 DEF Owned, Rightful
<1>17. Calm(v) /\ Nought(v)
  BY <1>7, <1>8, <1>11, <1>12, <1>s DEF Calm, Nought
<1>18. Seated(r, v)
  BY <1>4, <1>8, <1>9 DEF Seated, Used
<1>19. Resumes(w, v)
  BY <1>2, <1>8, <1>18, SeatedResumes, ResumesTwice
<1> QED
  BY <1>2, <1>8, <1>15, <1>16, <1>17, <1>19 DEF Fresh

LEMMA RestartIs ==
  ASSUME NEW w
  PROVE  CtfGameRestart(w) = {Reset(u) : u \in TeamsOf(ReturnAllFlags(w))}
BY Zenon DEF CtfGameRestart, TeamsOf

(* A game may start when nobody is said to carry a flag; or else, when the second *)
(* player comes, if the teams may stay as they are.                               *)
LEMMA RestartIsFresh ==
  ASSUME rules \in Settings, NEW w, Sane(w),
         \/ \A p \in Used(w) : ~HasFlag(w, p)
         \/ ~Uneven(w) /\ Cardinality(Used(w)) <= 2,
         NEW z \in CtfGameRestart(w)
  PROVE  /\ Fresh(z) /\ z.maprot = w.maprot /\ z.currmap = w.currmap /\ z.over = w.over
         /\ Resumes(w, z)
<1> DEFINE v == ReturnAllFlags(w)
<1>1. PICK u \in TeamsOf(v) : z = Reset(u)
  BY RestartIs
<1>2. /\ Sane(v) /\ v.player = w.player /\ Used(v) = Used(w)
      /\ v.maprot = w.maprot /\ v.currmap = w.currmap /\ v.over = w.over
      /\ (\A p \in Used(w) : ~HasFlag(w, p)) => Held(v)
      /\ Resumes(w, v)
  BY Returned
<1> HIDE DEF v
<1>3. /\ Sane(u) /\ u.maprot = v.maprot /\ u.currmap = v.currmap /\ u.over = v.over
      /\ Resumes(v, u)
  <2>1. CASE \A p \in Used(w) : ~HasFlag(w, p)
    <3>1. Sound(v)
      BY <1>2, <2>1 DEF Sound, Sane
    <3>2. Keeps(v, u)
      BY <1>1, <3>1, TeamsKeep
    <3>3. Resumes(v, u)
      BY <3>2, KeepsResumes
    <3> QED
      BY <3>2, <3>3, SoundIsSane DEF Keeps, Follows, Rest
  <2>2. CASE ~Uneven(w) /\ Cardinality(Used(w)) <= 2
    <3>1. Members(v, 0) = Members(w, 0) /\ Members(v, 1) = Members(w, 1)
      BY <1>2 DEF Members
    <3>2. Bigger(v) = Bigger(w) /\ Bigger(w) \in {0, 1}
      BY <3>1 DEF Bigger
    <3>3. ~Uneven(v)
      BY <2>2, <3>1, <3>2 DEF Uneven
    <3>4. u = v
      BY <1>1, <1>2, <2>2, <3>3, TeamsStay
    <3> QED
      BY <1>2, <3>4, NothingResumes
  <2> QED
    BY <2>1, <2>2
<1>4. Fresh(z) /\ z.maprot = u.maprot /\ z.currmap = u.currmap /\ z.over = u.over
      /\ Resumes(u, z)
  BY <1>1, <1>3, ResetIsFresh
<1>5. Resumes(w, z)
  BY <1>2, <1>3, <1>4, ResumesTwice
<1> QED
  BY <1>2, <1>3, <1>4, <1>5

(* finish_stats and the flags' return, as server_next_map does them.              *)
Cleared(w) == ReturnAllFlags(FinishStats(w))

LEMMA ClearedIs ==
  ASSUME rules \in Settings, NEW w, Sane(w), NEW v, v = Cleared(w)
  PROVE  /\ Sane(v) /\ Used(v) = Used(w) /\ v.maprot = w.maprot /\ v.currmap = w.currmap
         /\ \A p \in Used(v) : ~HasFlag(v, p)
         /\ Resumes(w, v)
<1> DEFINE u == FinishStats(w)
           P == [p \in Pid |-> IF w.player[p] = None THEN None
                               ELSE [w.player[p] EXCEPT !.carriedFlag = "none"]]
<1>1. u = [w EXCEPT !.player = P]
  BY DEF FinishStats
<1>2. \A p \in Pid : w.player[p] \in Player \cup {None}
  BY DEF Worlds, Sane
<1>3. \A p \in Pid : /\ P[p] \in Player \cup {None} /\ (P[p] = None <=> w.player[p] = None)
                     /\ P[p] # None => /\ Alter(P[p], w.player[p]) /\ P[p].who = w.player[p].who
                                       /\ P[p].carriedFlag = "none"
  BY <1>2, Names DEF Player, Alter
<1>4. P \in [Pid -> Player \cup {None}]
  BY <1>3
<1> HIDE DEF P
<1>5. /\ u \in Worlds /\ u.player = P /\ u.maprot = w.maprot /\ u.currmap = w.currmap
      /\ u.failed = w.failed /\ u.missed = w.missed /\ u.clock = w.clock
  BY <1>1, <1>4 DEF Worlds, Sane
<1>6. Used(u) = Used(w)
  BY <1>3, <1>5 DEF Used
<1>7. \A p \in Used(u) : u.player[p].who = w.player[p].who /\ u.player[p].carriedFlag = "none"
  BY <1>3, <1>5 DEF Used
<1>8. Sane(u)
  BY <1>5, <1>6, <1>7 DEF Sane, Distinct
<1>11. Resumes(w, u)
  <2>1. Seated(w, u)
    BY <1>3, <1>5, <1>6 DEF Seated, Used
  <2> QED
    BY <1>5, <2>1, SeatedResumes
<1>9. v = ReturnAllFlags(u)
  BY Zenon DEF Cleared
<1> HIDE DEF u
<1>10. /\ Sane(v) /\ v.player = u.player /\ v.maprot = u.maprot /\ v.currmap = u.currmap
       /\ Used(v) = Used(u) /\ Resumes(u, v)
  BY <1>8, <1>9, Returned
<1>12. Resumes(w, v)
  BY <1>10, <1>11, ResumesTwice
<1> QED
  BY <1>5, <1>6, <1>7, <1>10, <1>12 DEF HasFlag

Begun(v) == [v EXCEPT !.over = TRUE, !.clock = 0]

LEMMA BegunIs ==
  ASSUME rules \in Settings, NEW w, Sane(w), NEW v, v = Begun(w)
  PROVE  /\ Sane(v) /\ Used(v) = Used(w) /\ v.player = w.player /\ v.maprot = w.maprot
         /\ v.currmap = w.currmap /\ v.over = TRUE
         /\ Resumes(w, v)
<1>1. 0 \in 0 .. MaxClock
  BY Ruled
<1>2. /\ v \in Worlds /\ v.player = w.player /\ v.maprot = w.maprot /\ v.currmap = w.currmap
      /\ v.over = TRUE /\ v.failed = w.failed /\ v.missed = w.missed /\ v.clock = 0
  BY <1>1 DEF Begun, Worlds, Sane
<1>3. Used(v) = Used(w)
  BY <1>2 DEF Used
<1>4. Seated(w, v)
  BY <1>2, <1>3 DEF Seated, Alter
<1>5. Resumes(w, v)
  BY <1>2, <1>4, SeatedResumes
<1> QED
  BY <1>2, <1>3, <1>5 DEF Sane, Distinct

LEMMA StartMapIsFresh ==
  ASSUME rules \in Settings, NEW w, Sane(w), NEW z \in StartMap(w)
  PROVE  /\ Fresh(z) /\ z.maprot = w.maprot /\ z.currmap = w.currmap /\ z.over = TRUE
         /\ Resumes(w, z)
<1> DEFINE c == Cleared(w)
           b == Begun(c)
<1>1. z \in CtfGameRestart(b)
  BY Zenon DEF StartMap, Cleared, Begun
<1>2. /\ Sane(c) /\ c.maprot = w.maprot /\ c.currmap = w.currmap
      /\ \A p \in Used(c) : ~HasFlag(c, p)
      /\ Resumes(w, c)
  BY ClearedIs
<1> HIDE DEF c
<1>3. /\ Sane(b) /\ Used(b) = Used(c) /\ b.player = c.player /\ b.maprot = c.maprot
      /\ b.currmap = c.currmap /\ b.over = TRUE /\ Resumes(c, b)
  BY <1>2, BegunIs
<1> HIDE DEF b
<1>4. \A p \in Used(b) : ~HasFlag(b, p)
  BY <1>2, <1>3 DEF HasFlag
<1>5. Fresh(z) /\ z.maprot = b.maprot /\ z.currmap = b.currmap /\ z.over = b.over
      /\ Resumes(b, z)
  BY <1>1, <1>3, <1>4, RestartIsFresh
<1>6. Resumes(w, z)
  BY <1>2, <1>3, <1>5, ResumesTwice
<1> QED
  BY <1>2, <1>3, <1>5, <1>6

--------------------------------------------------------------------------------
(* Votes and maps.                                                                *)

(* Nothing but the votes, the maps and the clock differ.                          *)
Same(w, v) ==
  /\ v \in Worlds /\ v.failed \in {"none", "oldVotes"} /\ Len(v.maprot) <= Cardinality(rules.maps)
  /\ v.flag = w.flag /\ v.by = w.by /\ v.score = w.score /\ v.over = w.over
  /\ v.rock = w.rock /\ v.db = w.db
  /\ Used(v) = Used(w)
  /\ \A p \in Used(w) : /\ v.player[p].who = w.player[p].who
                        /\ v.player[p].dead = w.player[p].dead
                        /\ v.player[p].carriedFlag = w.player[p].carriedFlag
                        /\ v.player[p].infected = w.player[p].infected

(* Nor does the time.                                                             *)
SameTime(w, v) == v.clock = w.clock /\ v.period = w.period

LEMMA SameTwice ==
  ASSUME NEW u, NEW v, NEW w, Same(u, v), Same(v, w)
  PROVE  Same(u, w)
BY DEF Same

LEMMA NothingIsSame ==
  ASSUME NEW w, Sane(w)
  PROVE  Same(w, w)
BY DEF Same, Sane

LEMMA SameKeeps ==
  ASSUME NEW w, NEW v, Same(w, v)
  PROVE  /\ Sane(w) => Sane(v)
         /\ Sound(w) => Sound(v) /\ Lower(w, v)
         /\ Owned(w) => Owned(v)
         /\ Calm(w) => Calm(v)
         /\ Nought(w) => Nought(v)
         /\ Traced(w) => Traced(v)
<1>1. Alive(v) = Alive(w)
  BY DEF Same, Alive
<1>2. Distinct(w) => Distinct(v)
  BY DEF Same, Distinct
<1>3. Sane(w) => Sane(v)
  BY <1>2 DEF Same, Sane
<1>4. ASSUME Sound(w) PROVE Sound(v) /\ Lower(w, v)
  <2>1. \A f \in Flags : v.flag[f].carrier = w.flag[f].carrier /\ v.flag[f].status = w.flag[f].status
    BY DEF Same
  <2>2. \A p \in Alive(w) : HasFlag(w, p) =>
           p \in Alive(v) /\ v.player[p].carriedFlag = w.player[p].carriedFlag
                          /\ v.player[p].who = w.player[p].who
    BY <1>1 DEF Same, Alive
  <2>3. \A p \in Used(v) : HasFlag(v, p) => p \in Used(w) /\ HasFlag(w, p)
    BY DEF Same, HasFlag
  <2>4. v.failed \in {"none", "oldVotes"} /\ Held(w)
    BY <1>4 DEF Same, Sound
  <2>5. Held(v) /\ \A f \in Flags : HolderIn(v, f) = HolderIn(w, f)
    BY <2>1, <2>2, <2>3, <2>4, CarriersKeep
  <2> QED
    BY <1>2, <1>4, <2>5 DEF Sound, Same, Lower
<1>5. Owned(w) => Owned(v)
  <2>1. \A s : Rightful(w, s) => Rightful(v, s)
    BY DEF Same, Rightful
  <2> QED
    BY <2>1 DEF Owned, Same
<1>6. Calm(w) => Calm(v)
  BY <1>1 DEF Calm, Same
<1>7. Nought(w) => Nought(v)
  BY DEF Nought, Same
<1>8. Traced(w) => Traced(v)
  <2> DEFINE T == {}
  <2>1. /\ \A p \in T : Unnamed(w, p)
        /\ \A p \in Used(w) \ T : p \in Used(v) /\ v.player[p].who = w.player[p].who
    BY DEF Same
  <2>2. v.flag = w.flag /\ v.by = w.by
    BY DEF Same
  <2> HIDE DEF T
  <2> QED
    BY <2>1, <2>2, PlacesTraced
<1> QED
  BY <1>3, <1>4, <1>5, <1>6, <1>7, <1>8

LEMMA SameIsFresh ==
  ASSUME NEW w, Fresh(w), NEW v, Same(w, v)
  PROVE  Fresh(v)
BY SameKeeps DEF Fresh

(* Changes of some players' votes.                                                *)
MapEntry == [file : rules.maps, votes : Nat]

LEMMA MapsOf ==
  ASSUME NEW w, w \in Worlds
  PROVE  /\ w.maprot \in Seq(MapEntry) /\ Len(w.maprot) \in Nat
         /\ DOMAIN w.maprot = 1 .. Len(w.maprot)
         /\ \A i \in DOMAIN w.maprot : w.maprot[i] \in MapEntry
<1>1. w.maprot \in Seq(MapEntry)
  BY DEF Worlds, MapEntry
<1> HIDE DEF MapEntry
<1> QED
  BY <1>1, SMT

LEMMA ListsOfMaps ==
  ASSUME NEW n \in Nat, NEW m \in [1 .. n -> MapEntry]
  PROVE  m \in Seq(MapEntry) /\ Len(m) = n /\ DOMAIN m = 1 .. n
<1> HIDE DEF MapEntry
<1> QED
  BY SMT

(* A world with other votes, maps, announcements and frames.                      *)
LEMMA VotesDiffer ==
  ASSUME NEW w, Sane(w), NEW v \in Worlds, v.failed \in {"none", "oldVotes"},
         Len(v.maprot) <= Cardinality(rules.maps),
         v.flag = w.flag, v.by = w.by, v.score = w.score, v.over = w.over,
         v.rock = w.rock, v.db = w.db,
         \A p \in Pid : /\ v.player[p] = None <=> w.player[p] = None
                        /\ w.player[p] # None =>
                             /\ v.player[p].who = w.player[p].who
                             /\ v.player[p].dead = w.player[p].dead
                             /\ v.player[p].carriedFlag = w.player[p].carriedFlag
                             /\ v.player[p].infected = w.player[p].infected
  PROVE  Same(w, v)
<1>1. Used(v) = Used(w)
  BY DEF Used
<1>2. \A p \in Used(w) : p \in Pid /\ w.player[p] # None
  BY DEF Used
<1> QED
  BY <1>1, <1>2 DEF Same

LEMMA CountVotesSame ==
  ASSUME rules \in Settings, NEW w, Sane(w), NEW voters \in SUBSET Pid, NEW v, v = CountVotes(w, voters)
  PROVE  /\ Same(w, v) /\ DOMAIN v.maprot = DOMAIN w.maprot /\ v.currmap = w.currmap
         /\ v.player = w.player /\ SameTime(w, v)
<1> DEFINE M == [i \in DOMAIN w.maprot |->
                  [w.maprot[i] EXCEPT !.votes = Cardinality({p \in voters : w.player[p].mapVote = i})]]
           n == Len(w.maprot)
<1>0. w \in Worlds
  BY DEF Sane
<1>1. /\ n \in Nat /\ DOMAIN w.maprot = 1 .. n
      /\ \A i \in DOMAIN w.maprot : w.maprot[i] \in MapEntry
  BY <1>0, MapsOf
<1>2. \A i : Cardinality({p \in voters : w.player[p].mapVote = i}) \in Nat
  <2> SUFFICES ASSUME NEW i PROVE Cardinality({p \in voters : w.player[p].mapVote = i}) \in Nat
    OBVIOUS
  <2>1. {p \in voters : w.player[p].mapVote = i} \in SUBSET Pid
    OBVIOUS
  <2> QED
    BY <2>1, Sides, FS_Subset, FS_CardinalityType
<1>3. M \in [1 .. n -> MapEntry]
  BY <1>1, <1>2 DEF MapEntry
<1>4. v = [w EXCEPT !.maprot = M]
  BY DEF CountVotes
<1> HIDE DEF M, n
<1>5. M \in Seq(MapEntry) /\ Len(M) = n /\ DOMAIN M = 1 .. n
  BY <1>1, <1>3, ListsOfMaps
<1>6. /\ v \in Worlds /\ v.failed = w.failed /\ v.maprot = M /\ v.player = w.player
      /\ v.flag = w.flag /\ v.by = w.by /\ v.score = w.score /\ v.over = w.over
      /\ v.rock = w.rock /\ v.db = w.db /\ v.clock = w.clock /\ v.period = w.period
      /\ v.currmap = w.currmap
  BY <1>0, <1>4, <1>5 DEF Worlds, MapEntry
<1>7. Len(v.maprot) <= Cardinality(rules.maps) /\ v.failed \in {"none", "oldVotes"}
  BY <1>5, <1>6 DEF Sane, n
<1> QED
  BY <1>1, <1>5, <1>6, <1>7, VotesDiffer DEF SameTime

LEMMA ChooseSame ==
  ASSUME rules \in Settings, NEW w, Sane(w), NEW i \in DOMAIN w.maprot, NEW v, v = Choose(w, i)
  PROVE  Same(w, v) /\ DOMAIN v.maprot = DOMAIN w.maprot /\ v.currmap = i /\ v.maprot[i].file = w.maprot[i].file
<1> DEFINE P == [p \in Pid |->
                  IF w.player[p] = None THEN None
                  ELSE [w.player[p] EXCEPT !.want_map_exit = FALSE,
                                           !.mapVote = IF w.player[p].mapVote = i THEN -1
                                                       ELSE w.player[p].mapVote]]
           M == [w.maprot EXCEPT ![i].votes = 0]
           n == Len(w.maprot)
<1>0. w \in Worlds
  BY DEF Sane
<1>1. /\ n \in Nat /\ DOMAIN w.maprot = 1 .. n /\ w.maprot \in Seq(MapEntry)
      /\ \A j \in DOMAIN w.maprot : w.maprot[j] \in MapEntry
  BY <1>0, MapsOf
<1>2. w.maprot = [j \in 1 .. n |-> w.maprot[j]]
  <2> HIDE DEF MapEntry
  <2> QED
    BY <1>1, SMT
<1>3. M \in [1 .. n -> MapEntry] /\ M[i].file = w.maprot[i].file
  BY <1>1, <1>2 DEF MapEntry
<1>4. \A p \in Pid : w.player[p] \in Player \cup {None}
  BY <1>0 DEF Worlds
<1>5. \A p \in Pid : /\ P[p] \in Player \cup {None} /\ (P[p] = None <=> w.player[p] = None)
                     /\ w.player[p] # None => /\ P[p].who = w.player[p].who
                                              /\ P[p].dead = w.player[p].dead
                                              /\ P[p].carriedFlag = w.player[p].carriedFlag
                                              /\ P[p].infected = w.player[p].infected
  BY <1>4, Names DEF Player
<1>6. P \in [Pid -> Player \cup {None}]
  BY <1>5
<1>7. v = [w EXCEPT !.currmap = i, !.maprot = M, !.announced = NotAnnounced, !.player = P]
  BY <1>0, <1>1 DEF Choose, Worlds
<1>8. NotAnnounced \in [votes : Nat, needed : Nat, wait : 0 .. VoteAnnounceInterval] /\ i \in Int
  BY <1>1, Ruled DEF NotAnnounced
<1> HIDE DEF M, P, n
<1>9. M \in Seq(MapEntry) /\ Len(M) = n /\ DOMAIN M = 1 .. n
  BY <1>1, <1>3, ListsOfMaps
<1>10. /\ v \in Worlds /\ v.failed = w.failed /\ v.maprot = M /\ v.player = P
      /\ v.flag = w.flag /\ v.by = w.by /\ v.score = w.score /\ v.over = w.over
      /\ v.rock = w.rock /\ v.db = w.db
      /\ v.currmap = i
  BY <1>0, <1>6, <1>7, <1>8, <1>9 DEF Worlds, MapEntry
<1>11. Len(v.maprot) <= Cardinality(rules.maps) /\ v.failed \in {"none", "oldVotes"}
  BY <1>9, <1>10 DEF Sane, n
<1> QED
  BY <1>1, <1>3, <1>5, <1>9, <1>10, <1>11, VotesDiffer

Mapped(v) == v.currmap \in DOMAIN v.maprot

LEMMA WinnersAreMaps ==
  ASSUME NEW w, NEW i \in Winners(w)
  PROVE  i \in DOMAIN w.maprot
BY Zenon DEF Winners

(* server_next_map with a map that loads.                                         *)
LEMMA NextMapIsFresh ==
  ASSUME rules \in Settings, NEW w, Sane(w), NEW z \in NextMapLoads(w)
  PROVE  Fresh(z) /\ Mapped(z) /\ z.over = TRUE
<1>1. PICK i \in Winners(w) : z \in StartMap(Choose(w, i))
  BY DEF NextMapLoads
<1> DEFINE c == Choose(w, i)
<1>2. Same(w, c) /\ c.currmap = i /\ i \in DOMAIN c.maprot
  BY <1>1, WinnersAreMaps, ChooseSame
<1>3. Sane(c)
  BY <1>2, SameKeeps
<1> HIDE DEF c
<1>4. Fresh(z) /\ z.maprot = c.maprot /\ z.currmap = c.currmap /\ z.over = TRUE
  BY <1>1, <1>3, StartMapIsFresh DEF c
<1> QED
  BY <1>2, <1>4 DEF Mapped

(* reset_settings: what the new list makes of the votes, and of those who are lost. *)
IndexIn(w, files, i) == IF \E j \in DOMAIN files : files[j] = w.maprot[i].file
                        THEN CHOOSE j \in DOMAIN files : files[j] = w.maprot[i].file ELSE -1

VotersOf(w) == {p \in Used(w) : w.player[p].mapVote # -1}
LostBy(w, files) == {p \in VotersOf(w) : IndexIn(w, files, w.player[p].mapVote) = -1}
PeopleAt(u, lost) == {u.player[p].who : p \in lost \cap Used(u)}

Uncounted(w, files) ==
  [w EXCEPT
     !.maprot = [i \in DOMAIN files |-> [file |-> files[i], votes |-> 0]],
     !.currmap = IndexIn(w, files, w.currmap),
     !.player = [p \in Pid |->
       IF p \notin VotersOf(w) \ LostBy(w, files) THEN w.player[p]
       ELSE [w.player[p] EXCEPT !.mapVote = IndexIn(w, files, w.player[p].mapVote)]]]

Relisted(w, files) == CountVotes(Uncounted(w, files), VotersOf(w) \ LostBy(w, files))

Unvoted(u, lost) ==
  [u EXCEPT !.player = [p \in Pid |-> IF p \in lost THEN [u.player[p] EXCEPT !.mapVote = -1]
                                      ELSE u.player[p]]]

LEMMA ResetSettingsIs ==
  ASSUME NEW w \in Worlds, NEW files, NEW z \in ResetSettings(w, files)
  PROVE  LET v == Relisted(w, files)
             lost == LostBy(w, files)
         IN  \E u \in IF v.currmap = -1 THEN NextMapLoads(v) ELSE {v} :
               z = IF PeopleAt(u, lost) # PeopleAt(w, lost) THEN Fail(u, "oldVotes")
                   ELSE Unvoted(u, lost)
BY Zenon DEF ResetSettings, Relisted, Uncounted, Unvoted, IndexIn, VotersOf, LostBy, PeopleAt

LEMMA FilesOf ==
  ASSUME rules \in Settings, NEW files \in Lists
  PROVE  \E n \in Nat : /\ n <= Cardinality(rules.maps) /\ files \in [1 .. n -> rules.maps]
                        /\ DOMAIN files = 1 .. n
<1>1. PICK n \in 1 .. Cardinality(rules.maps) : files \in [1 .. n -> rules.maps]
  BY DEF Lists
<1> QED
  BY <1>1, Ruled

LEMMA IndexIsIn ==
  ASSUME NEW w, NEW files, NEW i
  PROVE  IndexIn(w, files, i) \in DOMAIN files \cup {-1}
BY DEF IndexIn

Kept(w, files) == VotersOf(w) \ LostBy(w, files)

LEMMA UncountedSame ==
  ASSUME rules \in Settings, NEW w, Sane(w), NEW files \in Lists, NEW c, c = Uncounted(w, files)
  PROVE  /\ Same(w, c) /\ SameTime(w, c) /\ c.failed = w.failed /\ c.missed = w.missed
         /\ DOMAIN c.maprot = DOMAIN files /\ DOMAIN files \subseteq Nat \ {0}
         /\ c.currmap = IndexIn(w, files, w.currmap) /\ (c.currmap # -1 => Mapped(c))
         /\ \A p \in Used(w) :
              c.player[p] = IF p \notin Kept(w, files) THEN w.player[p]
                            ELSE [w.player[p] EXCEPT !.mapVote = IndexIn(w, files, w.player[p].mapVote)]
<1> DEFINE kept == Kept(w, files)
           M == [i \in DOMAIN files |-> [file |-> files[i], votes |-> 0]]
           k == IndexIn(w, files, w.currmap)
           P == [p \in Pid |->
                  IF p \notin kept THEN w.player[p]
                  ELSE [w.player[p] EXCEPT !.mapVote = IndexIn(w, files, w.player[p].mapVote)]]
<1>0. w \in Worlds
  BY DEF Sane
<1>1. PICK n \in Nat : /\ n <= Cardinality(rules.maps) /\ files \in [1 .. n -> rules.maps]
                       /\ DOMAIN files = 1 .. n
  BY FilesOf
<1>2. kept \subseteq Used(w) /\ kept \in SUBSET Pid
  BY DEF Kept, VotersOf, Used
<1>3. \A p \in Pid : w.player[p] \in Player \cup {None}
  BY <1>0 DEF Worlds
<1>4. \A p \in kept : p \in Pid /\ w.player[p] # None
  BY <1>2 DEF Used
<1>5. \A p : IndexIn(w, files, p) \in 1 .. n \cup {-1}
  BY <1>1, IndexIsIn
<1>6. 1 .. n \subseteq 1 .. Cardinality(rules.maps)
  BY <1>1, Ruled
<1>7. c = [w EXCEPT !.maprot = M, !.currmap = k, !.player = P]
  BY DEF Uncounted, Kept
<1>8. M \in [1 .. n -> MapEntry]
  BY <1>1 DEF MapEntry
<1>p. \A p \in Used(w) : P[p] = IF p \notin kept THEN w.player[p]
                     ELSE [w.player[p] EXCEPT !.mapVote = IndexIn(w, files, w.player[p].mapVote)]
  BY DEF Used
<1> HIDE DEF kept, M
<1>9. \A p \in Pid : /\ P[p] \in Player \cup {None} /\ (P[p] = None <=> w.player[p] = None)
                     /\ w.player[p] # None => /\ P[p].who = w.player[p].who
                                              /\ P[p].dead = w.player[p].dead
                                              /\ P[p].carriedFlag = w.player[p].carriedFlag
                                              /\ P[p].infected = w.player[p].infected
  <2> SUFFICES ASSUME NEW p \in Pid
               PROVE  /\ P[p] \in Player \cup {None} /\ (P[p] = None <=> w.player[p] = None)
                      /\ w.player[p] # None => /\ P[p].who = w.player[p].who
                                               /\ P[p].dead = w.player[p].dead
                                               /\ P[p].carriedFlag = w.player[p].carriedFlag
                                               /\ P[p].infected = w.player[p].infected
    OBVIOUS
  <2>1. CASE p \notin kept
    BY <1>3, <2>1
  <2>2. CASE p \in kept
    <3> DEFINE j == IndexIn(w, files, w.player[p].mapVote)
    <3>1. j \in 1 .. Cardinality(rules.maps) \cup {-1}
      BY <1>5, <1>6
    <3>2. w.player[p] \in Player /\ w.player[p] # None
      BY <1>3, <1>4, <2>2
    <3>3. P[p] = [w.player[p] EXCEPT !.mapVote = j]
      BY <2>2
    <3> HIDE DEF j, P
    <3>4. P[p] \in Player
      BY <3>1, <3>2, <3>3 DEF Player
    <3> QED
      BY <3>2, <3>3, <3>4, Names DEF Player
  <2> QED
    BY <2>1, <2>2
<1>10. P \in [Pid -> Player \cup {None}]
  BY <1>9
<1>11. k \in Int /\ k \in 1 .. n \cup {-1}
  BY <1>5
<1>12. M \in Seq(MapEntry) /\ Len(M) = n /\ DOMAIN M = 1 .. n
  BY <1>8, ListsOfMaps
<1> HIDE DEF P, k
<1>13. /\ c \in Worlds /\ c.failed = w.failed /\ c.maprot = M /\ c.player = P
       /\ c.flag = w.flag /\ c.by = w.by /\ c.score = w.score /\ c.over = w.over
       /\ c.rock = w.rock /\ c.db = w.db /\ c.clock = w.clock /\ c.period = w.period
       /\ c.currmap = k /\ c.missed = w.missed
  BY <1>0, <1>7, <1>10, <1>11, <1>12 DEF Worlds, MapEntry
<1>14. Len(c.maprot) <= Cardinality(rules.maps) /\ c.failed \in {"none", "oldVotes"}
  BY <1>1, <1>12, <1>13 DEF Sane
<1>15. Same(w, c)
  BY <1>9, <1>13, <1>14, VotesDiffer
<1>16. c.currmap # -1 => Mapped(c)
  BY <1>11, <1>12, <1>13 DEF Mapped
<1>17. DOMAIN c.maprot = DOMAIN files /\ DOMAIN files \subseteq Nat \ {0}
  BY <1>1, <1>12, <1>13
<1> QED
  BY <1>p, <1>13, <1>15, <1>16, <1>17 DEF SameTime, k, kept

LEMMA RelistedSame ==
  ASSUME rules \in Settings, NEW w, Sane(w), NEW files \in Lists, NEW v, v = Relisted(w, files)
  PROVE  /\ Same(w, v) /\ v.currmap = IndexIn(w, files, w.currmap)
         /\ v.currmap # -1 => Mapped(v)
         /\ SameTime(w, v)
<1> DEFINE kept == Kept(w, files)
           c == Uncounted(w, files)
<1>1. /\ Same(w, c) /\ SameTime(w, c)
      /\ c.currmap = IndexIn(w, files, w.currmap) /\ (c.currmap # -1 => Mapped(c))
  BY UncountedSame
<1>2. v = CountVotes(c, kept) /\ kept \in SUBSET Pid
  BY DEF Relisted, Kept, VotersOf, Used
<1> HIDE DEF c, kept
<1>3. Sane(c)
  BY <1>1, SameKeeps
<1>4. /\ Same(c, v) /\ DOMAIN v.maprot = DOMAIN c.maprot /\ v.currmap = c.currmap
      /\ SameTime(c, v)
  BY <1>2, <1>3, CountVotesSame
<1> QED
  BY <1>1, <1>4, SameTwice DEF Mapped, SameTime

(* Players found again by their places: if they are the people that they were,    *)
(* there is one at each place.                                                    *)
LEMMA PeopleAreThere ==
  ASSUME NEW w, Sane(w), NEW u, NEW lost \in SUBSET Used(w), PeopleAt(u, lost) = PeopleAt(w, lost)
  PROVE  lost \subseteq Used(u)
<1> DEFINE S == PeopleAt(w, lost)
           there == lost \cap Used(u)
           f == [p \in lost |-> w.player[p].who]
           g == [p \in there |-> u.player[p].who]
<1>1. IsFiniteSet(lost) /\ IsFiniteSet(there) /\ there \subseteq lost
  BY Teams, FS_Subset
<1>2. S = {w.player[p].who : p \in lost}
  <2>1. lost \cap Used(w) = lost
    OBVIOUS
  <2> QED
    BY <2>1 DEF PeopleAt
<1>3. \A p, q \in lost : w.player[p].who = w.player[q].who => p = q
  BY DEF Sane, Distinct
<1>4. S = {u.player[p].who : p \in there}
  BY DEF PeopleAt
<1> HIDE DEF S, there
<1>5. g \in Surjection(there, S)
  BY <1>4 DEF Surjection
<1>6. IsFiniteSet(S) /\ Cardinality(S) <= Cardinality(there)
  BY <1>1, <1>5, FS_Surjection
<1>7. f \in Injection(lost, S)
  BY <1>2, <1>3 DEF Injection, IsInjective
<1>8. Cardinality(lost) <= Cardinality(S)
  BY <1>6, <1>7, FS_Injection
<1>9. /\ Cardinality(lost) \in Nat /\ Cardinality(S) \in Nat /\ Cardinality(there) \in Nat
      /\ Cardinality(there) = Cardinality(lost) => there = lost
      /\ Cardinality(there) <= Cardinality(lost)
  BY <1>1, <1>6, FS_CardinalityType, FS_Subset
<1>10. there = lost
  BY <1>6, <1>8, <1>9
<1> QED
  BY <1>10 DEF there

LEMMA UnvotedSame ==
  ASSUME rules \in Settings, NEW u, Sane(u), NEW lost, lost \subseteq Used(u), NEW z, z = Unvoted(u, lost)
  PROVE  /\ Same(u, z) /\ z.maprot = u.maprot /\ z.currmap = u.currmap /\ z.over = u.over
         /\ SameTime(u, z)
<1> DEFINE P == [p \in Pid |-> IF p \in lost THEN [u.player[p] EXCEPT !.mapVote = -1]
                               ELSE u.player[p]]
<1>0. u \in Worlds
  BY DEF Sane
<1>1. \A p \in Pid : u.player[p] \in Player \cup {None}
  BY <1>0 DEF Worlds
<1>2. \A p \in lost : p \in Pid /\ u.player[p] # None
  BY DEF Used
<1>3. \A p \in Pid : /\ P[p] \in Player \cup {None} /\ (P[p] = None <=> u.player[p] = None)
                     /\ u.player[p] # None => /\ P[p].who = u.player[p].who
                                              /\ P[p].dead = u.player[p].dead
                                              /\ P[p].carriedFlag = u.player[p].carriedFlag
                                              /\ P[p].infected = u.player[p].infected
  BY <1>1, <1>2, Names DEF Player
<1>4. P \in [Pid -> Player \cup {None}]
  BY <1>3
<1>5. z = [u EXCEPT !.player = P]
  BY DEF Unvoted
<1> HIDE DEF P
<1>6. /\ z \in Worlds /\ z.failed = u.failed /\ z.maprot = u.maprot /\ z.player = P
      /\ z.flag = u.flag /\ z.by = u.by /\ z.score = u.score /\ z.over = u.over
      /\ z.rock = u.rock /\ z.db = u.db /\ z.clock = u.clock /\ z.period = u.period
      /\ z.currmap = u.currmap
  BY <1>0, <1>4, <1>5 DEF Worlds
<1> QED
  BY <1>3, <1>6, VotesDiffer DEF Sane, SameTime

LEMMA FailSame ==
  ASSUME NEW u, Sane(u), NEW z, z = Fail(u, "oldVotes")
  PROVE  /\ Same(u, z) /\ z.maprot = u.maprot /\ z.currmap = u.currmap /\ z.over = u.over
         /\ SameTime(u, z)
<1>1. /\ z \in Worlds /\ z.failed = "oldVotes" /\ z.maprot = u.maprot /\ z.player = u.player
      /\ z.flag = u.flag /\ z.by = u.by /\ z.score = u.score /\ z.over = u.over
      /\ z.rock = u.rock /\ z.db = u.db /\ z.clock = u.clock /\ z.period = u.period
      /\ z.currmap = u.currmap
  BY DEF Fail, Worlds, Sane
<1> QED
  BY <1>1, VotesDiffer DEF Sane, SameTime

(* The same game goes on, with a map of the list, or a new one is announced.      *)
Renewed(z) == Fresh(z) /\ Mapped(z) /\ z.over = TRUE
Passes(w, z) == (Same(w, z) /\ (Mapped(w) => Mapped(z))) \/ Renewed(z)
GoesOn(w, z) == (Same(w, z) /\ SameTime(w, z) /\ (Mapped(w) => Mapped(z))) \/ Renewed(z)

LEMMA SameRenewed ==
  ASSUME NEW w, Renewed(w), NEW z, Same(w, z), Mapped(z)
  PROVE  Renewed(z)
BY SameIsFresh DEF Renewed, Same

LEMMA GoesOnTwice ==
  ASSUME NEW u, NEW v, NEW w, GoesOn(u, v), GoesOn(v, w)
  PROVE  GoesOn(u, w)
<1>1. CASE Renewed(w)
  BY <1>1 DEF GoesOn
<1>2. CASE ~Renewed(w)
  <2>1. Same(v, w) /\ SameTime(v, w) /\ (Mapped(v) => Mapped(w))
    BY <1>2 DEF GoesOn
  <2>2. ~Renewed(v)
    BY <1>2, <2>1, SameRenewed DEF Renewed
  <2>3. Same(u, v) /\ SameTime(u, v) /\ (Mapped(u) => Mapped(v))
    BY <2>2 DEF GoesOn
  <2> QED
    BY <2>1, <2>3, SameTwice DEF GoesOn, SameTime
<1> QED
  BY <1>1, <1>2

LEMMA ResetSettingsGoesOn ==
  ASSUME rules \in Settings, NEW w, Sane(w), NEW files \in Lists, NEW z \in ResetSettings(w, files)
  PROVE  /\ GoesOn(w, z) /\ Mapped(z)
         /\ IndexIn(w, files, w.currmap) = -1 => Renewed(z)
<1> DEFINE v == Relisted(w, files)
           lost == LostBy(w, files)
<1>0. w \in Worlds
  BY DEF Sane
<1>1. PICK u \in IF v.currmap = -1 THEN NextMapLoads(v) ELSE {v} :
               z = IF PeopleAt(u, lost) # PeopleAt(w, lost) THEN Fail(u, "oldVotes")
                   ELSE Unvoted(u, lost)
  BY <1>0, ResetSettingsIs
<1>2. /\ Same(w, v) /\ v.currmap = IndexIn(w, files, w.currmap)
      /\ v.currmap # -1 => Mapped(v)
      /\ SameTime(w, v)
  BY RelistedSame
<1>3. lost \in SUBSET Used(w)
  BY DEF LostBy, VotersOf
<1> HIDE DEF v, lost
<1>4. Sane(v)
  BY <1>2, SameKeeps
<1>5. CASE v.currmap = -1
  <2>1. Renewed(u)
    BY <1>1, <1>4, <1>5, NextMapIsFresh DEF Renewed
  <2>2. Sane(u)
    BY <2>1, SoundIsSane DEF Renewed, Fresh
  <2>3. Same(u, z) /\ z.maprot = u.maprot /\ z.currmap = u.currmap
    <3>1. CASE PeopleAt(u, lost) # PeopleAt(w, lost)
      BY <1>1, <2>2, <3>1, FailSame
    <3>2. CASE PeopleAt(u, lost) = PeopleAt(w, lost)
      <4>1. lost \subseteq Used(u)
        BY <1>3, <3>2, PeopleAreThere
      <4> QED
        BY <1>1, <2>2, <3>2, <4>1, UnvotedSame
    <3> QED
      BY <3>1, <3>2
  <2>4. Renewed(z)
    BY <2>1, <2>3, SameRenewed DEF Renewed, Mapped
  <2> QED
    BY <2>4 DEF GoesOn, Renewed
<1>6. CASE v.currmap # -1
  <2>1. u = v
    BY <1>1, <1>6
  <2>2. Same(v, z) /\ z.maprot = v.maprot /\ z.currmap = v.currmap /\ SameTime(v, z)
    <3>1. CASE PeopleAt(u, lost) # PeopleAt(w, lost)
      BY <1>1, <1>4, <2>1, <3>1, FailSame
    <3>2. CASE PeopleAt(u, lost) = PeopleAt(w, lost)
      <4>1. lost \subseteq Used(u)
        BY <1>3, <3>2, PeopleAreThere
      <4> QED
        BY <1>1, <1>4, <2>1, <3>2, <4>1, UnvotedSame
    <3> QED
      BY <3>1, <3>2
  <2>3. Same(w, z) /\ SameTime(w, z)
    BY <1>2, <2>2, SameTwice DEF SameTime
  <2>4. Mapped(z)
    BY <1>2, <1>6, <2>2 DEF Mapped
  <2> QED
    BY <1>2, <1>6, <2>3, <2>4 DEF GoesOn
<1> QED
  BY <1>5, <1>6

LEMMA SameGoesOn ==
  ASSUME NEW w, NEW z, Same(w, z), SameTime(w, z),
         DOMAIN z.maprot = DOMAIN w.maprot, z.currmap = w.currmap
  PROVE  GoesOn(w, z)
BY DEF GoesOn, Mapped

LEMMA GoesOnIsSane ==
  ASSUME NEW w, Sane(w), NEW z, GoesOn(w, z)
  PROVE  Sane(z)
BY SameKeeps, SoundIsSane DEF GoesOn, Renewed, Fresh

(* server_next_map with a map that is not there any more.                         *)
AtStart(v) == [v EXCEPT !.clock = 0]

LEMMA CannotLoadRenews ==
  ASSUME rules \in Settings, NEW w, Sane(w), NEW i \in DOMAIN w.maprot, NEW z \in CannotLoad(w, i)
  PROVE  Renewed(z)
<1> DEFINE c == Choose(w, i)
           d == Cleared(c)
           e == AtStart(d)
<1>1. PICK files \in Lists : /\ \A j \in DOMAIN files : files[j] # w.maprot[i].file
                             /\ z \in ResetSettings(e, files)
  BY Zenon DEF CannotLoad, Cleared, AtStart
<1>2. Same(w, c) /\ c.currmap = i /\ c.maprot[i].file = w.maprot[i].file
  BY ChooseSame
<1> HIDE DEF c
<1>3. Sane(c)
  BY <1>2, SameKeeps
<1>4. Sane(d) /\ d.maprot = c.maprot /\ d.currmap = c.currmap
  BY <1>3, ClearedIs
<1> HIDE DEF d
<1>5. Sane(e) /\ e.maprot = d.maprot /\ e.currmap = d.currmap
  <2>1. 0 \in 0 .. MaxClock
    BY Ruled
  <2>2. /\ e \in Worlds /\ e.player = d.player /\ e.failed = d.failed
        /\ e.maprot = d.maprot /\ e.currmap = d.currmap
    BY <1>4, <2>1 DEF AtStart, Worlds, Sane
  <2>3. Used(e) = Used(d)
    BY <2>2 DEF Used
  <2> QED
    BY <1>4, <2>2, <2>3 DEF Sane, Distinct
<1> HIDE DEF e
<1>6. IndexIn(e, files, e.currmap) = -1
  BY <1>1, <1>2, <1>4, <1>5 DEF IndexIn
<1> QED
  BY <1>1, <1>5, <1>6, ResetSettingsGoesOn

LEMMA NextMapRenews ==
  ASSUME rules \in Settings, NEW w, Sane(w), NEW z \in ServerNextMap(w)
  PROVE  Renewed(z)
<1>1. z \in NextMapLoads(w) \/ \E i \in Winners(w) : z \in CannotLoad(w, i)
  BY DEF ServerNextMap
<1>2. \A i \in Winners(w) : z \in CannotLoad(w, i) => Renewed(z)
  BY WinnersAreMaps, CannotLoadRenews
<1> QED
  BY <1>1, <1>2, NextMapIsFresh DEF Renewed

LEMMA CheckMapExitGoesOn ==
  ASSUME rules \in Settings, NEW w, Sane(w), NEW z \in CheckMapExit(w)
  PROVE  GoesOn(w, z)
<1> DEFINE v == CountVotes(w, Used(w))
<1>0. Used(w) \in SUBSET Pid
  BY DEF Used
<1>1. /\ Same(w, v) /\ DOMAIN v.maprot = DOMAIN w.maprot /\ v.currmap = w.currmap
      /\ SameTime(w, v)
  BY <1>0, CountVotesSame
<1>2. z = v \/ z \in ServerNextMap(v)
  BY DEF CheckMapExit
<1> HIDE DEF v
<1>3. Sane(v)
  BY <1>1, SameKeeps
<1>4. z = v => GoesOn(w, z)
  BY <1>1, SameGoesOn
<1>5. z \in ServerNextMap(v) => GoesOn(w, z)
  BY <1>3, NextMapRenews DEF GoesOn
<1> QED
  BY <1>2, <1>4, <1>5

(* Changes of what is told of the votes.                                          *)
Announced(w, a, m, c, z) ==
  /\ a \in [votes : Nat, needed : Nat, wait : 0 .. VoteAnnounceInterval]
  /\ m \in BOOLEAN /\ c \in 0 .. MaxClock
  /\ z = [w EXCEPT !.announced = a, !.missed = m, !.clock = c]

LEMMA AnnouncedSame ==
  ASSUME NEW w, Sane(w), NEW a, NEW m, NEW c, NEW z, Announced(w, a, m, c, z)
  PROVE  Same(w, z) /\ Passes(w, z) /\ z.clock = c /\ z.period = w.period
<1>1. /\ z \in Worlds /\ z.failed = w.failed /\ z.maprot = w.maprot /\ z.player = w.player
      /\ z.flag = w.flag /\ z.by = w.by /\ z.score = w.score /\ z.over = w.over
      /\ z.rock = w.rock /\ z.db = w.db /\ z.clock = c /\ z.period = w.period
      /\ z.currmap = w.currmap
  BY DEF Worlds, Sane, Announced
<1>2. Same(w, z)
  BY <1>1, VotesDiffer DEF Sane
<1> QED
  BY <1>1, <1>2 DEF Passes, Mapped

LEMMA AnnouncedGoesOn ==
  ASSUME NEW w, Sane(w), NEW a \in [votes : Nat, needed : Nat, wait : 0 .. VoteAnnounceInterval],
         NEW m \in BOOLEAN, NEW z, z = [w EXCEPT !.announced = a, !.missed = m]
  PROVE  GoesOn(w, z)
<1>1. Announced(w, a, m, w.clock, z)
  BY DEF Announced, Sane, Worlds
<1>2. Same(w, z) /\ Passes(w, z) /\ z.clock = w.clock /\ z.period = w.period
  BY <1>1, AnnouncedSame
<1>3. z.maprot = w.maprot /\ z.currmap = w.currmap
  BY DEF Sane, Worlds
<1> QED
  BY <1>2, <1>3, SameGoesOn DEF SameTime

LEMMA TellVotesAnnounces ==
  ASSUME rules \in Settings, NEW w \in Worlds
  PROVE  \E a \in [votes : Nat, needed : Nat, wait : 0 .. VoteAnnounceInterval] :
           TellVotes(w) = [w EXCEPT !.announced = a]
<1> DEFINE votes  == Cardinality(InFavor(w))
           needed == Cardinality(Used(w)) \div 2 + 1
           a == [votes |-> votes, needed |-> needed, wait |-> VoteAnnounceInterval]
<1>1. Used(w) \subseteq Pid /\ InFavor(w) \subseteq Pid
  BY DEF Used, InFavor
<1>2. votes \in Nat /\ Cardinality(Used(w)) \in Nat
  BY <1>1, Sides, FS_Subset, FS_CardinalityType
<1>3. needed \in Nat
  <2>1. \A n \in Nat : n \div 2 + 1 \in Nat
    BY SMT
  <2> QED
    BY <1>2, <2>1
<1>4. a \in [votes : Nat, needed : Nat, wait : 0 .. VoteAnnounceInterval]
  BY <1>2, <1>3, Ruled
<1>5. w.announced \in [votes : Nat, needed : Nat, wait : 0 .. VoteAnnounceInterval]
  BY DEF Worlds
<1>6. TellVotes(w) = w \/ TellVotes(w) = [w EXCEPT !.announced = a]
  BY DEF TellVotes
<1>7. w = [w EXCEPT !.announced = w.announced]
  BY DEF Worlds
<1> HIDE DEF a
<1> QED
  BY <1>4, <1>5, <1>6, <1>7

LEMMA AnnounceVotesGoesOn ==
  ASSUME rules \in Settings, NEW w, Sane(w), NEW z \in AnnounceVotes(w)
  PROVE  GoesOn(w, z)
<1> DEFINE Told == [votes : Nat, needed : Nat, wait : 0 .. VoteAnnounceInterval]
<1>0. w \in Worlds /\ w.announced \in Told /\ w.missed \in BOOLEAN /\ w.clock \in 0 .. MaxClock
  BY DEF Worlds, Sane
<1>1. PICK a \in Told : TellVotes(w) = [w EXCEPT !.announced = a]
  BY <1>0, TellVotesAnnounces
<1> HIDE DEF Told
<1> DEFINE late == IF w.clock = rules.vote_block_time THEN Majority(w) ELSE w.missed
           m == [w EXCEPT !.missed = late]
           t == [w EXCEPT !.announced = a, !.missed = FALSE]
<1>2. \/ z = w \/ z = m \/ z = TellVotes(w)
      \/ z \in CheckMapExit([TellVotes(w) EXCEPT !.missed = FALSE])
  BY DEF AnnounceVotes
<1>a. Majority(w) \in BOOLEAN
  BY DEF Majority
<1>b. late \in BOOLEAN
  BY <1>0, <1>a
<1> HIDE DEF late
<1>3. m = [w EXCEPT !.announced = w.announced, !.missed = late]
  BY <1>0 DEF Worlds
<1>4. GoesOn(w, m)
  BY <1>0, <1>3, <1>b, AnnouncedGoesOn DEF Told
<1>5. TellVotes(w) = [w EXCEPT !.announced = a, !.missed = w.missed]
  BY <1>0, <1>1 DEF Worlds
<1>6. GoesOn(w, TellVotes(w))
  BY <1>0, <1>5, AnnouncedGoesOn DEF Told
<1>7. [TellVotes(w) EXCEPT !.missed = FALSE] = t
  BY <1>0, <1>1 DEF Worlds
<1>8. GoesOn(w, t)
  BY <1>0, AnnouncedGoesOn DEF Told
<1> HIDE DEF t, m
<1>9. Sane(t)
  BY <1>8, GoesOnIsSane
<1>10. z \in CheckMapExit(t) => GoesOn(w, z)
  BY <1>8, <1>9, CheckMapExitGoesOn, GoesOnTwice
<1>11. GoesOn(w, w)
  BY NothingIsSame, SameGoesOn DEF SameTime
<1> QED
  BY <1>2, <1>4, <1>6, <1>7, <1>10, <1>11

LEMMA NextFramePasses ==
  ASSUME rules \in Settings, NEW w, Sane(w)
  PROVE  /\ Passes(w, NextFrame(w)) /\ Same(w, NextFrame(w))
         /\ NextFrame(w).clock \in Nat /\ NextFrame(w).clock <= w.clock + 1
         /\ NextFrame(w).period = w.period
<1> DEFINE a == [w.announced EXCEPT !.wait = Max({w.announced.wait - 1, 0})]
           c == Min({w.clock + 1, MaxClock})
<1>1. /\ w \in Worlds /\ w.missed \in BOOLEAN /\ w.clock \in 0 .. MaxClock
      /\ w.announced \in [votes : Nat, needed : Nat, wait : 0 .. VoteAnnounceInterval]
  BY DEF Worlds, Sane
<1>2. MaxClock \in Nat /\ VoteAnnounceInterval \in Nat
  BY Ruled
<1>3. c \in 0 .. MaxClock /\ c <= w.clock + 1
  <2>1. w.clock + 1 \in Int /\ MaxClock \in Int /\ w.clock + 1 >= 0
    BY <1>1, <1>2
  <2>2. c = IF w.clock + 1 <= MaxClock THEN w.clock + 1 ELSE MaxClock
    BY <2>1, Larger
  <2> QED
    BY <1>2, <2>1, <2>2
<1>4. Max({w.announced.wait - 1, 0}) \in 0 .. VoteAnnounceInterval
  BY <1>1, <1>2, Larger
<1>5. a \in [votes : Nat, needed : Nat, wait : 0 .. VoteAnnounceInterval]
  BY <1>1, <1>4
<1> DEFINE z == NextFrame(w)
<1>6. z = [w EXCEPT !.announced = a, !.missed = w.missed, !.clock = c]
  BY <1>1 DEF NextFrame, Worlds
<1>8. Announced(w, a, w.missed, c, z)
  <2> HIDE DEF a, c, z
  <2> QED
    BY <1>1, <1>3, <1>5, <1>6 DEF Announced
<1> HIDE DEF a, c, z
<1>7. Same(w, z) /\ Passes(w, z) /\ z.clock = c /\ z.period = w.period
  BY <1>8, AnnouncedSame
<1> QED
  BY <1>2, <1>3, <1>7 DEF z

(* The check of the time.                                                         *)
LEMMA PeriodPasses ==
  ASSUME NEW w, Sane(w), NEW n \in 1 .. Periods, NEW z, z = [w EXCEPT !.period = n]
  PROVE  Passes(w, z) /\ Same(w, z) /\ z.clock = w.clock /\ z.period = n
<1>1. /\ z \in Worlds /\ z.failed = w.failed /\ z.maprot = w.maprot /\ z.player = w.player
      /\ z.flag = w.flag /\ z.by = w.by /\ z.score = w.score /\ z.over = w.over
      /\ z.rock = w.rock /\ z.db = w.db /\ z.clock = w.clock /\ z.period = n
      /\ z.currmap = w.currmap
  BY DEF Worlds, Sane
<1>2. Same(w, z)
  BY <1>1, VotesDiffer DEF Sane
<1> QED
  BY <1>1, <1>2 DEF Passes, Mapped

LEMMA TimeCheckPasses ==
  ASSUME rules \in Settings, NEW w, Sane(w), NEW z \in TimeCheck(w)
  PROVE  Passes(w, z)
<1>1. \/ z = w \/ z \in ServerNextMap(w) \/ z = [w EXCEPT !.period = 1]
      \/ rules.extra_time_periods > w.period /\ z = [w EXCEPT !.period = w.period + 1]
  BY DEF TimeCheck
<1>2. /\ w.period \in 1 .. Periods /\ Periods \in Nat /\ Periods >= 1
      /\ rules.extra_time_periods \in Nat /\ rules.extra_time_periods <= Periods
  BY Ruled DEF Worlds, Sane
<1>3. CASE z = w
  BY <1>3, NothingIsSame DEF Passes
<1>4. CASE z \in ServerNextMap(w)
  BY <1>4, NextMapRenews DEF Passes
<1>5. CASE z = [w EXCEPT !.period = 1]
  BY <1>2, <1>5, PeriodPasses
<1>6. CASE rules.extra_time_periods > w.period /\ z = [w EXCEPT !.period = w.period + 1]
  <2>1. w.period + 1 \in 1 .. Periods
    BY <1>2, <1>6
  <2> QED
    BY <1>6, <2>1, PeriodPasses
<1> QED
  BY <1>1, <1>3, <1>4, <1>5, <1>6

--------------------------------------------------------------------------------
(* The ends of games, by score and by time.                                       *)

LEMMA Numbers ==
  ASSUME rules \in Settings
  PROVE  /\ rules.time_limit \in Nat /\ rules.extra_time \in Nat
         /\ rules.capture_limit \in Nat /\ rules.win_score_difference \in Nat
         /\ rules.sudden_death \in BOOLEAN
BY SettingsAssumption

LEMMA NumbersOf ==
  ASSUME rules \in Settings, NEW w \in Worlds
  PROVE  /\ w.clock \in Nat /\ w.period \in Nat /\ w.period <= Periods
         /\ w.score[0] \in Nat /\ w.score[1] \in Nat
<1>1. w.clock \in 0 .. MaxClock /\ w.period \in 1 .. Periods /\ w.score \in [{0, 1} -> Nat]
  BY DEF Worlds
<1> QED
  BY <1>1, Ruled

LEMMA SeveralAreTwo ==
  ASSUME NEW w
  PROVE  Several(w) <=> Cardinality(Used(w)) >= 2
<1>0. IsFiniteSet(Used(w)) /\ Cardinality(Used(w)) \in Nat
  BY Teams
<1>1. ASSUME Several(w) PROVE Cardinality(Used(w)) >= 2
  <2>1. PICK p \in Used(w) : \E q \in Used(w) : p # q
    BY <1>1 DEF Several
  <2>2. PICK q \in Used(w) : p # q
    BY <2>1
  <2>3. IsFiniteSet({p}) /\ Cardinality({p}) = 1
    BY FS_Singleton
  <2>4. {q} \cup {p} = {p} \cup {q} /\ q \notin {p}
    BY <2>2
  <2>5. Cardinality({p} \cup {q}) = 2
    BY <2>3, <2>4, FS_AddElement
  <2>6. {p} \cup {q} \subseteq Used(w)
    OBVIOUS
  <2>7. Cardinality({p} \cup {q}) <= Cardinality(Used(w))
    BY <1>0, <2>6, FS_Subset
  <2> QED
    BY <1>0, <2>5, <2>7
<1>2. ASSUME ~Several(w) PROVE ~(Cardinality(Used(w)) >= 2)
  <2>1. CASE Used(w) = {}
    <3>1. Cardinality(Used(w)) = 0
      BY <2>1, FS_EmptySet, Zenon
    <3> QED
      BY <3>1
  <2>2. CASE Used(w) # {}
    <3>1. PICK p \in Used(w) : TRUE
      BY <2>2
    <3>2. Used(w) = {p}
      BY <1>2, <3>1 DEF Several
    <3>3. Cardinality(Used(w)) = 1
      BY <3>2, FS_Singleton
    <3> QED
      BY <3>3
  <2> QED
    BY <2>1, <2>2
<1> QED
  BY <1>1, <1>2

(* When other things than the score, the time and who is there differ.            *)
LEMMA PunctualStays ==
  ASSUME NEW w, NEW v, v.score = w.score, v.clock = w.clock, v.period = w.period,
         v.over = w.over, Several(v) => Several(w), Punctual(w)
  PROVE  Punctual(v)
BY DEF Punctual, Short, Timely

LEMMA UsedSeveral ==
  ASSUME NEW w, NEW v, Used(v) \subseteq Used(w), Several(v)
  PROVE  Several(w)
BY DEF Several

LEMMA ReseatedSeveral ==
  ASSUME NEW w, NEW v, Sound(v), Reseated(w, v), Several(v)
  PROVE  Several(w)
<1>1. PICK p \in Used(v) : \E q \in Used(v) : p # q
  BY DEF Several
<1>2. PICK q \in Used(v) : p # q
  BY <1>1
<1>3. v.player[p].who # v.player[q].who
  BY <1>2 DEF Sound, Distinct
<1>4. PICK a \in Used(w) : Alter(v.player[p], w.player[a])
  BY DEF Reseated
<1>5. PICK b \in Used(w) : Alter(v.player[q], w.player[b])
  BY DEF Reseated
<1>6. a # b
  BY <1>3, <1>4, <1>5 DEF Alter
<1> QED
  BY <1>6 DEF Several

LEMMA RenewedPunctual ==
  ASSUME NEW v, Renewed(v)
  PROVE  Punctual(v)
BY DEF Renewed, Punctual

LEMMA KeepsPunctual ==
  ASSUME NEW w, NEW v, Keeps(w, v), Punctual(w)
  PROVE  Punctual(v)
BY ReseatedSeveral, PunctualStays DEF Keeps, Follows, Rest

LEMMA GoesOnPunctual ==
  ASSUME NEW w, NEW v, GoesOn(w, v), Punctual(w)
  PROVE  Punctual(v)
BY RenewedPunctual, UsedSeveral, PunctualStays DEF GoesOn, Same, SameTime

(* What the check of the time leaves to the next frame.                           *)
Clocked(w) ==
  ~w.over =>
    /\ Short(w)
    /\ Several(w) /\ rules.time_limit > 0 /\ w.clock >= rules.time_limit =>
         IF rules.extra_time = 0 THEN rules.sudden_death /\ w.score[0] = w.score[1]
         ELSE w.clock < rules.time_limit + w.period * rules.extra_time

LEMMA GoesOnClocked ==
  ASSUME NEW w, NEW v, GoesOn(w, v), Clocked(w)
  PROVE  Clocked(v)
<1>1. CASE Renewed(v)
  BY <1>1 DEF Renewed, Clocked
<1>2. CASE Same(w, v) /\ SameTime(w, v)
  <2>1. /\ v.score = w.score /\ v.over = w.over /\ v.clock = w.clock /\ v.period = w.period
        /\ Several(v) => Several(w)
    BY <1>2, UsedSeveral DEF Same, SameTime
  <2> QED
    BY <2>1 DEF Clocked, Short
<1> QED
  BY <1>1, <1>2 DEF GoesOn

LEMMA TimeCheckClocks ==
  ASSUME rules \in Settings, NEW w, Sane(w), Punctual(w), NEW z \in TimeCheck(w)
  PROVE  Clocked(z)
<1> DEFINE A == Cardinality(Used(w)) <= 1 \/ rules.time_limit = 0
           tied == w.score[0] = w.score[1]
           B == TimeLeft(w) = 0 /\ (tied => rules.extra_time = 0 /\ ~rules.sudden_death)
           C == ExtraTimeLeft(w) = 0 /\ rules.extra_time > 0
<1>1. \/ A /\ z = w
      \/ z \in ServerNextMap(w)
      \/ ~A /\ C /\ rules.extra_time_periods > w.period /\ z = [w EXCEPT !.period = w.period + 1]
      \/ ~A /\ ~B /\ TimeLeft(w) = 0 /\ z = [w EXCEPT !.period = 1]
      \/ ~A /\ ~C /\ TimeLeft(w) # 0 /\ z = w
  BY DEF TimeCheck
<1> DEFINE T == rules.time_limit
           E == rules.extra_time
           c == w.clock
           n == w.period
<1>2. /\ T \in Nat /\ E \in Nat /\ c \in Nat /\ n \in Nat /\ n <= Periods
      /\ rules.sudden_death \in BOOLEAN /\ w \in Worlds
      /\ Periods \in Nat /\ Periods >= 1
      /\ rules.extra_time_periods \in Nat /\ rules.extra_time_periods <= Periods
  BY Numbers, NumbersOf, Ruled DEF Sane
<1>3. /\ (TimeLeft(w) = 0 <=> c = T)
      /\ (C <=> c = T + n * E /\ E > 0)
  <2>1. TimeLeft(w) = T - c
    BY DEF TimeLeft
  <2>2. ExtraTimeLeft(w) = T + n * E - c
    BY DEF ExtraTimeLeft
  <2>3. n * E \in Nat
    BY <1>2
  <2> HIDE DEF T, c, n, E
  <2> DEFINE M == n * E
  <2>4. M \in Nat
    BY <2>3
  <2>5. T - c = 0 <=> c = T
    BY <1>2
  <2>6. T + M - c = 0 <=> c = T + M
    <3> HIDE DEF M
    <3> QED
      BY <1>2, <2>4
  <2> QED
    BY <2>1, <2>2, <2>5, <2>6 DEF M, E
<1>4. CASE A /\ z = w
  <2>1. ~(Several(w) /\ T > 0)
    <3>1. Cardinality(Used(w)) <= 1 => ~Several(w)
      BY SeveralAreTwo, Teams
    <3> QED
      BY <1>2, <1>4, <3>1
  <2> QED
    BY <1>4, <2>1 DEF Clocked, Punctual
<1>5. CASE z \in ServerNextMap(w)
  BY <1>5, NextMapRenews DEF Renewed, Clocked
<1>6. ASSUME C, rules.extra_time_periods > n, z = [w EXCEPT !.period = n + 1] PROVE Clocked(z)
  <2>1. n + 1 \in 1 .. Periods
    BY <1>2, <1>6
  <2>2. Same(w, z) /\ z.clock = c /\ z.period = n + 1
    <3> HIDE DEF c
    <3> QED
      BY <1>6, <2>1, PeriodPasses DEF c
  <2>3. c < T + (n + 1) * E
    <3>1. c = T + n * E /\ E > 0
      BY <1>3, <1>6
    <3> HIDE DEF c, T, E, n
    <3>2. (n + 1) * E = n * E + E /\ n * E \in Nat
      BY <1>2
    <3> QED
      BY <1>2, <3>1, <3>2
  <2>4. E # 0
    BY <1>2, <1>3, <1>6
  <2>5. z.score = w.score /\ z.over = w.over
    BY <2>2 DEF Same
  <2> QED
    BY <2>2, <2>3, <2>4, <2>5 DEF Clocked, Punctual, Short
<1>7. ASSUME ~B, c = T, z = [w EXCEPT !.period = 1] PROVE Clocked(z)
  <2>1. 1 \in 1 .. Periods
    BY <1>2
  <2>2. Same(w, z) /\ z.clock = c /\ z.period = 1
    BY <1>7, <2>1, PeriodPasses
  <2>3. tied /\ (E = 0 => rules.sudden_death)
    BY <1>3, <1>7
  <2>4. E # 0 => c < T + 1 * E
    BY <1>2, <1>7
  <2>5. z.score = w.score /\ z.over = w.over
    BY <2>2 DEF Same
  <2> QED
    BY <2>2, <2>3, <2>4, <2>5 DEF Clocked, Punctual, Short
<1>8. ASSUME ~C, c # T, z = w PROVE Clocked(z)
  <2>1. c >= T => c > T
    BY <1>2, <1>8
  <2>2. E # 0 /\ c <= T + n * E => c < T + n * E
    <3>1. E # 0 => c # T + n * E
      BY <1>2, <1>3, <1>8
    <3> HIDE DEF c, T, E, n
    <3>2. n * E \in Nat
      BY <1>2
    <3> QED
      BY <1>2, <3>1, <3>2
  <2> QED
    BY <1>8, <2>1, <2>2 DEF Clocked, Punctual, Timely
<1> QED
  BY <1>1, <1>3, <1>4, <1>5, <1>6, <1>7, <1>8

LEMMA NextFramePunctual ==
  ASSUME rules \in Settings, NEW w, Sane(w), Clocked(w)
  PROVE  Punctual(NextFrame(w))
<1> DEFINE z == NextFrame(w)
<1>1. /\ Same(w, z) /\ z.clock \in Nat /\ z.clock <= w.clock + 1 /\ z.period = w.period
  BY NextFramePasses
<1> HIDE DEF z
<1>2. z.score = w.score /\ z.over = w.over /\ (Several(z) => Several(w))
  BY <1>1, UsedSeveral DEF Same
<1>3. /\ w.clock \in Nat /\ w.period \in Nat /\ rules.time_limit \in Nat /\ rules.extra_time \in Nat
  BY Numbers, NumbersOf DEF Sane
<1>4. w.period * rules.extra_time \in Nat
  BY <1>3
<1>5. z.clock > rules.time_limit => w.clock >= rules.time_limit
  BY <1>1, <1>3
<1>6. w.clock < rules.time_limit + w.period * rules.extra_time
        => z.clock <= rules.time_limit + z.period * rules.extra_time
  BY <1>1, <1>3, <1>4
<1> QED
  BY <1>2, <1>5, <1>6 DEF Clocked, Punctual, Short, Timely, z

--------------------------------------------------------------------------------
(* The counts of the votes, and who is heard.                                     *)

LEMMA SaneResumes ==
  ASSUME rules \in Settings, NEW w, Sane(w), NEW z, Sane(z), Resumes(w, z)
  PROVE  /\ Lessens(w, z) /\ Tells(w, z) /\ w.clock \in Nat /\ z.clock \in Nat
         /\ \A L, I : Tallied(w, L, I) => Tallied(z, L, I)
<1>1. Distinct(w) /\ Distinct(z) /\ w.clock \in Nat /\ z.clock \in Nat
  BY NumbersOf DEF Sane
<1> QED
  BY <1>1, ResumesLessens, ResumesTells, ResumesTallied

(* Nobody wants another map.                                                      *)
Quiet(w) == InFavor(w) = {}

LEMMA QuietIsHeard ==
  ASSUME NEW w, Quiet(w)
  PROVE  Heard(w) /\ ~Majority(w) /\ (Used(w) # {} => ~Unanimous(w))
<1> DEFINE a == Cardinality(InFavor(w))
           b == Cardinality(Used(w))
<1>1. a = 0 /\ b \in Nat /\ (Unanimous(w) <=> a = b) /\ (Used(w) = {} <=> b = 0)
  BY FavorsOf DEF Quiet
<1>2. Majority(w) <=> 2 * a > b
  BY DEF Majority
<1> HIDE DEF a, b
<1>3. ~Majority(w) /\ (Used(w) # {} => ~Unanimous(w))
  BY <1>1, <1>2
<1> QED
  BY <1>3 DEF Heard

LEMMA QuietStays ==
  ASSUME NEW w, Quiet(w), NEW z, Lessens(w, z)
  PROVE  Quiet(z)
<1>1. Cardinality(InFavor(w)) = 0 /\ Cardinality(InFavor(z)) \in Nat
      /\ (InFavor(z) = {} <=> Cardinality(InFavor(z)) = 0)
  BY FavorsOf DEF Quiet
<1> QED
  BY <1>1 DEF Lessens, Quiet

(* What check_map_exit leaves: more than half do not wait.                        *)
Answered(w) ==
  /\ Used(w) # {} => ~Unanimous(w)
  /\ Majority(w) /\ ~w.missed => w.clock < rules.vote_block_time

LEMMA AnsweredIsHeard ==
  ASSUME rules \in Settings, NEW w, w.clock \in Nat, Answered(w)
  PROVE  Heard(w)
<1>1. rules.vote_block_time \in Nat
  BY SettingsAssumption
<1> QED
  BY <1>1 DEF Answered, Heard

LEMMA QuietIsAnswered ==
  ASSUME NEW w, Quiet(w)
  PROVE  Answered(w)
BY QuietIsHeard DEF Answered

LEMMA FewerFavor ==
  ASSUME NEW w, NEW z, Used(z) = Used(w), z.clock \in {0, w.clock}, w.clock \in Nat,
         z.missed = w.missed, InFavor(z) \subseteq InFavor(w)
  PROVE  Lessens(w, z) /\ z.clock \in Nat
<1>1. IsFiniteSet(InFavor(w)) /\ InFavor(z) \in SUBSET InFavor(w) /\ Cardinality(Used(w)) \in Nat
  BY FavorsOf
<1>2. Cardinality(InFavor(z)) <= Cardinality(InFavor(w))
  BY <1>1, FS_Subset
<1> QED
  BY <1>1, <1>2 DEF Lessens

LEMMA CountVotesTallies ==
  ASSUME rules \in Settings, NEW w, Sane(w), NEW voters \in SUBSET Pid, NEW v, v = CountVotes(w, voters)
  PROVE  /\ v.player = w.player /\ v.missed = w.missed /\ v.failed = w.failed /\ v.clock = w.clock
         /\ DOMAIN v.maprot = DOMAIN w.maprot
         /\ \A i \in DOMAIN v.maprot : v.maprot[i].votes = Cardinality({p \in voters : w.player[p].mapVote = i})
<1>0. w \in Worlds
  BY DEF Sane
<1>1. DOMAIN v.maprot = DOMAIN w.maprot /\ v.player = w.player /\ SameTime(w, v)
  BY CountVotesSame
<1> DEFINE M == [i \in DOMAIN w.maprot |->
                  [w.maprot[i] EXCEPT !.votes = Cardinality({p \in voters : w.player[p].mapVote = i})]]
<1>2. v = [w EXCEPT !.maprot = M]
  BY DEF CountVotes
<1>3. \A i \in DOMAIN w.maprot : w.maprot[i] \in MapEntry
  BY <1>0, MapsOf
<1>4. \A i \in DOMAIN w.maprot : M[i].votes = Cardinality({p \in voters : w.player[p].mapVote = i})
  BY <1>3 DEF MapEntry
<1> HIDE DEF M
<1>5. v.maprot = M /\ v.missed = w.missed /\ v.failed = w.failed
  BY <1>0, <1>2 DEF Worlds
<1> QED
  BY <1>1, <1>4, <1>5 DEF SameTime

LEMMA CountedVotes ==
  ASSUME rules \in Settings, NEW w, Sane(w), NEW v, v = CountVotes(w, Used(w))
  PROVE  /\ Used(v) = Used(w) /\ InFavor(v) = InFavor(w) /\ v.failed = w.failed
         /\ v.missed = w.missed /\ v.clock = w.clock
         /\ Ranged(w) => Counted(v)
<1> DEFINE T == Used(w)
<1>1. T \in SUBSET Pid /\ T = Used(w) /\ v = CountVotes(w, T)
  BY DEF Used
<1> HIDE DEF T
<1>2. /\ v.player = w.player /\ v.missed = w.missed /\ v.failed = w.failed /\ v.clock = w.clock
      /\ DOMAIN v.maprot = DOMAIN w.maprot
      /\ \A i \in DOMAIN v.maprot : v.maprot[i].votes = Cardinality({p \in T : w.player[p].mapVote = i})
  BY <1>1, CountVotesTallies
<1>3. Used(v) = Used(w)
  BY <1>2 DEF Used
<1>4. InFavor(v) = InFavor(w)
  BY <1>2, <1>3 DEF InFavor
<1>5. \A i : Backers(v, i) = {p \in T : w.player[p].mapVote = i}
  BY <1>1, <1>2, <1>3 DEF Backers
<1>6. Ranged(w) => Ranged(v)
  BY <1>2, <1>3 DEF Ranged
<1> QED
  BY <1>2, <1>3, <1>4, <1>5, <1>6 DEF Counted

(* The map that is chosen loses its votes, as they are forgotten.                 *)
LEMMA ChooseTallies ==
  ASSUME rules \in Settings, NEW w, Sane(w), NEW i \in DOMAIN w.maprot, NEW v, v = Choose(w, i)
  PROVE  /\ v.missed = w.missed /\ v.failed = w.failed /\ v.clock = w.clock
         /\ Used(v) = Used(w) /\ Quiet(v)
         /\ \A L, I : Tallied(w, L, I) /\ I \subseteq {i} => Tallied(v, L, {})
<1> DEFINE P == [p \in Pid |->
                  IF w.player[p] = None THEN None
                  ELSE [w.player[p] EXCEPT !.want_map_exit = FALSE,
                                           !.mapVote = IF w.player[p].mapVote = i THEN -1
                                                       ELSE w.player[p].mapVote]]
           M == [w.maprot EXCEPT ![i].votes = 0]
<1>0. w \in Worlds
  BY DEF Sane
<1>1. /\ Same(w, v) /\ DOMAIN v.maprot = DOMAIN w.maprot
  BY ChooseSame
<1>2. /\ DOMAIN w.maprot = 1 .. Len(w.maprot) /\ Len(w.maprot) \in Nat
      /\ \A j \in DOMAIN w.maprot : w.maprot[j] \in MapEntry
  BY <1>0, MapsOf
<1>3. /\ M[i].votes = 0 /\ \A j \in DOMAIN w.maprot : j # i => M[j] = w.maprot[j]
  BY <1>2 DEF MapEntry
<1>4. \A p \in Used(w) : w.player[p] \in Player /\ w.player[p] # None /\ p \in Pid
  BY <1>0, PlayersOf
<1>5. \A p \in Used(w) : /\ P[p].who = w.player[p].who /\ P[p].want_map_exit = FALSE
                         /\ P[p].mapVote = IF w.player[p].mapVote = i THEN -1 ELSE w.player[p].mapVote
  BY <1>4 DEF Player
<1>6. v = [w EXCEPT !.currmap = i, !.maprot = M, !.announced = NotAnnounced, !.player = P]
  BY <1>0, <1>2 DEF Choose, Worlds
<1> HIDE DEF P, M
<1>7. /\ v.player = P /\ v.maprot = M /\ v.missed = w.missed /\ v.failed = w.failed /\ v.clock = w.clock
  BY <1>0, <1>6 DEF Worlds
<1>8. Used(v) = Used(w)
  BY <1>1 DEF Same
<1>9. Quiet(v)
  BY <1>5, <1>7, <1>8 DEF InFavor, Quiet
<1>10. i # -1
  BY <1>2
<1>11. ASSUME NEW L, NEW I, Tallied(w, L, I), I \subseteq {i}
       PROVE  Tallied(v, L, {})
  <2>1. ASSUME NEW p \in Used(v), v.player[p].who \notin L
        PROVE  v.player[p].mapVote \in {-1} \cup DOMAIN v.maprot
    <3>1. p \in Used(w) /\ w.player[p].who \notin L
      BY <1>5, <1>7, <1>8, <2>1
    <3>2. w.player[p].mapVote \in {-1} \cup DOMAIN w.maprot
      BY <1>11, <3>1 DEF Tallied
    <3> QED
      BY <1>1, <1>5, <1>7, <3>1, <3>2
  <2>2. ASSUME NEW j \in DOMAIN v.maprot
        PROVE  v.maprot[j].votes = Cardinality(Backing(v, j, L))
    <3>1. CASE j = i
      <4>1. Backing(v, j, L) = {}
        BY <1>5, <1>7, <1>8, <1>10, <3>1 DEF Backing
      <4>2. Cardinality({}) = 0
        BY FS_EmptySet
      <4> QED
        BY <1>3, <1>7, <3>1, <4>1, <4>2
    <3>2. CASE j # i
      <4>1. j \in DOMAIN w.maprot \ I /\ j # -1
        BY <1>1, <1>2, <1>11, <3>2
      <4>2. w.maprot[j].votes = Cardinality(Backing(w, j, L))
        BY <1>11, <4>1 DEF Tallied
      <4>3. Backing(v, j, L) = Backing(w, j, L)
        BY <1>5, <1>7, <1>8, <3>2, <4>1 DEF Backing
      <4> QED
        BY <1>3, <1>7, <3>2, <4>1, <4>2, <4>3
    <3> QED
      BY <3>1, <3>2
  <2> QED
    BY <2>1, <2>2 DEF Tallied
<1> QED
  BY <1>7, <1>8, <1>9, <1>11

(* server_next_map with a map that loads.                                         *)
LEMMA NextMapTallies ==
  ASSUME rules \in Settings, NEW w, Sane(w), NEW z \in NextMapLoads(w)
  PROVE  /\ Lessens(w, z) /\ Quiet(z) /\ z.failed = w.failed /\ z.clock \in Nat
         /\ \A L : (\A i \in Winners(w) : \E I : Tallied(w, L, I) /\ I \subseteq {i}) => Tallied(z, L, {})
<1>1. PICK i \in Winners(w) : z \in StartMap(Choose(w, i))
  BY DEF NextMapLoads
<1> DEFINE c == Choose(w, i)
<1>2. i \in DOMAIN w.maprot
  BY <1>1, WinnersAreMaps
<1>3. /\ Same(w, c)
      /\ c.missed = w.missed /\ c.failed = w.failed /\ c.clock = w.clock
      /\ Used(c) = Used(w) /\ Quiet(c)
      /\ \A L, I : Tallied(w, L, I) /\ I \subseteq {i} => Tallied(c, L, {})
  BY <1>2, ChooseSame, ChooseTallies
<1>4. Sane(c) /\ w.clock \in Nat /\ c.clock \in Nat
  BY <1>3, SameKeeps, NumbersOf DEF Sane
<1> HIDE DEF c
<1>5. Fresh(z) /\ Resumes(c, z)
  BY <1>1, <1>4, StartMapIsFresh DEF c
<1>6. Sane(z)
  BY <1>5, SoundIsSane DEF Fresh
<1>7. /\ Lessens(c, z) /\ z.clock \in Nat
      /\ \A L, I : Tallied(c, L, I) => Tallied(z, L, I)
  BY <1>4, <1>5, <1>6, SaneResumes
<1>8. Lessens(w, c)
  BY <1>3, <1>4, FewerFavor DEF Quiet
<1>9. Lessens(w, z)
  BY <1>4, <1>7, <1>8, LessensTwice
<1>10. Quiet(z)
  BY <1>3, <1>7, QuietStays
<1>11. z.failed = w.failed
  BY <1>3, <1>5 DEF Resumes
<1>12. ASSUME NEW L, \A k \in Winners(w) : \E I : Tallied(w, L, I) /\ I \subseteq {k}
       PROVE  Tallied(z, L, {})
  <2>1. PICK I : Tallied(w, L, I) /\ I \subseteq {i}
    BY <1>1, <1>12
  <2>2. Tallied(c, L, {})
    BY <1>3, <2>1
  <2> QED
    BY <1>7, <2>2
<1> QED
  BY <1>7, <1>9, <1>10, <1>11, <1>12

--------------------------------------------------------------------------------
(* The new list counts the votes of all but those whose maps it has lost.         *)
Recast(w, files, v) ==
  /\ Used(v) = Used(w) /\ v.failed = w.failed /\ v.missed = w.missed /\ v.clock = w.clock
  /\ DOMAIN v.maprot = DOMAIN files /\ DOMAIN files \subseteq Nat \ {0}
  /\ \A p \in Used(w) :
       v.player[p] = IF p \notin Kept(w, files) THEN w.player[p]
                     ELSE [w.player[p] EXCEPT !.mapVote = IndexIn(w, files, w.player[p].mapVote)]
  /\ \A i \in DOMAIN v.maprot :
       v.maprot[i].votes = Cardinality({p \in Kept(w, files) : v.player[p].mapVote = i})

LEMMA RelistedVotes ==
  ASSUME rules \in Settings, NEW w, Sane(w), NEW files \in Lists, NEW v, v = Relisted(w, files)
  PROVE  Recast(w, files, v)
<1> DEFINE kept == Kept(w, files)
           c == Uncounted(w, files)
<1>1. /\ Same(w, c) /\ SameTime(w, c) /\ c.failed = w.failed /\ c.missed = w.missed
      /\ DOMAIN c.maprot = DOMAIN files /\ DOMAIN files \subseteq Nat \ {0}
      /\ \A p \in Used(w) :
           c.player[p] = IF p \notin Kept(w, files) THEN w.player[p]
                         ELSE [w.player[p] EXCEPT !.mapVote = IndexIn(w, files, w.player[p].mapVote)]
  BY UncountedSame
<1>2. v = CountVotes(c, kept) /\ kept \in SUBSET Pid
  BY DEF Relisted, Kept, VotersOf, Used
<1>k. kept = Kept(w, files)
  OBVIOUS
<1> HIDE DEF c, kept
<1>3. Sane(c) /\ Used(c) = Used(w)
  BY <1>1, SameKeeps DEF Same
<1>4. /\ v.player = c.player /\ v.missed = c.missed /\ v.failed = c.failed /\ v.clock = c.clock
      /\ DOMAIN v.maprot = DOMAIN c.maprot
      /\ \A i \in DOMAIN v.maprot : v.maprot[i].votes = Cardinality({p \in kept : c.player[p].mapVote = i})
  BY <1>2, <1>3, CountVotesTallies
<1>5. Used(v) = Used(w)
  BY <1>3, <1>4 DEF Used
<1> QED
  BY <1>1, <1>4, <1>5, <1>k DEF SameTime, Recast

LEMMA RelistedTallies ==
  ASSUME rules \in Settings, NEW w, Sane(w), NEW files \in Lists, NEW v, v = Relisted(w, files)
  PROVE  /\ Tallied(v, PeopleAt(w, LostBy(w, files)), {}) /\ Lessens(w, v)
         /\ v.failed = w.failed /\ v.clock \in Nat
<1> DEFINE L == PeopleAt(w, LostBy(w, files))
           kept == Kept(w, files)
           lost == LostBy(w, files)
           Index(p) == IndexIn(w, files, w.player[p].mapVote)
<1>0. w \in Worlds /\ w.clock \in Nat
  BY NumbersOf DEF Sane
<1>1. /\ Used(v) = Used(w) /\ v.failed = w.failed /\ v.missed = w.missed /\ v.clock = w.clock
      /\ DOMAIN v.maprot = DOMAIN files /\ DOMAIN files \subseteq Nat \ {0}
      /\ \A p \in Used(w) : v.player[p] = IF p \notin kept THEN w.player[p]
                                          ELSE [w.player[p] EXCEPT !.mapVote = Index(p)]
      /\ \A i \in DOMAIN v.maprot : v.maprot[i].votes = Cardinality({p \in kept : v.player[p].mapVote = i})
  <2>1. Recast(w, files, v)
    BY RelistedVotes
  <2> QED
    BY <2>1, Zenon DEF Recast
<1>2. /\ kept \subseteq Used(w) /\ lost \subseteq Used(w)
      /\ \A p \in Used(w) : p \in kept \/ p \in lost \/ w.player[p].mapVote = -1
      /\ \A p \in kept : Index(p) \in DOMAIN files
      /\ \A p \in kept : p \notin lost
      /\ \A p \in kept : w.player[p].mapVote # -1
  BY IndexIsIn DEF Kept, VotersOf, LostBy
<1>3. \A p \in Used(w) : w.player[p].who \in L <=> p \in lost
  <2>1. L = {w.player[p].who : p \in lost}
    BY <1>2 DEF PeopleAt
  <2> QED
    BY <1>2, <2>1 DEF Sane, Distinct
<1>4. \A p \in Used(w) : w.player[p] \in Player
  BY <1>0, PlayersOf
<1> HIDE DEF L, kept, lost, Index
<1>5. \A p \in Used(w) : /\ v.player[p].who = w.player[p].who
                         /\ v.player[p].want_map_exit = w.player[p].want_map_exit
                         /\ v.player[p].mapVote = IF p \in kept THEN Index(p) ELSE w.player[p].mapVote
  BY <1>1, <1>4 DEF Player
<1>6. InFavor(v) = InFavor(w)
  <2>1. \A p \in kept : Index(p) # -1
    BY <1>1, <1>2
  <2>2. \A p \in Used(w) : v.player[p].mapVote = -1 <=> w.player[p].mapVote = -1
    BY <1>2, <1>5, <2>1
  <2> QED
    BY <1>1, <1>5, <2>2 DEF InFavor
<1>7. Lessens(w, v) /\ v.clock \in Nat
  BY <1>0, <1>1, <1>6, FewerFavor
<1>8. ASSUME NEW p \in Used(v), v.player[p].who \notin L
      PROVE  v.player[p].mapVote \in {-1} \cup DOMAIN v.maprot
  BY <1>1, <1>2, <1>3, <1>5, <1>8
<1>9. ASSUME NEW i \in DOMAIN v.maprot \ {}
      PROVE  v.maprot[i].votes = Cardinality(Backing(v, i, L))
  <2>1. i # -1 /\ i \in DOMAIN v.maprot
    BY <1>1
  <2>2. Backing(v, i, L) = {p \in kept : v.player[p].mapVote = i}
    BY <1>1, <1>2, <1>3, <1>5, <2>1 DEF Backing
  <2> QED
    BY <1>1, <2>1, <2>2
<1>10. Tallied(v, L, {})
  BY <1>8, <1>9 DEF Tallied
<1> QED
  BY <1>1, <1>7, <1>10 DEF L

(* The votes of the people whose maps are lost are taken back, as their places    *)
(* are still theirs.                                                              *)
LEMMA UnvotedVotes ==
  ASSUME rules \in Settings, NEW u, Sane(u), NEW lost \in SUBSET Used(u), NEW z, z = Unvoted(u, lost),
         Tallied(u, PeopleAt(u, lost), {})
  PROVE  Counted(z) /\ Lessens(u, z) /\ z.failed = u.failed /\ z.clock \in Nat
<1> DEFINE P == [p \in Pid |-> IF p \in lost THEN [u.player[p] EXCEPT !.mapVote = -1]
                               ELSE u.player[p]]
           L == PeopleAt(u, lost)
<1>0. u \in Worlds /\ u.clock \in Nat
  BY NumbersOf DEF Sane
<1>1. Same(u, z) /\ z.maprot = u.maprot /\ SameTime(u, z)
  BY UnvotedSame
<1>2. z = [u EXCEPT !.player = P]
  BY DEF Unvoted
<1>3. Used(z) = Used(u)
  BY <1>1 DEF Same
<1>4. \A p \in Used(u) : u.player[p] \in Player /\ p \in Pid
  BY <1>0, PlayersOf
<1>5. \A p \in Used(u) : /\ P[p].who = u.player[p].who
                         /\ P[p].want_map_exit = u.player[p].want_map_exit
                         /\ P[p].mapVote = IF p \in lost THEN -1 ELSE u.player[p].mapVote
  BY <1>4 DEF Player
<1> HIDE DEF P
<1>6. z.player = P /\ z.missed = u.missed /\ z.failed = u.failed
  BY <1>0, <1>2 DEF Worlds
<1>7. \A p \in Used(u) : u.player[p].who \in L <=> p \in lost
  <2>1. L = {u.player[p].who : p \in lost}
    BY DEF PeopleAt
  <2> QED
    BY <2>1 DEF Sane, Distinct
<1>l. L = PeopleAt(u, lost)
  OBVIOUS
<1> HIDE DEF L
<1>8. Ranged(z)
  BY <1>1, <1>3, <1>5, <1>6, <1>7, <1>l DEF Ranged, Tallied
<1>9. ASSUME NEW i \in DOMAIN z.maprot
      PROVE  z.maprot[i].votes = Cardinality(Backers(z, i))
  <2>1. i # -1
    BY <1>0, <1>1, MapsOf
  <2>2. Backers(z, i) = Backing(u, i, L)
    BY <1>3, <1>5, <1>6, <1>7, <2>1 DEF Backers, Backing
  <2>3. i \in DOMAIN u.maprot \ {}
    BY <1>1
  <2>4. Tallied(u, L, {})
    BY <1>l
  <2>5. u.maprot[i].votes = Cardinality(Backing(u, i, L))
    BY <2>3, <2>4 DEF Tallied
  <2> QED
    BY <1>1, <2>2, <2>5
<1>10. InFavor(z) \subseteq InFavor(u)
  BY <1>3, <1>5, <1>6 DEF InFavor
<1>11. Lessens(u, z) /\ z.clock \in Nat
  BY <1>0, <1>1, <1>3, <1>6, <1>10, FewerFavor DEF SameTime
<1> QED
  BY <1>6, <1>8, <1>9, <1>11 DEF Counted

(* If the program has not failed, the votes are counted, and no more want another *)
(* map.                                                                           *)
Recounts(w, z) == z.failed = "none" => /\ w.failed = "none" /\ Counted(z)
                                       /\ Lessens(w, z) /\ z.clock \in Nat

LEMMA ResetSettingsRecounts ==
  ASSUME rules \in Settings, NEW w, Sane(w), NEW files \in Lists, NEW z \in ResetSettings(w, files)
  PROVE  Recounts(w, z)
<1> DEFINE v == Relisted(w, files)
           lost == LostBy(w, files)
           L == PeopleAt(w, lost)
<1>0. w \in Worlds /\ w.clock \in Nat
  BY NumbersOf DEF Sane
<1>1. PICK u \in IF v.currmap = -1 THEN NextMapLoads(v) ELSE {v} :
               z = IF PeopleAt(u, lost) # PeopleAt(w, lost) THEN Fail(u, "oldVotes")
                   ELSE Unvoted(u, lost)
  BY <1>0, ResetSettingsIs
<1>2. Same(w, v)
  BY RelistedSame
<1>3. Tallied(v, L, {}) /\ Lessens(w, v) /\ v.failed = w.failed /\ v.clock \in Nat
  BY RelistedTallies
<1>4. lost \in SUBSET Used(w)
  BY DEF LostBy, VotersOf
<1> HIDE DEF v, lost
<1>5. Sane(v)
  BY <1>2, SameKeeps
<1>6. Sane(u) /\ Tallied(u, L, {}) /\ Lessens(w, u) /\ u.failed = w.failed /\ u.clock \in Nat
  <2>1. CASE u = v
    BY <1>3, <1>5, <2>1
  <2>2. CASE u \in NextMapLoads(v)
    <3>1. Sane(u)
      BY <1>5, <2>2, NextMapIsFresh, SoundIsSane DEF Fresh
    <3>2. /\ Lessens(v, u) /\ u.failed = v.failed /\ u.clock \in Nat
          /\ \A K : (\A i \in Winners(v) : \E I : Tallied(v, K, I) /\ I \subseteq {i}) => Tallied(u, K, {})
      BY <1>5, <2>2, NextMapTallies
    <3>3. \A i \in Winners(v) : \E I : Tallied(v, L, I) /\ I \subseteq {i}
      BY <1>3
    <3>4. Tallied(u, L, {})
      BY <3>2, <3>3
    <3>5. Lessens(w, u)
      BY <1>0, <1>3, <3>2, LessensTwice
    <3> QED
      BY <1>3, <3>1, <3>2, <3>4, <3>5
  <2> QED
    BY <1>1, <2>1, <2>2
<1>7. CASE PeopleAt(u, lost) # PeopleAt(w, lost)
  <2>1. z.failed = "oldVotes"
    BY <1>1, <1>6, <1>7 DEF Fail, Sane, Worlds
  <2> QED
    BY <2>1 DEF Recounts
<1>8. CASE PeopleAt(u, lost) = PeopleAt(w, lost)
  <2>1. z = Unvoted(u, lost) /\ lost \in SUBSET Used(u)
    BY <1>1, <1>4, <1>8, PeopleAreThere
  <2>2. Tallied(u, PeopleAt(u, lost), {})
    BY <1>6, <1>8
  <2>3. Counted(z) /\ Lessens(u, z) /\ z.failed = u.failed /\ z.clock \in Nat
    BY <1>6, <2>1, <2>2, UnvotedVotes
  <2>4. Lessens(w, z)
    BY <1>0, <1>6, <2>3, LessensTwice
  <2> QED
    BY <1>6, <2>3, <2>4 DEF Recounts
<1> QED
  BY <1>7, <1>8

(* server_next_map, after which nobody wants another map.                         *)
Settles(w, z) == z.failed = "none" => /\ w.failed = "none" /\ Counted(z)
                                      /\ Quiet(z) /\ z.clock \in Nat

LEMMA CannotLoadSettles ==
  ASSUME rules \in Settings, NEW w, Sane(w), NEW i \in DOMAIN w.maprot, NEW z \in CannotLoad(w, i)
  PROVE  Settles(w, z)
<1> DEFINE c == Choose(w, i)
           d == Cleared(c)
           e == AtStart(d)
<1>1. PICK files \in Lists : z \in ResetSettings(e, files)
  BY Zenon DEF CannotLoad, Cleared, AtStart
<1>2. Same(w, c) /\ c.failed = w.failed /\ Quiet(c)
  BY ChooseSame, ChooseTallies
<1> HIDE DEF c
<1>3. Sane(c)
  BY <1>2, SameKeeps
<1>4. Sane(d) /\ Resumes(c, d)
  BY <1>3, ClearedIs
<1> HIDE DEF d
<1>5. Sane(e) /\ Resumes(d, e)
  <2>1. 0 \in 0 .. MaxClock
    BY Ruled
  <2>2. /\ e \in Worlds /\ e.player = d.player /\ e.failed = d.failed /\ e.clock = 0
        /\ e.maprot = d.maprot /\ e.missed = d.missed
    BY <1>4, <2>1 DEF AtStart, Worlds, Sane
  <2>3. Used(e) = Used(d)
    BY <2>2 DEF Used
  <2>4. Seated(d, e)
    BY <2>2, <2>3 DEF Seated, Alter
  <2> QED
    BY <1>4, <2>2, <2>3, <2>4, SeatedResumes DEF Sane, Distinct
<1> HIDE DEF e
<1>6. Resumes(c, e)
  BY <1>4, <1>5, ResumesTwice
<1>7. Lessens(c, e) /\ e.clock \in Nat
  BY <1>3, <1>5, <1>6, SaneResumes
<1>8. Quiet(e) /\ e.failed = w.failed
  BY <1>2, <1>6, <1>7, QuietStays DEF Resumes
<1>9. Recounts(e, z)
  BY <1>1, <1>5, ResetSettingsRecounts
<1> QED
  BY <1>8, <1>9, QuietStays DEF Recounts, Settles

LEMMA NextMapSettles ==
  ASSUME rules \in Settings, NEW w, Sane(w),
         \A i \in Winners(w) : \E I : Tallied(w, {}, I) /\ I \subseteq {i},
         NEW z \in ServerNextMap(w)
  PROVE  Settles(w, z)
<1>1. z \in NextMapLoads(w) \/ \E i \in Winners(w) : z \in CannotLoad(w, i)
  BY DEF ServerNextMap
<1>2. \A i \in Winners(w) : z \in CannotLoad(w, i) => Settles(w, z)
  BY WinnersAreMaps, CannotLoadSettles
<1>3. ASSUME z \in NextMapLoads(w)
      PROVE  Settles(w, z)
  <2> DEFINE L == {}
  <2>l. L = {}
    OBVIOUS
  <2> HIDE DEF L
  <2>1. /\ Lessens(w, z) /\ Quiet(z) /\ z.failed = w.failed /\ z.clock \in Nat
        /\ \A K : (\A i \in Winners(w) : \E I : Tallied(w, K, I) /\ I \subseteq {i}) => Tallied(z, K, {})
    BY <1>3, NextMapTallies
  <2>2. \A i \in Winners(w) : \E I : Tallied(w, L, I) /\ I \subseteq {i}
    BY <2>l
  <2>3. Tallied(z, L, L)
    BY <2>1, <2>2, <2>l
  <2>4. Counted(z)
    BY <2>l, <2>3, TalliedIsCounted
  <2> QED
    BY <2>1, <2>4 DEF Settles
<1> QED
  BY <1>1, <1>2, <1>3

LEMMA CountedSettles ==
  ASSUME rules \in Settings, NEW w, Sane(w), Counted(w), NEW z \in ServerNextMap(w)
  PROVE  Settles(w, z)
<1> DEFINE L == {}
<1>1. L = {}
  OBVIOUS
<1> HIDE DEF L
<1>2. Tallied(w, L, L)
  BY <1>1, TalliedIsCounted
<1>3. \A i \in Winners(w) : \E I : Tallied(w, {}, I) /\ I \subseteq {i}
  BY <1>1, <1>2
<1> QED
  BY <1>3, NextMapSettles

LEMMA SettlesTells ==
  ASSUME NEW w, NEW z, Settles(w, z)
  PROVE  Tells(w, z)
BY QuietIsHeard DEF Settles, Tells, Polled

--------------------------------------------------------------------------------
(* A map is chosen only when the votes tell so, and a majority is heard.          *)
LEMMA NextMapFails ==
  ASSUME rules \in Settings, NEW w, Sane(w), NEW z \in ServerNextMap(w)
  PROVE  z.failed = "none" => w.failed = "none"
<1>1. z \in NextMapLoads(w) \/ \E i \in Winners(w) : z \in CannotLoad(w, i)
  BY DEF ServerNextMap
<1>2. ASSUME NEW i \in Winners(w), z \in CannotLoad(w, i)
      PROVE  z.failed = "none" => w.failed = "none"
  BY <1>2, WinnersAreMaps, CannotLoadSettles DEF Settles
<1>3. z \in NextMapLoads(w) => z.failed = w.failed
  BY NextMapTallies
<1> QED
  BY <1>1, <1>2, <1>3

LEMMA NextMapTells ==
  ASSUME rules \in Settings, NEW w, Sane(w), NEW z \in ServerNextMap(w)
  PROVE  Tells(w, z)
<1>1. CASE Counted(w)
  BY <1>1, CountedSettles, SettlesTells
<1>2. CASE ~Counted(w)
  BY <1>2, NextMapFails DEF Tells, Polled
<1> QED
  BY <1>1, <1>2

(* The votes are counted, and whoever has to be heard has been.                   *)
Answers(w, z) == z.failed = "none" => w.failed = "none" /\ (Ranged(w) => Counted(z) /\ Answered(z))

LEMMA CheckMapExitAnswers ==
  ASSUME rules \in Settings, NEW w, Sane(w), NEW z \in CheckMapExit(w)
  PROVE  Answers(w, z)
<1> DEFINE v == CountVotes(w, Used(w))
<1>1. /\ Used(v) = Used(w) /\ InFavor(v) = InFavor(w) /\ v.failed = w.failed
      /\ v.missed = w.missed /\ v.clock = w.clock
      /\ Ranged(w) => Counted(v)
  BY CountedVotes
<1>2. Same(w, v)
  BY CountVotesSame DEF Used
<1>3. IF Majority(v) /\ (v.clock >= rules.vote_block_time \/ Unanimous(v)) THEN z \in ServerNextMap(v)
      ELSE z = v
  BY DEF CheckMapExit
<1> HIDE DEF v
<1>4. Sane(v) /\ v.clock \in Nat /\ rules.vote_block_time \in Nat
  BY <1>2, SameKeeps, NumbersOf, SettingsAssumption DEF Sane
<1>5. CASE Majority(v) /\ (v.clock >= rules.vote_block_time \/ Unanimous(v))
  <2>1. z \in ServerNextMap(v)
    BY <1>3, <1>5
  <2>2. z.failed = "none" => w.failed = "none"
    BY <1>1, <1>4, <2>1, NextMapFails
  <2>3. Counted(v) => Settles(v, z)
    BY <1>4, <2>1, CountedSettles
  <2> QED
    BY <1>1, <2>2, <2>3, QuietIsAnswered DEF Settles, Answers
<1>6. CASE ~(Majority(v) /\ (v.clock >= rules.vote_block_time \/ Unanimous(v)))
  <2>1. z = v
    BY <1>3, <1>6
  <2>2. Used(v) # {} /\ Unanimous(v) => Majority(v)
    <3> DEFINE a == Cardinality(InFavor(v))
               b == Cardinality(Used(v))
    <3>1. a \in Nat /\ b \in Nat /\ (Unanimous(v) <=> a = b) /\ (Used(v) = {} <=> b = 0)
          /\ (Majority(v) <=> 2 * a > b)
      BY FavorsOf DEF Majority
    <3> HIDE DEF a, b
    <3> QED
      BY <3>1
  <2>3. Answered(v)
    BY <1>4, <1>6, <2>2 DEF Answered
  <2> QED
    BY <1>1, <2>1, <2>3 DEF Answers
<1> QED
  BY <1>5, <1>6

LEMMA AnswersTells ==
  ASSUME rules \in Settings, NEW w, NEW z, Sane(z), Answers(w, z)
  PROVE  Tells(w, z)
<1>1. z.clock \in Nat
  BY NumbersOf DEF Sane
<1> QED
  BY <1>1, AnsweredIsHeard DEF Answers, Tells, Polled, Counted

(* What is told of the votes changes none of them.                                *)
LEMMA ToldVotes ==
  ASSUME NEW w, Sane(w), NEW a, NEW m, NEW c, NEW z, Announced(w, a, m, c, z)
  PROVE  /\ z.maprot = w.maprot /\ z.missed = m /\ z.failed = w.failed /\ z.clock = c
         /\ Used(z) = Used(w) /\ InFavor(z) = InFavor(w)
         /\ (Counted(w) => Counted(z)) /\ Ranged(w) = Ranged(z)
<1>1. /\ z.maprot = w.maprot /\ z.missed = m /\ z.failed = w.failed /\ z.clock = c
      /\ z.player = w.player
  BY DEF Announced, Sane, Worlds
<1>2. Used(z) = Used(w)
  BY <1>1 DEF Used
<1>3. InFavor(z) = InFavor(w)
  BY <1>1, <1>2 DEF InFavor
<1>4. \A i : Backers(z, i) = Backers(w, i)
  BY <1>1, <1>2 DEF Backers
<1>5. Ranged(w) = Ranged(z)
  BY <1>1, <1>2 DEF Ranged
<1> QED
  BY <1>1, <1>2, <1>3, <1>4, <1>5 DEF Counted

Awaits(w, z) == z.failed = "none" => w.failed = "none" /\ (Polled(w) => Counted(z) /\ Answered(z))

LEMMA AnnounceVotesAwaits ==
  ASSUME rules \in Settings, NEW w, Sane(w), NEW z \in AnnounceVotes(w)
  PROVE  Awaits(w, z)
<1> DEFINE now == w.clock = rules.vote_block_time
           m == IF now THEN Majority(w) ELSE w.missed
<1>0. w \in Worlds /\ w.clock \in Nat /\ rules.vote_block_time \in Nat
  BY NumbersOf, SettingsAssumption DEF Sane
<1>1. PICK a \in [votes : Nat, needed : Nat, wait : 0 .. VoteAnnounceInterval] :
         TellVotes(w) = [w EXCEPT !.announced = a]
  BY <1>0, TellVotesAnnounces
<1>2. w.announced \in [votes : Nat, needed : Nat, wait : 0 .. VoteAnnounceInterval]
      /\ w.clock \in 0 .. MaxClock /\ w.missed \in BOOLEAN
  BY <1>0 DEF Worlds
<1>3. CASE rules.vote_block_time = 0
  <2>1. z = w
    BY <1>3 DEF AnnounceVotes
  <2>2. Polled(w) => Counted(w) /\ Answered(w)
    BY <1>0, <1>3 DEF Polled, Heard, Answered
  <2> QED
    BY <2>1, <2>2 DEF Awaits
<1>4. CASE rules.vote_block_time # 0 /\ w.announced.wait > 0
  <2>1. z = [w EXCEPT !.missed = m]
    BY <1>0, <1>4 DEF AnnounceVotes, Worlds
  <2>2. m \in BOOLEAN
    <3>1. Majority(w) \in BOOLEAN
      BY DEF Majority
    <3> QED
      BY <1>2, <3>1
  <2>3. (now => m = Majority(w)) /\ (~now => m = w.missed)
    OBVIOUS
  <2> HIDE DEF m
  <2>4. z = [w EXCEPT !.announced = w.announced, !.missed = m, !.clock = w.clock]
    BY <1>0, <2>1 DEF Worlds
  <2>5. Announced(w, w.announced, m, w.clock, z)
    BY <1>2, <2>2, <2>4 DEF Announced
  <2>6. /\ z.missed = m /\ z.failed = w.failed /\ z.clock = w.clock
        /\ Used(z) = Used(w) /\ InFavor(z) = InFavor(w) /\ (Counted(w) => Counted(z))
    BY <2>5, ToldVotes
  <2>7. (Unanimous(z) <=> Unanimous(w)) /\ (Majority(z) <=> Majority(w))
    BY <2>6 DEF Unanimous, Majority
  <2>8. Heard(w) => Answered(z)
    BY <1>0, <2>3, <2>6, <2>7 DEF Heard, Answered
  <2> QED
    BY <2>6, <2>8 DEF Awaits, Polled
<1>5. CASE rules.vote_block_time # 0 /\ ~(w.announced.wait > 0) /\ now
  <2> DEFINE t == [TellVotes(w) EXCEPT !.missed = FALSE]
             no == FALSE
  <2>1. z \in CheckMapExit(t)
    BY <1>5 DEF AnnounceVotes
  <2>n. t = [w EXCEPT !.announced = a, !.missed = FALSE, !.clock = w.clock]
    BY <1>0, <1>1 DEF Worlds
  <2> HIDE DEF t
  <2>2. no \in BOOLEAN /\ t = [w EXCEPT !.announced = a, !.missed = no, !.clock = w.clock]
    BY <2>n
  <2> HIDE DEF no
  <2>3. Announced(w, a, no, w.clock, t)
    BY <1>2, <2>2 DEF Announced
  <2>4. t.failed = w.failed /\ Ranged(w) = Ranged(t)
    BY <2>3, ToldVotes
  <2>5. Same(w, t)
    BY <2>3, AnnouncedSame
  <2>6. Sane(t)
    BY <2>5, SameKeeps
  <2>7. Answers(t, z)
    BY <2>1, <2>6, CheckMapExitAnswers
  <2> QED
    BY <2>4, <2>7 DEF Answers, Awaits, Polled, Counted
<1>6. CASE rules.vote_block_time # 0 /\ ~(w.announced.wait > 0) /\ ~now
  <2>1. z = [w EXCEPT !.announced = a]
    BY <1>1, <1>6 DEF AnnounceVotes
  <2>2. z = [w EXCEPT !.announced = a, !.missed = w.missed, !.clock = w.clock]
    BY <1>0, <2>1 DEF Worlds
  <2>3. Announced(w, a, w.missed, w.clock, z)
    BY <1>2, <2>2 DEF Announced
  <2>4. /\ z.missed = w.missed /\ z.failed = w.failed /\ z.clock = w.clock
        /\ Used(z) = Used(w) /\ InFavor(z) = InFavor(w) /\ (Counted(w) => Counted(z))
    BY <2>3, ToldVotes
  <2>5. (Unanimous(z) <=> Unanimous(w)) /\ (Majority(z) <=> Majority(w))
    BY <2>4 DEF Unanimous, Majority
  <2>6. Heard(w) => Answered(z)
    BY <1>0, <1>6, <2>4, <2>5 DEF Heard, Answered
  <2> QED
    BY <2>4, <2>6 DEF Awaits, Polled
<1> QED
  BY <1>3, <1>4, <1>5, <1>6

LEMMA NextFramePolls ==
  ASSUME rules \in Settings, NEW w, Sane(w), NEW v, v = NextFrame(w)
  PROVE  v.failed = w.failed /\ (Counted(w) /\ Answered(w) => Polled(v))
<1> DEFINE a == [w.announced EXCEPT !.wait = Max({w.announced.wait - 1, 0})]
           c == Min({w.clock + 1, MaxClock})
           m == w.missed
<1>1. /\ w \in Worlds /\ w.missed \in BOOLEAN /\ w.clock \in 0 .. MaxClock
      /\ w.announced \in [votes : Nat, needed : Nat, wait : 0 .. VoteAnnounceInterval]
  BY DEF Worlds, Sane
<1>2. MaxClock \in Nat /\ VoteAnnounceInterval \in Nat /\ rules.vote_block_time \in Nat
  BY Ruled, SettingsAssumption
<1>3. c \in 0 .. MaxClock /\ c <= w.clock + 1
  <2>1. w.clock + 1 \in Int /\ MaxClock \in Int /\ w.clock + 1 >= 0
    BY <1>1, <1>2
  <2>2. c = IF w.clock + 1 <= MaxClock THEN w.clock + 1 ELSE MaxClock
    BY <2>1, Larger
  <2> QED
    BY <1>2, <2>1, <2>2
<1>4. Max({w.announced.wait - 1, 0}) \in 0 .. VoteAnnounceInterval
  BY <1>1, <1>2, Larger
<1>5. a \in [votes : Nat, needed : Nat, wait : 0 .. VoteAnnounceInterval]
  BY <1>1, <1>4
<1>6. v = [w EXCEPT !.announced = a, !.missed = m, !.clock = c]
  BY <1>1 DEF NextFrame, Worlds
<1>m. m = w.missed
  OBVIOUS
<1> HIDE DEF a, c, m
<1>7. Announced(w, a, m, c, v)
  BY <1>1, <1>3, <1>5, <1>6, <1>m DEF Announced
<1>8. /\ v.missed = m /\ v.failed = w.failed /\ v.clock = c
      /\ Used(v) = Used(w) /\ InFavor(v) = InFavor(w) /\ (Counted(w) => Counted(v))
  BY <1>7, ToldVotes
<1>9. (Unanimous(v) <=> Unanimous(w)) /\ (Majority(v) <=> Majority(w))
  BY <1>8 DEF Unanimous, Majority
<1>10. Answered(w) => Heard(v)
  <2>1. w.clock \in Nat /\ c \in Nat
    BY <1>1, <1>2, <1>3
  <2> QED
    BY <1>2, <1>3, <1>8, <1>9, <1>m, <2>1 DEF Answered, Heard
<1> QED
  BY <1>8, <1>10 DEF Polled

LEMMA PeriodTells ==
  ASSUME rules \in Settings, NEW w, Sane(w), NEW n \in 1 .. Periods, NEW z, z = [w EXCEPT !.period = n]
  PROVE  Tells(w, z)
<1>1. /\ z.failed = w.failed /\ z.maprot = w.maprot /\ z.player = w.player
      /\ z.clock = w.clock /\ z.missed = w.missed
  BY DEF Worlds, Sane
<1>2. Same(w, z)
  BY PeriodPasses
<1>3. Sane(z)
  BY <1>2, SameKeeps
<1>4. Seated(w, z)
  BY <1>1 DEF Seated, Alter, Used
<1>5. Resumes(w, z)
  BY <1>1, <1>4, SeatedResumes
<1> QED
  BY <1>3, <1>5, SaneResumes

LEMMA TimeCheckTells ==
  ASSUME rules \in Settings, NEW w, Sane(w), NEW z \in TimeCheck(w)
  PROVE  Tells(w, z)
<1>1. \/ z = w \/ z \in ServerNextMap(w) \/ z = [w EXCEPT !.period = 1]
      \/ rules.extra_time_periods > w.period /\ z = [w EXCEPT !.period = w.period + 1]
  BY DEF TimeCheck
<1>2. /\ w.period \in 1 .. Periods /\ Periods \in Nat /\ Periods >= 1
      /\ rules.extra_time_periods \in Nat /\ rules.extra_time_periods <= Periods
  BY Ruled DEF Sane, Worlds
<1>3. z = w => Tells(w, z)
  BY DEF Tells
<1>4. z \in ServerNextMap(w) => Tells(w, z)
  BY NextMapTells
<1>5. z = [w EXCEPT !.period = 1] => Tells(w, z)
  <2> DEFINE n == 1
  <2>1. n \in 1 .. Periods /\ (z = [w EXCEPT !.period = 1] => z = [w EXCEPT !.period = n])
    BY <1>2
  <2> HIDE DEF n
  <2> QED
    BY <2>1, PeriodTells
<1>6. rules.extra_time_periods > w.period /\ z = [w EXCEPT !.period = w.period + 1] => Tells(w, z)
  <2> DEFINE n == w.period + 1
  <2>1. rules.extra_time_periods > w.period => n \in 1 .. Periods
    BY <1>2
  <2>2. z = [w EXCEPT !.period = w.period + 1] => z = [w EXCEPT !.period = n]
    OBVIOUS
  <2> HIDE DEF n
  <2> QED
    BY <2>1, <2>2, PeriodTells
<1> QED
  BY <1>1, <1>3, <1>4, <1>5, <1>6

(* The end of a frame.                                                            *)
LEMMA FrameTells ==
  ASSUME rules \in Settings, NEW u, Sane(u), NEW w, Sane(w), Tells(u, w),
         NEW x, x = w \/ x \in TimeCheck(w), NEW y \in AnnounceVotes(x)
  PROVE  Tells(u, NextFrame(y))
<1> DEFINE z == NextFrame(y)
<1>1. Tells(w, x) /\ Sane(x)
  <2>1. x = w => Tells(w, x)
    BY DEF Tells
  <2>2. x \in TimeCheck(w) => Passes(w, x)
    BY TimeCheckPasses
  <2>3. Passes(w, x) => Sane(x)
    BY SameKeeps, SoundIsSane DEF Passes, Renewed, Fresh
  <2> QED
    BY <2>1, <2>2, <2>3, TimeCheckTells
<1>2. Awaits(x, y)
  BY <1>1, AnnounceVotesAwaits
<1>3. Sane(y)
  BY <1>1, AnnounceVotesGoesOn, GoesOnIsSane
<1>4. z.failed = y.failed /\ (Counted(y) /\ Answered(y) => Polled(z))
  BY <1>3, NextFramePolls
<1> HIDE DEF z
<1>5. Tells(x, z)
  BY <1>2, <1>4 DEF Awaits, Tells
<1>6. Tells(u, z)
  BY <1>1, <1>5, TellsTwice
<1> QED
  BY <1>6 DEF z

--------------------------------------------------------------------------------
(* Steps of FlagGame.                                                             *)

Good(w) == Sound(w) /\ Owned(w) /\ Calm(w) /\ Mapped(w)

LeftAlone(w, v, F) == \A f \in Flags \ F : HolderIn(v, f) = HolderIn(w, f)

Took(w, v, f, who) ==
  /\ v.score = w.score /\ LeftAlone(w, v, {f})
  /\ HolderIn(w, f) \in {"base", "ground"} /\ \A g \in Flags : HolderIn(w, g) # who
  /\ HolderIn(v, f) = who

Gave(w, v, f) ==
  /\ v.score = w.score /\ LeftAlone(w, v, {f})
  /\ HolderIn(w, f) = "ground" /\ HolderIn(v, f) = "base"

Brought(w, v, f, g, t) ==
  /\ v.score = [w.score EXCEPT ![t] = w.score[t] + 1] /\ LeftAlone(w, v, {f, g})
  /\ f # g /\ HolderIn(w, f) \in Person /\ HolderIn(v, f) = "base" /\ HolderIn(v, g) = "base"

Pointed(w, v, f, t) ==
  /\ v.score = [w.score EXCEPT ![t] = w.score[t] + 1] /\ LeftAlone(w, v, {})
  /\ HolderIn(w, f) \in Person

Level(v) == v.score = [t \in {0, 1} |-> 0] /\ \A f \in Flags : HolderIn(v, f) = "base"

Plays(w, v) ==
  \/ Lower(w, v) \/ Level(v)
  \/ \E f \in Flags, who \in Person : Took(w, v, f, who)
  \/ \E f \in Flags : Gave(w, v, f)
  \/ \E f, g \in Flags, t \in {0, 1} : Brought(w, v, f, g, t)
  \/ \E f \in Flags, t \in {0, 1} : Pointed(w, v, f, t)

LEMMA FreshIsLevel ==
  ASSUME NEW v, Fresh(v)
  PROVE  Level(v)
<1>1. AtBase.status = "at_base"
  BY DEF AtBase
<1> QED
  BY <1>1 DEF Fresh, Nought, Level, HolderIn

LEMMA FreshTraced ==
  ASSUME NEW v, Fresh(v)
  PROVE  Traced(v)
<1>1. AtBase.carrier = -1 /\ AtBase.prev = -1 /\ AtBase.prev_prev = -1
  BY DEF AtBase
<1> QED
  BY <1>1 DEF Fresh, Nought, Traced

LEMMA LevelStays ==
  ASSUME NEW w, Level(w), NEW v, Lower(w, v)
  PROVE  Level(v)
<1>1. "base" \notin Person
  BY NamesAssumption
<1> QED
  BY <1>1 DEF Level, Lower

LEMMA SameStays ==
  ASSUME NEW w, Sound(w), NEW v, Same(w, v)
  PROVE  v.score = w.score /\ \A f \in Flags : HolderIn(v, f) = HolderIn(w, f)
<1>1. ASSUME NEW f \in Flags PROVE HolderIn(v, f) = HolderIn(w, f)
  <2>1. w.flag[f].status = "carried" => w.flag[f].carrier \in Used(w)
    BY CarriersOf
  <2> QED
    BY <2>1 DEF Same, HolderIn
<1> QED
  BY <1>1 DEF Same

LEMMA SamePlays ==
  ASSUME NEW u, NEW w, Plays(u, w), Sound(w), NEW v, Same(w, v)
  PROVE  Plays(u, v)
<1>1. v.score = w.score /\ \A f \in Flags : HolderIn(v, f) = HolderIn(w, f)
  BY SameStays
<1>2. Lower(u, w) => Lower(u, v)
  BY <1>1 DEF Lower
<1>3. Level(w) => Level(v)
  BY <1>1 DEF Level
<1>4. \A f \in Flags, who \in Person : Took(u, w, f, who) => Took(u, v, f, who)
  BY <1>1 DEF Took, LeftAlone
<1>5. \A f \in Flags : Gave(u, w, f) => Gave(u, v, f)
  BY <1>1 DEF Gave, LeftAlone
<1>6. \A f, g \in Flags, t \in {0, 1} : Brought(u, w, f, g, t) => Brought(u, v, f, g, t)
  BY <1>1 DEF Brought, LeftAlone
<1>7. \A f \in Flags, t \in {0, 1} : Pointed(u, w, f, t) => Pointed(u, v, f, t)
  BY <1>1 DEF Pointed, LeftAlone
<1> QED
  BY <1>2, <1>3, <1>4, <1>5, <1>6, <1>7 DEF Plays

(* What a function leads to, and what a step of the program leads to.             *)
Leads(w, v) == Good(v) /\ Plays(w, v) /\ (Traced(w) => Traced(v))
Ends(w, v) == Leads(w, v) /\ (Punctual(w) => Punctual(v))

LEMMA EndsIsGood ==
  ASSUME NEW w, NEW v, Ends(w, v)
  PROVE  Good(v) /\ Sound(v) /\ Sane(v) /\ v \in Worlds
BY SoundIsSane DEF Ends, Leads, Good, Sound

LEMMA RenewedEnds ==
  ASSUME NEW w, NEW v, Renewed(v)
  PROVE  Ends(w, v)
BY FreshIsLevel, FreshTraced, RenewedPunctual DEF Renewed, Fresh, Ends, Leads, Good, Plays

LEMMA FollowsEnds ==
  ASSUME NEW w, Good(w), NEW v, Follows(w, v), Traced(w) => Traced(v),
         Several(v) => Several(w)
  PROVE  Ends(w, v)
BY PunctualStays DEF Good, Follows, Rest, Ends, Leads, Plays, Mapped

LEMMA KeepsEnds ==
  ASSUME NEW w, Good(w), NEW v, Keeps(w, v)
  PROVE  Ends(w, v)
BY FollowsEnds, ReseatedSeveral DEF Keeps, Follows

LEMMA PassesLeads ==
  ASSUME NEW u, NEW w, Leads(u, w), NEW v, Passes(w, v)
  PROVE  Leads(u, v)
<1>1. CASE Renewed(v)
  BY <1>1, RenewedEnds DEF Ends
<1>2. CASE Same(w, v) /\ Mapped(v)
  <2>1. Sound(w) /\ Owned(w) /\ Calm(w) /\ Plays(u, w) /\ (Traced(u) => Traced(w))
    BY DEF Leads, Good
  <2>2. Sound(v) /\ Owned(v) /\ Calm(v) /\ (Traced(w) => Traced(v))
    BY <1>2, <2>1, SameKeeps
  <2>3. Plays(u, v)
    BY <1>2, <2>1, SamePlays
  <2> QED
    BY <1>2, <2>1, <2>2, <2>3 DEF Leads, Good
<1> QED
  BY <1>1, <1>2 DEF Passes, Leads, Good

LEMMA GoesOnEnds ==
  ASSUME NEW u, NEW w, Ends(u, w), NEW v, GoesOn(w, v)
  PROVE  Ends(u, v)
<1>1. Passes(w, v)
  BY DEF GoesOn, Passes
<1> QED
  BY <1>1, PassesLeads, GoesOnPunctual DEF Ends

LEMMA NothingEnds ==
  ASSUME NEW w, Good(w)
  PROVE  Ends(w, w)
BY NothingKeeps, KeepsEnds DEF Good

--------------------------------------------------------------------------------
(* Flags that come home, with those who carried them.                             *)

(* The flags of F are at their bases, and the players of C carry nothing.         *)
Home(w, v, F, C) ==
  /\ v \in Worlds
  /\ v.clock = w.clock /\ v.period = w.period /\ v.over = w.over
  /\ v.maprot = w.maprot /\ v.currmap = w.currmap /\ v.failed = w.failed
  /\ v.rock = w.rock /\ v.db = w.db
  /\ \A f \in Flags : v.flag[f] = IF f \in F THEN AtBase ELSE w.flag[f]
  /\ \A f \in Flags \ F : v.by[f] = w.by[f]
  /\ Used(v) = Used(w) /\ Alive(v) = Alive(w)
  /\ \A p \in Used(w) : /\ v.player[p].who = w.player[p].who
                        /\ v.player[p].infected = w.player[p].infected
                        /\ v.player[p].carriedFlag = IF p \in C THEN "none"
                                                     ELSE w.player[p].carriedFlag

HomeKept(w, v, F) ==
  /\ Sound(v)
  /\ Owned(w) => Owned(v)
  /\ (Mapped(w) => Mapped(v)) /\ v.over = w.over
  /\ LeftAlone(w, v, F) /\ \A f \in F : HolderIn(v, f) = "base"
  /\ Traced(w) => Traced(v)

LEMMA HomeTraced ==
  ASSUME NEW w, Traced(w), NEW F \in SUBSET Flags, NEW C, NEW v, Home(w, v, F, C)
  PROVE  Traced(v)
<1> SUFFICES ASSUME NEW f \in Flags
    PROVE  LET g == v.flag[f] IN
           /\ \A q \in {g.carrier, g.prev, g.prev_prev} \ {-1} : Named(v, f, q)
           /\ g.carrier # -1 => /\ g.carrier \in Used(v) /\ v.player[g.carrier].who \in v.by[f]
                                /\ g.prev # g.carrier /\ g.prev_prev = -1
           /\ g.prev # -1 => g.prev # g.prev_prev
  BY DEF Traced
<1>1. CASE f \in F
  <2>1. v.flag[f] = AtBase
    BY <1>1 DEF Home
  <2>2. AtBase.carrier = -1 /\ AtBase.prev = -1 /\ AtBase.prev_prev = -1
    BY DEF AtBase
  <2> QED
    BY <2>1, <2>2
<1>2. CASE f \notin F
  <2>1. v.flag[f] = w.flag[f] /\ v.by[f] = w.by[f]
    BY <1>2 DEF Home
  <2>2. Used(v) = Used(w) /\ \A p \in Used(w) : v.player[p].who = w.player[p].who
    BY DEF Home
  <2>3. \A q : Named(w, f, q) => Named(v, f, q)
    BY <2>1, <2>2 DEF Named
  <2> QED
    BY <2>1, <2>2, <2>3 DEF Traced
<1> QED
  BY <1>1, <1>2

LEMMA HomeKeeps ==
  ASSUME NEW w, Sound(w), NEW F \in SUBSET Flags, NEW C \in SUBSET Pid,
         \A f \in F : w.flag[f].carrier \in C \cup {-1},
         \A p \in C : \E f \in F : w.flag[f].carrier = p,
         NEW v, Home(w, v, F, C)
  PROVE  HomeKept(w, v, F)
<1>0. Held(w) /\ Distinct(w) /\ w \in Worlds /\ Len(w.maprot) <= Cardinality(rules.maps)
  BY DEF Sound
<1>1. Len(v.maprot) <= Cardinality(rules.maps) /\ v \in Worlds
  BY <1>0 DEF Home
<1>2. Distinct(v)
  BY <1>0 DEF Home, Distinct
<1>3. \A f \in F : v.flag[f].carrier = -1 /\ v.flag[f].status = "at_base"
  BY DEF Home, AtBase
<1>4. \A f \in Flags \ F : v.flag[f] = w.flag[f]
  BY DEF Home
<1>5. ASSUME NEW f \in Flags \ F, w.flag[f].carrier # -1
      PROVE  /\ w.flag[f].carrier \in Used(w) /\ w.flag[f].carrier \in Alive(v)
             /\ w.flag[f].carrier \notin C
             /\ v.player[w.flag[f].carrier].carriedFlag = Kind(w.flag[f].carrier, f)
             /\ v.player[w.flag[f].carrier].who = w.player[w.flag[f].carrier].who
  <2>1. /\ w.flag[f].carrier \in Used(w) /\ w.flag[f].carrier \in Alive(w)
        /\ w.player[w.flag[f].carrier].carriedFlag = Kind(w.flag[f].carrier, f)
    BY <1>5, CarriersOf
  <2>2. w.flag[f].carrier \notin C
    <3> SUFFICES ASSUME w.flag[f].carrier \in C PROVE FALSE
      OBVIOUS
    <3>1. PICK g \in F : w.flag[g].carrier = w.flag[f].carrier
      OBVIOUS
    <3> QED
      BY <1>0, <1>5, <3>1 DEF Held
  <2> QED
    BY <2>1, <2>2 DEF Home
<1>6. Held(v)
  <2>1. v.failed \in {"none", "oldVotes"}
    BY <1>0 DEF Home, Held
  <2>2. ASSUME NEW f \in Flags
        PROVE  /\ (v.flag[f].carrier # -1) = (v.flag[f].status = "carried")
               /\ v.flag[f].carrier # -1 =>
                    /\ v.flag[f].carrier \in Alive(v)
                    /\ v.player[v.flag[f].carrier].carriedFlag = Kind(v.flag[f].carrier, f)
    <3>1. CASE f \in F
      BY <1>3, <3>1
    <3>2. CASE f \notin F
      <4>1. (w.flag[f].carrier # -1) = (w.flag[f].status = "carried")
        BY <1>0 DEF Held
      <4> QED
        BY <1>4, <1>5, <3>2, <4>1
    <3> QED
      BY <3>1, <3>2
  <2>3. ASSUME NEW f \in Flags, NEW g \in Flags, v.flag[f].carrier = v.flag[g].carrier, f # g
        PROVE  v.flag[f].carrier = -1
    <3>1. CASE f \in F \/ g \in F
      BY <1>3, <2>3, <3>1
    <3>2. CASE f \notin F /\ g \notin F
      BY <1>0, <1>4, <2>3, <3>2 DEF Held
    <3> QED
      BY <3>1, <3>2
  <2>4. ASSUME NEW p \in Used(v), HasFlag(v, p) PROVE \E f \in Flags : v.flag[f].carrier = p
    <3>1. p \in Used(w) /\ p \notin C /\ HasFlag(w, p)
      BY <2>4 DEF Home, HasFlag
    <3>2. PICK f \in Flags : w.flag[f].carrier = p
      BY <1>0, <3>1 DEF Held
    <3>3. p \in Pid /\ p # -1
      BY <3>1, Sides DEF Used
    <3>4. f \notin F
      BY <3>1, <3>2, <3>3
    <3> QED
      BY <1>4, <3>2, <3>4
  <2> QED
    BY <2>1, <2>2, <2>3, <2>4 DEF Held
<1>7. Owned(w) => Owned(v)
  <2>1. \A s : Rightful(w, s) => Rightful(v, s)
    BY DEF Home, Rightful
  <2> QED
    BY <2>1 DEF Owned, Home
<1>8. LeftAlone(w, v, F)
  <2>1. ASSUME NEW f \in Flags \ F PROVE HolderIn(v, f) = HolderIn(w, f)
    <3>1. w.flag[f].status = "carried" <=> w.flag[f].carrier # -1
      BY <1>0 DEF Held
    <3> QED
      BY <1>4, <1>5, <3>1 DEF HolderIn
  <2> QED
    BY <2>1 DEF LeftAlone
<1>9. \A f \in F : HolderIn(v, f) = "base"
  BY <1>3 DEF HolderIn
<1>10. Traced(w) => Traced(v)
  BY HomeTraced
<1> QED
  BY <1>1, <1>2, <1>6, <1>7, <1>8, <1>9, <1>10 DEF Sound, Home, Mapped, HomeKept

LEMMA ReturnFlagIs ==
  ASSUME NEW w \in Worlds, NEW f \in Flags, NEW v, v = ReturnFlag(w, f)
  PROVE  /\ v \in Worlds /\ Rest(w, v) /\ v.player = w.player /\ v.rock = w.rock /\ v.db = w.db
         /\ v.flag[f] = AtBase
         /\ \A g \in Flags : g # f => v.flag[g] = w.flag[g] /\ v.by[g] = w.by[g]
         /\ Used(v) = Used(w) /\ Alive(v) = Alive(w)
<1> DEFINE F == [w.flag EXCEPT ![f] = AtBase]
           B == [w.by EXCEPT ![f] = {}]
<1>1. /\ F \in [Flags -> FlagState] /\ B \in [Flags -> SUBSET Person]
      /\ F[f] = AtBase /\ \A g \in Flags : g # f => F[g] = w.flag[g] /\ B[g] = w.by[g]
  BY DEF AtBase, FlagState, Worlds
<1>2. v = [w EXCEPT !.flag = F, !.by = B]
  BY DEF ReturnFlag, Worlds
<1> HIDE DEF F, B
<1>3. /\ v \in Worlds /\ Rest(w, v) /\ v.player = w.player /\ v.rock = w.rock /\ v.db = w.db
      /\ v.flag = F /\ v.by = B
  BY <1>1, <1>2 DEF Worlds, Rest
<1> QED
  BY <1>1, <1>3 DEF Used, Alive

(* A player returns a flag from the ground.                                       *)
LEMMA ReturnEnds ==
  ASSUME NEW w, Good(w), Alive(w) # {}, NEW f \in Flags, w.flag[f].status = "dropped",
         NEW v, v = ReturnFlag(w, f)
  PROVE  Ends(w, v)
<1>0. w \in Worlds /\ Sound(w) /\ ~w.over
  BY DEF Good, Sound, Calm
<1>1. w.flag[f].carrier = -1
  BY <1>0 DEF Sound, Held
<1>2. /\ v \in Worlds /\ Rest(w, v) /\ v.player = w.player /\ v.rock = w.rock /\ v.db = w.db
      /\ v.flag[f] = AtBase
      /\ \A g \in Flags : g # f => v.flag[g] = w.flag[g] /\ v.by[g] = w.by[g]
      /\ Used(v) = Used(w) /\ Alive(v) = Alive(w)
  BY <1>0, ReturnFlagIs
<1>3. Home(w, v, {f}, {})
  BY <1>2 DEF Home, Rest
<1>4. /\ Sound(v) /\ (Owned(w) => Owned(v)) /\ (Mapped(w) => Mapped(v)) /\ v.over = w.over
      /\ LeftAlone(w, v, {f}) /\ HolderIn(v, f) = "base" /\ (Traced(w) => Traced(v))
  <2> DEFINE F == {f}
             C == {}
  <2>1. /\ F \in SUBSET Flags /\ C \in SUBSET Pid /\ Home(w, v, F, C)
        /\ \A g \in F : w.flag[g].carrier \in C \cup {-1}
        /\ \A q \in C : \E g \in F : w.flag[g].carrier = q
    BY <1>1, <1>3
  <2>2. f \in F
    OBVIOUS
  <2>3. HomeKept(w, v, F)
    <3> HIDE DEF F, C
    <3> QED
      BY <1>0, <2>1, HomeKeeps
  <2> QED
    BY <2>2, <2>3 DEF HomeKept
<1>5. Gave(w, v, f)
  BY <1>2, <1>4 DEF Gave, Rest, HolderIn
<1>6. Punctual(w) => Punctual(v)
  BY <1>2, UsedSeveral, PunctualStays DEF Rest
<1> QED
  BY <1>0, <1>4, <1>5, <1>6 DEF Ends, Leads, Good, Calm, Plays

(* A player takes a flag.                                                         *)
LEMMA StealEnds ==
  ASSUME rules \in Settings, NEW w, Good(w), NEW p \in Alive(w), ~HasFlag(w, p),
         NEW f \in Flags, w.flag[f].status # "carried", f[1] = Team(p) => rules.carry_own_team_flag,
         NEW v, v = Steal(w, p, f)
  PROVE  Ends(w, v)
<1> DEFINE P == [w.player EXCEPT ![p].carriedFlag = Kind(p, f)]
           F == [w.flag EXCEPT ![f] = Taken(w.flag[f], p)]
           B == [w.by EXCEPT ![f] = w.by[f] \cup {w.player[p].who}]
<1>0. /\ w \in Worlds /\ Sound(w) /\ ~w.over /\ Held(w) /\ Distinct(w)
      /\ p \in Used(w) /\ ~w.player[p].dead
  BY DEF Good, Sound, Calm, Alive
<1>1. /\ p \in Pid /\ w.player[p] \in Player /\ w.player[p] # None /\ w.player[p].who \in Person
      /\ p # -1
  BY <1>0, PlayersOf, Sides
<1>2. Kind(p, f) \in {"own", "enemy", "wild"}
  BY DEF Kind
<1>3. /\ P \in [Pid -> Player \cup {None}]
      /\ P[p] \in Player /\ P[p].carriedFlag = Kind(p, f) /\ P[p].who = w.player[p].who
      /\ P[p].infected = w.player[p].infected /\ P[p].dead = w.player[p].dead
      /\ \A q \in Pid : q # p => P[q] = w.player[q]
  <2> DEFINE kind == Kind(p, f)
  <2>1. kind \in {"own", "enemy", "wild"}
    BY <1>2
  <2> HIDE DEF kind
  <2>2. LET R == [w.player EXCEPT ![p].carriedFlag = kind] IN
      /\ R \in [Pid -> Player \cup {None}]
      /\ R[p] \in Player /\ R[p].carriedFlag = kind /\ R[p].who = w.player[p].who
      /\ R[p].infected = w.player[p].infected /\ R[p].dead = w.player[p].dead
      /\ \A q \in Pid : q # p => R[q] = w.player[q]
    BY <1>0, <1>1, <2>1 DEF Worlds, Player
  <2> QED
    BY <2>2 DEF kind
<1>4. w.flag[f] \in FlagState
  BY <1>0 DEF Worlds
<1>5. /\ Taken(w.flag[f], p) \in FlagState /\ Taken(w.flag[f], p).carrier = p
      /\ Taken(w.flag[f], p).status = "carried"
  BY <1>1, <1>4 DEF Taken, FlagState
<1>6. /\ F \in [Flags -> FlagState] /\ F[f].carrier = p /\ F[f].status = "carried"
      /\ F[f] = Taken(w.flag[f], p) /\ \A g \in Flags : g # f => F[g] = w.flag[g]
  BY <1>0, <1>5 DEF Worlds
<1>7. /\ B \in [Flags -> SUBSET Person] /\ w.player[p].who \in B[f]
      /\ w.by[f] \subseteq B[f] /\ \A g \in Flags : g # f => B[g] = w.by[g]
  BY <1>0, <1>1 DEF Worlds
<1>8. v = [w EXCEPT !.player = P, !.flag = F, !.by = B]
  BY <1>0, <1>1 DEF Steal, Worlds
<1> HIDE DEF P, F, B
<1>9. /\ v \in Worlds /\ Rest(w, v) /\ v.player = P /\ v.flag = F /\ v.by = B
      /\ v.rock = w.rock /\ v.db = w.db
  BY <1>0, <1>3, <1>6, <1>7, <1>8 DEF Worlds, Rest
<1>10. Used(v) = Used(w) /\ Alive(v) = Alive(w)
  <2>1. \A q \in Pid : P[q] = None <=> w.player[q] = None
    BY <1>1, <1>3, Names
  <2>2. Used(v) = Used(w)
    BY <1>9, <2>1 DEF Used
  <2>3. \A q \in Used(w) : P[q].dead = w.player[q].dead
    BY <1>3 DEF Used
  <2> QED
    BY <1>9, <2>2, <2>3 DEF Alive
<1>11. \A g \in Flags : w.flag[g].carrier # p
  <2> SUFFICES ASSUME NEW g \in Flags, w.flag[g].carrier = p PROVE FALSE
    OBVIOUS
  <2> QED
    BY <1>0, <1>1, CarriersOf
<1>12. w.flag[f].carrier = -1
  BY <1>0 DEF Held
<1>13. Held(v)
  <2>1. v.failed \in {"none", "oldVotes"}
    BY <1>0, <1>9 DEF Held, Rest
  <2>2. ASSUME NEW g \in Flags
        PROVE  /\ (v.flag[g].carrier # -1) = (v.flag[g].status = "carried")
               /\ v.flag[g].carrier # -1 =>
                    /\ v.flag[g].carrier \in Alive(v)
                    /\ v.player[v.flag[g].carrier].carriedFlag = Kind(v.flag[g].carrier, g)
    <3>1. CASE g = f
      BY <1>1, <1>3, <1>6, <1>9, <1>10, <3>1
    <3>2. CASE g # f
      <4>1. v.flag[g] = w.flag[g]
        BY <1>6, <1>9, <3>2
      <4>2. (w.flag[g].carrier # -1) = (w.flag[g].status = "carried")
        BY <1>0 DEF Held
      <4>3. w.flag[g].carrier # -1 =>
              /\ w.flag[g].carrier \in Alive(w) /\ w.flag[g].carrier \in Pid
              /\ w.player[w.flag[g].carrier].carriedFlag = Kind(w.flag[g].carrier, g)
        BY <1>0, CarriersOf
      <4> QED
        BY <1>3, <1>9, <1>10, <1>11, <4>1, <4>2, <4>3
    <3> QED
      BY <3>1, <3>2
  <2>3. \A g, h \in Flags : v.flag[g].carrier = v.flag[h].carrier /\ g # h => v.flag[g].carrier = -1
    BY <1>0, <1>6, <1>9, <1>11 DEF Held
  <2>4. ASSUME NEW q \in Used(v), HasFlag(v, q) PROVE \E g \in Flags : v.flag[g].carrier = q
    <3>1. CASE q = p
      BY <1>6, <1>9, <3>1
    <3>2. CASE q # p
      <4>1. q \in Used(w) /\ HasFlag(w, q) /\ q # -1
        BY <1>3, <1>9, <1>10, <2>4, <3>2, Sides DEF HasFlag, Used
      <4>2. PICK g \in Flags : w.flag[g].carrier = q
        BY <1>0, <4>1 DEF Held
      <4> QED
        BY <1>6, <1>9, <1>12, <4>1, <4>2
    <3> QED
      BY <3>1, <3>2
  <2> QED
    BY <2>1, <2>2, <2>3, <2>4 DEF Held
<1>14. \A q \in Used(w) : v.player[q].who = w.player[q].who /\ v.player[q].infected = w.player[q].infected
  BY <1>3, <1>9 DEF Used
<1>15. Sound(v)
  BY <1>0, <1>9, <1>10, <1>13, <1>14 DEF Sound, Rest, Distinct
<1>16. Owned(v)
  <2>1. \A s : Rightful(w, s) => Rightful(v, s)
    BY <1>10, <1>14 DEF Rightful
  <2> QED
    BY <1>9, <1>10, <1>14, <2>1 DEF Owned, Good
<1>17. Took(w, v, f, w.player[p].who)
  <2>1. \A g \in Flags : HolderIn(w, g) # w.player[p].who
    <3> SUFFICES ASSUME NEW g \in Flags, HolderIn(w, g) = w.player[p].who PROVE FALSE
      OBVIOUS
    <3>1. HolderIn(w, g) \notin {"ground", "base"}
      BY <1>1, NamesAssumption
    <3>2. /\ w.flag[g].status = "carried" /\ w.flag[g].carrier \in Used(w)
          /\ w.player[w.flag[g].carrier].who = w.player[p].who
      BY <1>0, <3>1, CarriersOf DEF HolderIn
    <3> QED
      BY <1>0, <1>11, <3>2 DEF Distinct
  <2>2. HolderIn(w, f) \in {"base", "ground"}
    BY DEF HolderIn
  <2>3. HolderIn(v, f) = w.player[p].who
    BY <1>0, <1>6, <1>9, <1>14 DEF HolderIn
  <2>4. ASSUME NEW g \in Flags, g # f PROVE HolderIn(v, g) = HolderIn(w, g)
    <3>1. v.flag[g] = w.flag[g]
      BY <1>6, <1>9, <2>4
    <3>2. w.flag[g].status = "carried" => w.flag[g].carrier \in Used(w)
      BY <1>0, CarriersOf
    <3> QED
      BY <1>14, <3>1, <3>2 DEF HolderIn
  <2> QED
    BY <1>9, <2>1, <2>2, <2>3, <2>4 DEF Took, LeftAlone, Rest
<1>18. ASSUME Traced(w) PROVE Traced(v)
  <2>1. \A g \in Flags : \A q : Named(w, g, q) => Named(v, g, q)
    <3>1. \A g \in Flags : w.by[g] \subseteq v.by[g]
      BY <1>7, <1>9
    <3> QED
      BY <1>10, <1>14, <3>1 DEF Named
  <2> SUFFICES ASSUME NEW g \in Flags
      PROVE  LET k == v.flag[g] IN
             /\ \A q \in {k.carrier, k.prev, k.prev_prev} \ {-1} : Named(v, g, q)
             /\ k.carrier # -1 => /\ k.carrier \in Used(v) /\ v.player[k.carrier].who \in v.by[g]
                                  /\ k.prev # k.carrier /\ k.prev_prev = -1
             /\ k.prev # -1 => k.prev # k.prev_prev
    BY DEF Traced
  <2>2. CASE g # f
    <3>1. v.flag[g] = w.flag[g] /\ v.by[g] = w.by[g]
      BY <1>6, <1>7, <1>9, <2>2
    <3> QED
      BY <1>10, <1>14, <1>18, <2>1, <3>1 DEF Traced
  <2>3. CASE g = f
    <3> DEFINE k == w.flag[f]
    <3>1. v.flag[f] = Taken(k, p)
      BY <1>6, <1>9
    <3>2. /\ \A q \in {k.prev, k.prev_prev} \ {-1} : Named(v, f, q)
          /\ k.prev # -1 => k.prev # k.prev_prev
      BY <1>18, <2>1 DEF Traced
    <3>3. v.player[p].who \in v.by[f] /\ p \in Used(v)
      BY <1>0, <1>7, <1>9, <1>10, <1>14
    <3>4. Named(v, f, p)
      BY <3>3 DEF Named
    <3> QED
      BY <1>4, <2>3, <3>1, <3>2, <3>3, <3>4 DEF Taken, FlagState
  <2> QED
    BY <2>2, <2>3
<1>19. Punctual(w) => Punctual(v)
  BY <1>9, <1>10, UsedSeveral, PunctualStays DEF Rest
<1> QED
  BY <1>0, <1>1, <1>9, <1>15, <1>16, <1>17, <1>18, <1>19
     DEF Ends, Leads, Good, Calm, Rest, Mapped, Plays

(* A capture.                                                                     *)
Scored(w, p) == [w EXCEPT !.score[Team(p)] = @ + 1, !.player[p].carriedFlag = "none"]

LEMMA ScoredIs ==
  ASSUME rules \in Settings, NEW w \in Worlds, NEW p \in Used(w), NEW v, v = Scored(w, p)
  PROVE  /\ v \in Worlds /\ v.score = [w.score EXCEPT ![Team(p)] = w.score[Team(p)] + 1]
         /\ v.clock = w.clock /\ v.period = w.period /\ v.over = w.over
         /\ v.maprot = w.maprot /\ v.currmap = w.currmap /\ v.failed = w.failed
         /\ v.rock = w.rock /\ v.db = w.db /\ v.flag = w.flag /\ v.by = w.by
         /\ Used(v) = Used(w) /\ Alive(v) = Alive(w)
         /\ v.player = [w.player EXCEPT ![p].carriedFlag = "none"]
<1> DEFINE P == [w.player EXCEPT ![p].carriedFlag = "none"]
           t == Team(p)
           S == [w.score EXCEPT ![t] = w.score[t] + 1]
<1>1. p \in Pid /\ w.player[p] \in Player /\ w.player[p] # None
  BY PlayersOf
<1>2. t \in {0, 1}
  BY <1>1, Sides
<1>3. v = [w EXCEPT !.score = S, !.player = P]
  BY <1>1 DEF Scored, Worlds
<1> HIDE DEF t
<1>4. S \in [{0, 1} -> Nat]
  BY <1>2 DEF Worlds
<1>5. /\ P \in [Pid -> Player \cup {None}] /\ P[p] \in Player /\ P[p].dead = w.player[p].dead
      /\ \A q \in Pid : q # p => P[q] = w.player[q]
  BY <1>1 DEF Worlds, Player
<1>p. P = [w.player EXCEPT ![p].carriedFlag = "none"] /\ S = [w.score EXCEPT ![t] = w.score[t] + 1]
  OBVIOUS
<1> HIDE DEF S, P
<1>6. /\ v \in Worlds /\ v.score = S /\ v.player = P
      /\ v.clock = w.clock /\ v.period = w.period /\ v.over = w.over
      /\ v.maprot = w.maprot /\ v.currmap = w.currmap /\ v.failed = w.failed
      /\ v.rock = w.rock /\ v.db = w.db /\ v.flag = w.flag /\ v.by = w.by
  BY <1>3, <1>4, <1>5 DEF Worlds
<1>7. \A q \in Pid : P[q] = None <=> w.player[q] = None
  BY <1>1, <1>5, Names
<1>8. Used(v) = Used(w)
  BY <1>6, <1>7 DEF Used
<1>9. \A q \in Used(w) : P[q].dead = w.player[q].dead
  BY <1>5 DEF Used
<1>10. Alive(v) = Alive(w)
  BY <1>6, <1>8, <1>9 DEF Alive
<1> QED
  BY <1>6, <1>8, <1>10, <1>p DEF t

(* The same votes for the same maps.                                              *)
Holds(w, v) == Seated(w, v) /\ v.maprot = w.maprot /\ v.missed = w.missed /\ v.clock = w.clock

LEMMA HoldsTwice ==
  ASSUME NEW u, NEW v, NEW w, Holds(u, v), Holds(v, w)
  PROVE  Holds(u, w)
BY SeatedTwice DEF Holds

(* Who says what he carries says nothing about his vote.                          *)
LEMMA LoweredSeated ==
  ASSUME NEW w \in Worlds, NEW p \in Used(w), NEW v, Used(v) = Used(w), NEW c,
         v.player = [w.player EXCEPT ![p].carriedFlag = c]
  PROVE  Seated(w, v)
<1>1. p \in Pid /\ w.player[p] \in Player
  BY PlayersOf
<1>2. ASSUME NEW q \in Used(w) PROVE Alter(v.player[q], w.player[q])
  <2>1. q \in Pid
    BY <1>2 DEF Used
  <2>2. CASE q = p
    BY <1>1, <2>2 DEF Alter, Player, Worlds
  <2>3. CASE q # p
    BY <1>1, <2>1, <2>3 DEF Alter, Worlds
  <2> QED
    BY <2>2, <2>3
<1> QED
  BY <1>2 DEF Seated

LEMMA ScoredHolds ==
  ASSUME rules \in Settings, NEW w \in Worlds, NEW p \in Used(w), NEW v, v = Scored(w, p)
  PROVE  v \in Worlds /\ Holds(w, v)
<1>1. /\ v \in Worlds /\ v.score = [w.score EXCEPT ![Team(p)] = w.score[Team(p)] + 1]
      /\ v.clock = w.clock /\ v.period = w.period /\ v.over = w.over
      /\ v.maprot = w.maprot /\ v.currmap = w.currmap /\ v.failed = w.failed
      /\ v.rock = w.rock /\ v.db = w.db /\ v.flag = w.flag /\ v.by = w.by
      /\ Used(v) = Used(w) /\ Alive(v) = Alive(w)
      /\ v.player = [w.player EXCEPT ![p].carriedFlag = "none"]
  BY ScoredIs
<1>2. v.missed = w.missed
  BY DEF Scored, Worlds
<1>3. Seated(w, v)
  BY <1>1, LoweredSeated
<1> QED
  BY <1>1, <1>2, <1>3 DEF Holds

LEMMA ReturnHolds ==
  ASSUME NEW w \in Worlds, NEW f \in Flags, NEW v, v = ReturnFlag(w, f)
  PROVE  v \in Worlds /\ Holds(w, v)
<1>1. v \in Worlds /\ Rest(w, v) /\ v.player = w.player /\ Used(v) = Used(w)
  BY ReturnFlagIs
<1> QED
  BY <1>1 DEF Holds, Rest, Seated, Alter

LEMMA DropHolds ==
  ASSUME rules \in Settings, NEW w \in Worlds, NEW p \in Used(w), NEW v, v = DropFlagIfAny(w, p)
  PROVE  v \in Worlds /\ Holds(w, v)
<1>0. p \in Pid /\ w.player[p] \in Player /\ w.player[p] # None
  BY PlayersOf
<1>1. CASE v = w \/ v = Fail(w, "dropFlagIfAny")
  <2>1. /\ v.player = w.player /\ v.maprot = w.maprot /\ v.missed = w.missed /\ v.clock = w.clock
        /\ v \in Worlds
    BY <1>1 DEF Fail, Worlds
  <2> QED
    BY <2>1 DEF Holds, Seated, Alter, Used
<1>2. CASE HasFlag(w, p) /\ CarriedBy(w, p) # {}
  <2> DEFINE P == [w.player EXCEPT ![p].carriedFlag = "none"]
             f == CHOOSE f \in CarriedBy(w, p) : TRUE
             F == [w.flag EXCEPT ![f] = Dropped(w.flag[f])]
  <2>1. f \in Flags
    BY <1>2 DEF CarriedBy
  <2>2. v = [w EXCEPT !.player[p].carriedFlag = "none", !.flag[f] = Dropped(@)]
    BY <1>2 DEF DropFlagIfAny
  <2> HIDE DEF f
  <2>3. v = [w EXCEPT !.player = P, !.flag = F]
    BY <1>0, <2>1, <2>2 DEF Worlds
  <2>4. /\ P \in [Pid -> Player \cup {None}] /\ P[p] \in Player
        /\ \A q \in Pid : q # p => P[q] = w.player[q]
    BY <1>0 DEF Worlds, Player
  <2>f. F \in [Flags -> FlagState]
    <3>1. w.flag \in [Flags -> FlagState] /\ w.flag[f] \in FlagState
      BY <2>1 DEF Worlds
    <3>2. Dropped(w.flag[f]) \in FlagState
      BY <3>1 DEF Dropped, FlagState
    <3> QED
      BY <3>1, <3>2
  <2>p. P = [w.player EXCEPT ![p].carriedFlag = "none"]
    OBVIOUS
  <2> HIDE DEF P, F
  <2>5. /\ v.player = P /\ v.maprot = w.maprot /\ v.missed = w.missed /\ v.clock = w.clock
        /\ v \in Worlds
    BY <2>3, <2>4, <2>f DEF Worlds
  <2>6. \A q \in Pid : P[q] = None <=> w.player[q] = None
    BY <1>0, <2>4, Names
  <2>7. Used(v) = Used(w)
    BY <2>5, <2>6 DEF Used
  <2>8. Seated(w, v)
    BY <2>5, <2>7, <2>p, LoweredSeated
  <2> QED
    BY <2>5, <2>8 DEF Holds
<1> QED
  BY <1>1, <1>2 DEF DropFlagIfAny

(* Who is said to carry a flag, and carries just that one, drops it.              *)
OneDropped(w, v, p, f) ==
  /\ v \in Worlds /\ Rest(w, v) /\ v.rock = w.rock /\ v.db = w.db
  /\ Used(v) = Used(w) /\ Alive(v) = Alive(w)
  /\ v.player = [w.player EXCEPT ![p].carriedFlag = "none"]
  /\ \A g \in Flags : g # f => v.flag[g] = w.flag[g]
  /\ v.by = w.by

LEMMA DropsIt ==
  ASSUME rules \in Settings, NEW w \in Worlds, NEW p \in Used(w), HasFlag(w, p), NEW f \in Flags,
         \A g \in Flags : w.flag[g].carrier = p <=> g = f,
         NEW v, v = DropFlagIfAny(w, p)
  PROVE  OneDropped(w, v, p, f)
<1> DEFINE P == [w.player EXCEPT ![p].carriedFlag = "none"]
           F == [w.flag EXCEPT ![f] = Dropped(w.flag[f])]
<1>0. p \in Pid /\ w.player[p] \in Player /\ w.player[p] # None
  BY PlayersOf
<1>1. CarriedBy(w, p) = {f}
  BY DEF CarriedBy
<1>2. v = [w EXCEPT !.player = P, !.flag = F]
  BY <1>0, <1>1 DEF DropFlagIfAny, Worlds
<1>3. Dropped(w.flag[f]) \in FlagState
  <2>1. w.flag[f] \in FlagState
    BY DEF Worlds
  <2> QED
    BY <2>1 DEF Dropped, FlagState
<1>4. F \in [Flags -> FlagState] /\ \A g \in Flags : g # f => F[g] = w.flag[g]
  BY <1>3 DEF Worlds
<1>5. /\ P \in [Pid -> Player \cup {None}] /\ P[p] \in Player /\ P[p].dead = w.player[p].dead
      /\ \A q \in Pid : q # p => P[q] = w.player[q]
  BY <1>0 DEF Worlds, Player
<1>p. P = [w.player EXCEPT ![p].carriedFlag = "none"]
  OBVIOUS
<1> HIDE DEF F, P
<1>6. v \in Worlds /\ v.flag = F /\ v.player = P /\ Rest(w, v)
      /\ v.rock = w.rock /\ v.db = w.db /\ v.by = w.by
  BY <1>2, <1>4, <1>5 DEF Worlds, Rest
<1>7. \A q \in Pid : P[q] = None <=> w.player[q] = None
  BY <1>0, <1>5, Names
<1>8. Used(v) = Used(w)
  BY <1>6, <1>7 DEF Used
<1>9. \A q \in Used(w) : P[q].dead = w.player[q].dead
  BY <1>5 DEF Used
<1>10. Alive(v) = Alive(w)
  BY <1>6, <1>8, <1>9 DEF Alive
<1> QED
  BY <1>4, <1>6, <1>8, <1>10, <1>p DEF OneDropped

(* A flag that is brought home without another's being taken from its carrier.    *)
LEMMA BroughtAlone ==
  ASSUME rules \in Settings, NEW w \in Worlds, Sound(w), NEW f \in Flags, NEW g \in Flags, f # g,
         NEW p \in Used(w), w.flag[f].carrier = p, w.flag[g].carrier = -1,
         NEW a, NEW b, {a, b} = {f, g},
         NEW y, y = ReturnFlag(ReturnFlag(Scored(w, p), a), b)
  PROVE  /\ Home(w, y, {f, g}, {p})
         /\ y.score = [w.score EXCEPT ![Team(p)] = w.score[Team(p)] + 1]
<1> DEFINE v == Scored(w, p)
           u == ReturnFlag(v, a)
<1>0. a \in Flags /\ b \in Flags
  OBVIOUS
<1>1. /\ v \in Worlds /\ v.score = [w.score EXCEPT ![Team(p)] = w.score[Team(p)] + 1]
      /\ v.clock = w.clock /\ v.period = w.period /\ v.over = w.over
      /\ v.maprot = w.maprot /\ v.currmap = w.currmap /\ v.failed = w.failed
      /\ v.rock = w.rock /\ v.db = w.db /\ v.flag = w.flag /\ v.by = w.by
      /\ Used(v) = Used(w) /\ Alive(v) = Alive(w)
      /\ v.player = [w.player EXCEPT ![p].carriedFlag = "none"]
  BY ScoredIs
<1> HIDE DEF v
<1>2. /\ u \in Worlds /\ Rest(v, u) /\ u.player = v.player /\ u.rock = v.rock /\ u.db = v.db
      /\ u.flag[a] = AtBase
      /\ \A h \in Flags : h # a => u.flag[h] = v.flag[h] /\ u.by[h] = v.by[h]
      /\ Used(u) = Used(v) /\ Alive(u) = Alive(v)
  BY <1>0, <1>1, ReturnFlagIs
<1>3. y = ReturnFlag(u, b)
  BY DEF v
<1> HIDE DEF u
<1>4. /\ y \in Worlds /\ Rest(u, y) /\ y.player = u.player /\ y.rock = u.rock /\ y.db = u.db
      /\ y.flag[b] = AtBase
      /\ \A h \in Flags : h # b => y.flag[h] = u.flag[h] /\ y.by[h] = u.by[h]
      /\ Used(y) = Used(u) /\ Alive(y) = Alive(u)
  BY <1>0, <1>2, <1>3, ReturnFlagIs
<1>5. /\ \A h \in Flags : y.flag[h] = IF h \in {f, g} THEN AtBase ELSE w.flag[h]
      /\ \A h \in Flags \ {f, g} : y.by[h] = w.by[h]
  BY <1>1, <1>2, <1>4
<1>6. \A q \in Used(w) : /\ y.player[q].who = w.player[q].who
                         /\ y.player[q].infected = w.player[q].infected
                         /\ y.player[q].carriedFlag = IF q \in {p} THEN "none"
                                                      ELSE w.player[q].carriedFlag
  <2>1. y.player = [w.player EXCEPT ![p].carriedFlag = "none"]
    BY <1>1, <1>2, <1>4
  <2>2. \A q \in Used(w) : q \in Pid /\ w.player[q] \in Player
    BY PlayersOf
  <2> QED
    BY <2>1, <2>2 DEF Worlds, Player
<1> QED
  BY <1>1, <1>2, <1>4, <1>5, <1>6 DEF Home, Rest

(* A flag that is brought to a teammate who carries another.                      *)
LEMMA BroughtToCarrier ==
  ASSUME rules \in Settings, NEW w \in Worlds, Sound(w), NEW f \in Flags, NEW g \in Flags, f # g,
         NEW p \in Used(w), w.flag[f].carrier = p,
         NEW q \in Used(w), w.flag[g].carrier = q,
         NEW y, y = ReturnFlag(DropFlagIfAny(ReturnFlag(Scored(w, p), f), q), g)
  PROVE  /\ Home(w, y, {f, g}, {p, q})
         /\ y.score = [w.score EXCEPT ![Team(p)] = w.score[Team(p)] + 1]
<1> DEFINE v == Scored(w, p)
           u == ReturnFlag(v, f)
           x == DropFlagIfAny(u, q)
<1>0. /\ \A r \in Used(w) : r \in Pid /\ w.player[r] \in Player /\ r # -1
      /\ \A h, k \in Flags : w.flag[h].carrier = w.flag[k].carrier /\ h # k => w.flag[h].carrier = -1
  BY PlayersOf, Sides DEF Sound, Held
<1>a. p # q /\ HasFlag(w, q)
  BY <1>0, CarriersOf
<1>1. /\ v \in Worlds /\ v.score = [w.score EXCEPT ![Team(p)] = w.score[Team(p)] + 1]
      /\ v.clock = w.clock /\ v.period = w.period /\ v.over = w.over
      /\ v.maprot = w.maprot /\ v.currmap = w.currmap /\ v.failed = w.failed
      /\ v.rock = w.rock /\ v.db = w.db /\ v.flag = w.flag /\ v.by = w.by
      /\ Used(v) = Used(w) /\ Alive(v) = Alive(w)
      /\ v.player = [w.player EXCEPT ![p].carriedFlag = "none"]
  BY ScoredIs
<1> HIDE DEF v
<1>2. /\ u \in Worlds /\ Rest(v, u) /\ u.player = v.player /\ u.rock = v.rock /\ u.db = v.db
      /\ u.flag[f] = AtBase
      /\ \A h \in Flags : h # f => u.flag[h] = v.flag[h] /\ u.by[h] = v.by[h]
      /\ Used(u) = Used(v) /\ Alive(u) = Alive(v)
  BY <1>1, ReturnFlagIs
<1> HIDE DEF u
<1>3. HasFlag(u, q)
  BY <1>0, <1>1, <1>2, <1>a DEF HasFlag, Worlds
<1>4. \A h \in Flags : u.flag[h].carrier = q <=> h = g
  <2>1. AtBase.carrier = -1
    BY DEF AtBase
  <2> QED
    BY <1>0, <1>1, <1>2, <2>1
<1>b. q \in Used(u) /\ x = DropFlagIfAny(u, q)
  BY <1>1, <1>2
<1> HIDE DEF x
<1>c. OneDropped(u, x, q, g)
  BY <1>2, <1>3, <1>4, <1>b, DropsIt
<1>5. /\ x \in Worlds /\ Rest(u, x) /\ x.rock = u.rock /\ x.db = u.db
      /\ Used(x) = Used(u) /\ Alive(x) = Alive(u)
      /\ x.player = [u.player EXCEPT ![q].carriedFlag = "none"]
      /\ \A h \in Flags : h # g => x.flag[h] = u.flag[h]
      /\ x.by = u.by
  BY <1>c DEF OneDropped
<1>6. y = ReturnFlag(x, g)
  BY DEF u, v, x
<1>7. /\ y \in Worlds /\ Rest(x, y) /\ y.player = x.player /\ y.rock = x.rock /\ y.db = x.db
      /\ y.flag[g] = AtBase
      /\ \A h \in Flags : h # g => y.flag[h] = x.flag[h] /\ y.by[h] = x.by[h]
      /\ Used(y) = Used(x) /\ Alive(y) = Alive(x)
  BY <1>5, <1>6, ReturnFlagIs
<1>8. /\ \A h \in Flags : y.flag[h] = IF h \in {f, g} THEN AtBase ELSE w.flag[h]
      /\ \A h \in Flags \ {f, g} : y.by[h] = w.by[h]
  BY <1>1, <1>2, <1>5, <1>7
<1>9. ASSUME NEW r \in Used(w)
      PROVE  /\ y.player[r].who = w.player[r].who
             /\ y.player[r].infected = w.player[r].infected
             /\ y.player[r].carriedFlag = IF r \in {p, q} THEN "none"
                                          ELSE w.player[r].carriedFlag
  <2> DEFINE P == u.player
             R == y.player
  <2>1. R = [P EXCEPT ![q].carriedFlag = "none"] /\ P = [w.player EXCEPT ![p].carriedFlag = "none"]
    BY <1>1, <1>2, <1>5, <1>7
  <2>2. P \in [Pid -> Player \cup {None}] /\ w.player \in [Pid -> Player \cup {None}]
    BY <1>2 DEF Worlds
  <2> HIDE DEF P, R
  <2>3. /\ P[r].who = w.player[r].who /\ P[r].infected = w.player[r].infected
        /\ P[r].carriedFlag = IF r = p THEN "none" ELSE w.player[r].carriedFlag
    <3>1. CASE r = p
      BY <1>0, <2>1, <2>2, <3>1 DEF Player
    <3>2. CASE r # p
      BY <1>0, <2>1, <2>2, <3>2
    <3> QED
      BY <3>1, <3>2
  <2>4. /\ R[r].who = P[r].who /\ R[r].infected = P[r].infected
        /\ R[r].carriedFlag = IF r = q THEN "none" ELSE P[r].carriedFlag
    <3>1. P[q] \in Player
      <4>1. P[q] = IF q = p THEN [w.player[q] EXCEPT !.carriedFlag = "none"] ELSE w.player[q]
        BY <1>0, <2>1, <2>2
      <4> QED
        BY <1>0, <1>a, <4>1
    <3>2. CASE r = q
      <4>1. R[q] = [P[q] EXCEPT !.carriedFlag = "none"]
        BY <1>0, <2>1, <2>2
      <4> QED
        BY <3>1, <3>2, <4>1 DEF Player
    <3>3. CASE r # q
      <4>1. R[r] = P[r]
        BY <1>0, <2>1, <2>2, <3>3
      <4> QED
        BY <3>3, <4>1
    <3> QED
      BY <3>2, <3>3
  <2> QED
    BY <2>3, <2>4 DEF P, R
<1> QED
  BY <1>1, <1>2, <1>5, <1>7, <1>8, <1>9 DEF Home, Rest

(* try_capture and player_captures_flag: a reverse capture is never of a flag that *)
(* somebody carries.                                                              *)
LEMMA TargetsOf ==
  ASSUME rules \in Settings, NEW w, NEW p \in Pid, NEW f \in Flags,
         NEW kind \in TargetKinds(p, f), NEW g \in Targets(w, p, f, kind[1], kind[2])
  PROVE  g \in Flags /\ g # f /\ (kind[1] # kind[2] => w.flag[g].status # "carried")
<1>1. Team(p) \in {0, 1} /\ f[1] \in {0, 1, Wild}
  BY Ruled, Sides
<1>2. g \in Flags /\ g # f
  BY DEF Targets, TeamFlags
<1>3. w.flag[g].status = "carried" => f[1] # Team(p) /\ (f[1] = Wild => kind[1] # 1 - Team(p))
  BY DEF Targets
<1>4. CASE f[1] = Team(p)
  BY <1>2, <1>3, <1>4
<1>5. CASE f[1] = Wild
  <2>1. kind \in {<<Team(p), Team(p)>>, <<1 - Team(p), Wild>>, <<Wild, Wild>>}
    BY <1>1, <1>5 DEF TargetKinds
  <2> QED
    BY <1>2, <1>3, <1>5, <2>1
<1>6. CASE f[1] = 1 - Team(p)
  <2>1. kind \in {<<Team(p), Team(p)>>, <<Wild, Wild>>}
    BY <1>1, <1>6 DEF TargetKinds, Wild
  <2> QED
    BY <1>2, <2>1
<1> QED
  BY <1>1, <1>4, <1>5, <1>6

(* try_capture and player_captures_flag bring two flags home.                     *)
BroughtHome(w, y, f, g, p) ==
  \E C \in SUBSET Pid :
    /\ Home(w, y, {f, g}, C)
    /\ \A h \in {f, g} : w.flag[h].carrier \in C \cup {-1}
    /\ \A q \in C : \E h \in {f, g} : w.flag[h].carrier = q
    /\ y.score = [w.score EXCEPT ![Team(p)] = w.score[Team(p)] + 1]

LEMMA AloneIsHome ==
  ASSUME rules \in Settings, NEW w \in Worlds, Sound(w), NEW f \in Flags, NEW g \in Flags, f # g,
         NEW p \in Used(w), w.flag[f].carrier = p, w.flag[g].carrier = -1,
         NEW a, NEW b, {a, b} = {f, g},
         NEW y, y = ReturnFlag(ReturnFlag(Scored(w, p), a), b)
  PROVE  BroughtHome(w, y, f, g, p)
<1> DEFINE C == {p}
<1>1. /\ Home(w, y, {f, g}, {p})
      /\ y.score = [w.score EXCEPT ![Team(p)] = w.score[Team(p)] + 1]
  BY BroughtAlone
<1>2. C = {p}
  OBVIOUS
<1>3. C \in SUBSET Pid
  BY PlayersOf
<1>4. /\ \A h \in {f, g} : w.flag[h].carrier \in C \cup {-1}
      /\ \A q \in C : \E h \in {f, g} : w.flag[h].carrier = q
  OBVIOUS
<1> HIDE DEF C
<1> QED
  BY <1>1, <1>2, <1>3, <1>4 DEF BroughtHome

LEMMA CarrierIsHome ==
  ASSUME rules \in Settings, NEW w \in Worlds, Sound(w), NEW f \in Flags, NEW g \in Flags, f # g,
         NEW p \in Used(w), w.flag[f].carrier = p,
         NEW q \in Used(w), w.flag[g].carrier = q,
         NEW y, y = ReturnFlag(DropFlagIfAny(ReturnFlag(Scored(w, p), f), q), g)
  PROVE  BroughtHome(w, y, f, g, p)
<1> DEFINE C == {p, q}
<1>1. /\ Home(w, y, {f, g}, {p, q})
      /\ y.score = [w.score EXCEPT ![Team(p)] = w.score[Team(p)] + 1]
  BY BroughtToCarrier
<1>2. C = {p, q}
  OBVIOUS
<1>3. C \in SUBSET Pid
  BY PlayersOf
<1>4. /\ \A h \in {f, g} : w.flag[h].carrier \in C \cup {-1}
      /\ \A r \in C : \E h \in {f, g} : w.flag[h].carrier = r
  OBVIOUS
<1> HIDE DEF C
<1> QED
  BY <1>1, <1>2, <1>3, <1>4 DEF BroughtHome

LEMMA CaptureIs ==
  ASSUME rules \in Settings, NEW w \in Worlds, Sound(w), NEW f \in Flags, NEW g \in Flags, f # g,
         NEW p \in Used(w), w.flag[f].carrier = p,
         NEW reverse \in BOOLEAN, reverse => w.flag[g].status # "carried",
         NEW z \in CaptureAt(w, p, f, g, reverse)
  PROVE  \E y : BroughtHome(w, y, f, g, p) /\ Holds(w, y) /\ z \in AfterScore(y, Team(p))
<1> DEFINE v == Scored(w, p)
           a == IF reverse THEN g ELSE f
           b == IF reverse THEN f ELSE g
           u == ReturnFlag(v, a)
           x == IF u.flag[g].status = "carried" THEN DropFlagIfAny(u, u.flag[g].carrier) ELSE u
           y == ReturnFlag(x, b)
<1>1. z \in AfterScore(y, Team(p))
  BY DEF CaptureAt, Scored
<1>2. /\ w.flag[g].status = "carried" <=> w.flag[g].carrier # -1
      /\ w.flag[g].carrier # -1 => w.flag[g].carrier \in Used(w)
  BY CarriersOf
<1>3. /\ v \in Worlds /\ v.score = [w.score EXCEPT ![Team(p)] = w.score[Team(p)] + 1]
      /\ v.clock = w.clock /\ v.period = w.period /\ v.over = w.over
      /\ v.maprot = w.maprot /\ v.currmap = w.currmap /\ v.failed = w.failed
      /\ v.rock = w.rock /\ v.db = w.db /\ v.flag = w.flag /\ v.by = w.by
      /\ Used(v) = Used(w) /\ Alive(v) = Alive(w)
      /\ v.player = [w.player EXCEPT ![p].carriedFlag = "none"]
  BY ScoredIs
<1>4. a \in Flags /\ {a, b} = {f, g}
  OBVIOUS
<1>5. u.flag[a] = AtBase /\ \A h \in Flags : h # a => u.flag[h] = v.flag[h]
  <2> HIDE DEF v, a
  <2>1. v \in Worlds /\ a \in Flags
    BY <1>3, <1>4
  <2> QED
    BY <2>1, ReturnFlagIs
<1>h. v \in Worlds /\ u \in Worlds /\ Holds(w, u)
  <2> HIDE DEF v, a, u
  <2>1. v \in Worlds /\ Holds(w, v)
    BY ScoredHolds DEF v
  <2>2. u \in Worlds /\ Holds(v, u)
    BY <1>4, <2>1, ReturnHolds DEF u
  <2> QED
    BY <2>1, <2>2, HoldsTwice
<1>6. reverse => x = u /\ w.flag[g].carrier = -1
  BY <1>2, <1>5 DEF AtBase
<1>7. ~reverse => u.flag[g] = w.flag[g]
  BY <1>3, <1>5
<1>8. CASE w.flag[g].carrier = -1
  <2>1. x = u
    BY <1>2, <1>6, <1>7, <1>8
  <2>2. BroughtHome(w, y, f, g, p)
    <3>1. y = ReturnFlag(ReturnFlag(Scored(w, p), a), b)
      BY <2>1
    <3> HIDE DEF a, b, y
    <3> QED
      BY <1>4, <1>8, <3>1, AloneIsHome
  <2>3. Holds(w, y)
    <3>1. y = ReturnFlag(u, b) /\ b \in Flags
      BY <2>1
    <3> HIDE DEF y, u, b
    <3>2. Holds(u, y)
      BY <1>h, <3>1, ReturnHolds
    <3> QED
      BY <1>h, <3>2, HoldsTwice
  <2> QED
    BY <1>1, <2>2, <2>3
<1>9. CASE w.flag[g].carrier # -1
  <2> DEFINE q == w.flag[g].carrier
  <2>1. ~reverse /\ x = DropFlagIfAny(u, q) /\ q \in Used(w)
    BY <1>2, <1>6, <1>7, <1>9
  <2>2. BroughtHome(w, y, f, g, p)
    <3>1. y = ReturnFlag(DropFlagIfAny(ReturnFlag(Scored(w, p), f), q), g)
      BY <2>1
    <3>2. q = w.flag[g].carrier
      OBVIOUS
    <3> HIDE DEF y, q
    <3> QED
      BY <2>1, <3>1, <3>2, CarrierIsHome
  <2>3. Holds(w, y)
    <3>1. x = DropFlagIfAny(u, q) /\ y = ReturnFlag(x, b) /\ b \in Flags /\ q \in Used(u)
      BY <2>1, <1>h DEF Holds, Seated
    <3> HIDE DEF y, x, u, b, q
    <3>2. x \in Worlds /\ Holds(u, x)
      BY <1>h, <3>1, DropHolds
    <3>3. Holds(x, y)
      BY <3>1, <3>2, ReturnHolds
    <3> QED
      BY <1>h, <3>2, <3>3, HoldsTwice
  <2> QED
    BY <1>1, <2>2, <2>3
<1> QED
  BY <1>8, <1>9

(* One point more for a team, after which nobody looks for ends of the game but   *)
(* those that it makes.                                                           *)
Scores(w, y, t) ==
  /\ t \in {0, 1} /\ w \in Worlds /\ y.score = [w.score EXCEPT ![t] = w.score[t] + 1]
  /\ y.clock = w.clock /\ y.period = w.period /\ y.over = w.over /\ Used(y) = Used(w)

LEMMA ScorePunctual ==
  ASSUME rules \in Settings, NEW w, NEW y, NEW t, Scores(w, y, t), Punctual(w), ~ScoreEnds(y, t)
  PROVE  Punctual(y)
<1>0. w \in Worlds /\ t \in {0, 1} /\ 1 - t \in {0, 1} /\ t # 1 - t
  BY DEF Scores
<1>1. w.score \in [{0, 1} -> Nat] /\ w.clock \in Nat
  BY <1>0, NumbersOf DEF Worlds
<1>2. y.score[t] = w.score[t] + 1 /\ y.score[1 - t] = w.score[1 - t]
  BY <1>0, <1>1 DEF Scores
<1>3. w.score[t] \in Nat /\ w.score[1 - t] \in Nat
  BY <1>0, <1>1
<1>4. /\ rules.capture_limit \in Nat /\ rules.win_score_difference \in Nat
      /\ rules.time_limit \in Nat
  BY Numbers
<1>5. ASSUME Short(w) PROVE Short(y)
  <2>1. ~ (/\ rules.capture_limit > 0 /\ y.score[t] >= rules.capture_limit
           /\ y.score[t] - y.score[1 - t] >= rules.win_score_difference)
    BY DEF ScoreEnds
  <2>2. ~ (/\ rules.capture_limit > 0 /\ w.score[1 - t] >= rules.capture_limit
           /\ w.score[1 - t] - w.score[t] >= rules.win_score_difference)
    <3>1. 1 - (1 - t) = t
      BY <1>0
    <3> QED
      BY <1>0, <1>5, <3>1 DEF Short
  <2>3. ~ (/\ rules.capture_limit > 0 /\ y.score[1 - t] >= rules.capture_limit
           /\ y.score[1 - t] - y.score[t] >= rules.win_score_difference)
    BY <1>2, <1>3, <1>4, <2>2
  <2> SUFFICES ASSUME NEW s \in {0, 1}
      PROVE  ~ (/\ rules.capture_limit > 0 /\ y.score[s] >= rules.capture_limit
                /\ y.score[s] - y.score[1 - s] >= rules.win_score_difference)
    BY DEF Short
  <2>4. s = t \/ (s = 1 - t /\ 1 - s = t)
    BY <1>0
  <2> QED
    BY <2>1, <2>3, <2>4
<1>6. ASSUME Timely(w) PROVE Timely(y)
  <2>1. y.clock = w.clock /\ y.period = w.period /\ (Several(y) => Several(w))
    BY UsedSeveral DEF Scores
  <2>2. rules.sudden_death => ~(y.clock > rules.time_limit)
    BY <1>1, <1>4, <2>1 DEF ScoreEnds, TimeLeft
  <2> QED
    BY <1>6, <2>1, <2>2 DEF Timely
<1> QED
  BY <1>5, <1>6 DEF Punctual, Scores

LEMMA AfterScoreEnds ==
  ASSUME rules \in Settings, NEW w, NEW y, Leads(w, y), NEW t, Scores(w, y, t),
         NEW z \in AfterScore(y, t)
  PROVE  Ends(w, z)
<1>1. (z = y /\ ~ScoreEnds(y, t)) \/ z \in ServerNextMap(y)
  BY DEF AfterScore
<1>2. Sane(y)
  BY SoundIsSane DEF Leads, Good
<1> QED
  BY <1>1, <1>2, NextMapRenews, RenewedEnds, ScorePunctual DEF Ends

LEMMA HomeLeads ==
  ASSUME rules \in Settings, NEW w, Good(w), NEW f \in Flags, NEW g \in Flags, f # g,
         NEW p \in Alive(w), w.flag[f].carrier = p,
         NEW y, BroughtHome(w, y, f, g, p)
  PROVE  Leads(w, y) /\ Scores(w, y, Team(p))
<1> DEFINE F == {f, g}
<1>0. w \in Worlds /\ Sound(w) /\ ~w.over /\ p \in Used(w) /\ p \in Pid
  BY PlayersOf DEF Good, Sound, Calm, Alive
<1>1. PICK C \in SUBSET Pid :
         /\ Home(w, y, F, C)
         /\ \A h \in F : w.flag[h].carrier \in C \cup {-1}
         /\ \A q \in C : \E h \in F : w.flag[h].carrier = q
  BY DEF BroughtHome
<1>2. F \in SUBSET Flags /\ f \in F /\ g \in F
  OBVIOUS
<1>3. y.score = [w.score EXCEPT ![Team(p)] = w.score[Team(p)] + 1]
  BY DEF BroughtHome
<1>f. F = {f, g}
  OBVIOUS
<1> HIDE DEF F
<1>4. HomeKept(w, y, F)
  BY <1>0, <1>1, <1>2, HomeKeeps
<1>9. y.over = w.over
  BY <1>1 DEF Home
<1>10. HolderIn(w, f) \in Person
  <2>1. p # -1
    BY <1>0, Sides
  <2>2. w.flag[f].status = "carried" /\ w.player[p].who \in Person
    BY <1>0, <2>1, CarriersOf
  <2> QED
    BY <2>2 DEF HolderIn
<1>11. Brought(w, y, f, g, Team(p))
  BY <1>2, <1>3, <1>4, <1>10, <1>f DEF Brought, HomeKept
<1>12. Team(p) \in {0, 1}
  BY <1>0, Sides
<1>13. Scores(w, y, Team(p))
  BY <1>0, <1>1, <1>3, <1>12 DEF Scores, Home
<1> QED
  BY <1>0, <1>4, <1>9, <1>11, <1>12, <1>13 DEF HomeKept, Leads, Good, Calm, Plays

LEMMA CaptureEnds ==
  ASSUME rules \in Settings, NEW w, Good(w), NEW p \in Alive(w), NEW f \in Flags,
         w.flag[f].carrier = p,
         NEW kind \in TargetKinds(p, f), NEW g \in Targets(w, p, f, kind[1], kind[2]),
         NEW z \in CaptureAt(w, p, f, g, kind[1] # kind[2])
  PROVE  Ends(w, z)
<1>0. w \in Worlds /\ Sound(w) /\ p \in Used(w) /\ p \in Pid
  BY PlayersOf DEF Good, Sound, Alive
<1>1. g \in Flags /\ g # f /\ (kind[1] # kind[2] => w.flag[g].status # "carried")
  BY <1>0, TargetsOf
<1> DEFINE reverse == kind[1] # kind[2]
<1>2. reverse \in BOOLEAN /\ z \in CaptureAt(w, p, f, g, reverse)
      /\ (reverse => w.flag[g].status # "carried")
  BY <1>1
<1> HIDE DEF reverse
<1>3. PICK y : BroughtHome(w, y, f, g, p) /\ Holds(w, y) /\ z \in AfterScore(y, Team(p))
  BY <1>0, <1>1, <1>2, CaptureIs
<1>4. Leads(w, y) /\ Scores(w, y, Team(p))
  BY <1>1, <1>3, HomeLeads
<1> QED
  BY <1>3, <1>4, AfterScoreEnds

(* A point for carrying a wild flag.                                              *)
LEMMA OutscoredIs ==
  ASSUME NEW w \in Worlds, NEW t \in {0, 1}, NEW v, v = CarryingPoint(w, t)
  PROVE  Home(w, v, {}, {}) /\ v.score = [w.score EXCEPT ![t] = w.score[t] + 1]
<1> DEFINE S == [w.score EXCEPT ![t] = w.score[t] + 1]
<1>1. v = [w EXCEPT !.score = S]
  BY DEF CarryingPoint, Worlds
<1>2. S \in [{0, 1} -> Nat]
  BY DEF Worlds
<1>3. S = [w.score EXCEPT ![t] = w.score[t] + 1]
  OBVIOUS
<1> HIDE DEF S
<1>4. /\ v \in Worlds /\ v.score = S /\ v.player = w.player
      /\ v.clock = w.clock /\ v.period = w.period /\ v.over = w.over
      /\ v.maprot = w.maprot /\ v.currmap = w.currmap /\ v.failed = w.failed
      /\ v.rock = w.rock /\ v.db = w.db /\ v.flag = w.flag /\ v.by = w.by
  BY <1>1, <1>2 DEF Worlds
<1>5. Used(v) = Used(w)
  BY <1>4 DEF Used
<1>6. Alive(v) = Alive(w)
  BY <1>4, <1>5 DEF Alive
<1> QED
  BY <1>3, <1>4, <1>5, <1>6 DEF Home

LEMMA OutscoredLeads ==
  ASSUME rules \in Settings, NEW w, Good(w), NEW f \in Flags, w.flag[f].status = "carried",
         NEW v, v = CarryingPoint(w, Team(w.flag[f].carrier))
  PROVE  Leads(w, v) /\ Scores(w, v, Team(w.flag[f].carrier))
<1> DEFINE t == Team(w.flag[f].carrier)
           F == {}
           C == {}
<1>0. w \in Worlds /\ Sound(w)
  BY DEF Good, Sound
<1>1. /\ w.flag[f].carrier \in Alive(w) /\ w.flag[f].carrier \in Pid
      /\ w.player[w.flag[f].carrier].who \in Person
  BY <1>0, CarriersOf
<1>2. ~w.over
  BY <1>1 DEF Good, Calm
<1>3. t \in {0, 1}
  BY <1>1, Sides
<1>4. Home(w, v, {}, {}) /\ v.score = [w.score EXCEPT ![t] = w.score[t] + 1]
  <2>1. v = CarryingPoint(w, t)
    OBVIOUS
  <2> HIDE DEF t
  <2> QED
    BY <1>0, <1>3, <2>1, OutscoredIs
<1>5. /\ F \in SUBSET Flags /\ C \in SUBSET Pid /\ Home(w, v, F, C)
      /\ \A g \in F : w.flag[g].carrier \in C \cup {-1}
      /\ \A q \in C : \E g \in F : w.flag[g].carrier = q
  BY <1>4
<1>f. F = {}
  OBVIOUS
<1> HIDE DEF F, C, t
<1>6. HomeKept(w, v, F)
  BY <1>0, <1>5, HomeKeeps
<1>10. v.over = w.over
  BY <1>4 DEF Home
<1>11. HolderIn(w, f) \in Person
  BY <1>1 DEF HolderIn
<1>12. Pointed(w, v, f, t)
  BY <1>4, <1>6, <1>11, <1>f DEF Pointed, HomeKept
<1>13. Scores(w, v, t)
  BY <1>0, <1>3, <1>4 DEF Scores, Home
<1>14. Leads(w, v)
  BY <1>2, <1>3, <1>6, <1>10, <1>12 DEF HomeKept, Leads, Good, Calm, Plays
<1> QED
  BY <1>13, <1>14 DEF t

LEMMA CarryingPointEnds ==
  ASSUME rules \in Settings, NEW w, Good(w), NEW f \in Flags, w.flag[f].status = "carried",
         NEW t, t = Team(w.flag[f].carrier), NEW z \in AfterScore(CarryingPoint(w, t), t)
  PROVE  Ends(w, z)
<1> DEFINE v == CarryingPoint(w, t)
<1>1. Leads(w, v) /\ Scores(w, v, t)
  BY OutscoredLeads
<1> HIDE DEF v
<1> QED
  BY <1>1, AfterScoreEnds DEF v

(* What the end of a frame makes of the world.                                    *)
LEMMA FrameEnds ==
  ASSUME rules \in Settings, NEW u, NEW w, Ends(u, w),
         NEW x, (x = w /\ w.over = TRUE) \/ x \in TimeCheck(w), NEW y \in AnnounceVotes(x)
  PROVE  Ends(u, NextFrame(y))
<1>0. Sane(w) /\ Leads(u, w) /\ (Punctual(u) => Punctual(w))
  BY EndsIsGood DEF Ends
<1>1. Leads(u, x) /\ (Punctual(u) => Clocked(x))
  <2>1. CASE x = w /\ w.over = TRUE
    BY <1>0, <2>1 DEF Clocked
  <2>2. CASE x \in TimeCheck(w)
    BY <1>0, <2>2, TimeCheckPasses, PassesLeads, TimeCheckClocks
  <2> QED
    BY <2>1, <2>2
<1>2. Leads(u, y) /\ (Punctual(u) => Clocked(y))
  <2>1. Sane(x)
    BY <1>1, SoundIsSane DEF Leads, Good
  <2>2. GoesOn(x, y)
    BY <2>1, AnnounceVotesGoesOn
  <2>3. Passes(x, y)
    BY <2>2 DEF GoesOn, Passes
  <2> QED
    BY <1>1, <2>2, <2>3, PassesLeads, GoesOnClocked
<1>3. Sane(y)
  BY <1>2, SoundIsSane DEF Leads, Good
<1>4. Leads(u, NextFrame(y))
  BY <1>2, <1>3, NextFramePasses, PassesLeads
<1> QED
  BY <1>2, <1>3, <1>4, NextFramePunctual DEF Ends

(* A player's votes.                                                              *)
Minded(w, p, exit, vote) ==
  [w EXCEPT !.player[p] = [w.player[p] EXCEPT !.want_map_exit = exit, !.mapVote = vote]]

LEMMA MindedGoesOn ==
  ASSUME rules \in Settings, NEW w, Sane(w), NEW p \in Used(w), NEW exit \in BOOLEAN,
         NEW vote \in {-1} \cup 1 .. Cardinality(rules.maps),
         NEW v, v = Minded(w, p, exit, vote)
  PROVE  GoesOn(w, v)
<1> DEFINE P == [w.player EXCEPT ![p] = [w.player[p] EXCEPT !.want_map_exit = exit,
                                                            !.mapVote = vote]]
<1>0. w \in Worlds
  BY DEF Sane
<1>1. p \in Pid /\ w.player[p] \in Player /\ w.player[p] # None
  BY <1>0, PlayersOf
<1>v. v = [w EXCEPT !.player = P]
  BY <1>0, <1>1 DEF Minded, Worlds
<1>2. /\ P \in [Pid -> Player \cup {None}] /\ P[p] \in Player
      /\ P[p].who = w.player[p].who /\ P[p].dead = w.player[p].dead
      /\ P[p].carriedFlag = w.player[p].carriedFlag /\ P[p].infected = w.player[p].infected
      /\ \A q \in Pid : q # p => P[q] = w.player[q]
  BY <1>0, <1>1 DEF Worlds, Player
<1> HIDE DEF P
<1>3. /\ v \in Worlds /\ v.player = P /\ v.failed = w.failed /\ v.maprot = w.maprot
      /\ v.currmap = w.currmap
      /\ v.flag = w.flag /\ v.by = w.by /\ v.score = w.score /\ v.over = w.over
      /\ v.rock = w.rock /\ v.db = w.db /\ v.clock = w.clock /\ v.period = w.period
  BY <1>0, <1>2, <1>v DEF Worlds
<1>4. \A q \in Pid : P[q] = None <=> w.player[q] = None
  BY <1>1, <1>2, Names
<1>5. Used(v) = Used(w)
  BY <1>3, <1>4 DEF Used
<1>6. \A q \in Used(w) : /\ v.player[q].who = w.player[q].who
                         /\ v.player[q].dead = w.player[q].dead
                         /\ v.player[q].carriedFlag = w.player[q].carriedFlag
                         /\ v.player[q].infected = w.player[q].infected
  BY <1>2, <1>3 DEF Used
<1>7. Same(w, v)
  BY <1>3, <1>5, <1>6 DEF Same, Sane
<1> QED
  BY <1>3, <1>7, SameGoesOn DEF SameTime

LEMMA VotesAsMinds ==
  ASSUME NEW w \in Worlds, NEW p \in Used(w), NEW vote
  PROVE  /\ [w EXCEPT !.player[p].want_map_exit = ~@]
              = Minded(w, p, ~w.player[p].want_map_exit, w.player[p].mapVote)
         /\ [w EXCEPT !.player[p].mapVote = vote]
              = Minded(w, p, w.player[p].want_map_exit, vote)
<1>1. w.player[p] \in Player
  BY PlayersOf
<1>2. /\ [w.player[p] EXCEPT !.want_map_exit = ~w.player[p].want_map_exit]
           = [w.player[p] EXCEPT !.want_map_exit = ~w.player[p].want_map_exit,
                                 !.mapVote = w.player[p].mapVote]
      /\ [w.player[p] EXCEPT !.mapVote = vote]
           = [w.player[p] EXCEPT !.want_map_exit = w.player[p].want_map_exit, !.mapVote = vote]
  BY <1>1 DEF Player
<1> QED
  BY <1>2 DEF Minded

--------------------------------------------------------------------------------
(* Single changes of the frame.                                                   *)

LEMMA UnmovedKeeps ==
  ASSUME NEW w, NEW v, Follows(w, v), Unmoved(w, v)
  PROVE  Keeps(w, v)
BY UnmovedTraced, SeatedReseated DEF Unmoved, Keeps

(* Somebody fires or a rocket ends.                                               *)
Fired(w, r, s) == [w EXCEPT !.rock[r] = s]

LEMMA FiredKeeps ==
  ASSUME NEW w, Sound(w), NEW r \in Rocket, NEW s \in Owner \cup {None},
         Owned(w) /\ maxplayers < MAX_PLAYERS => Rightful(w, s), s # None => ~w.over,
         NEW v, v = Fired(w, r, s)
  PROVE  Keeps(w, v)
<1> DEFINE R == [w.rock EXCEPT ![r] = s]
<1>0. w \in Worlds
  BY DEF Sound
<1>1. v = [w EXCEPT !.rock = R]
  BY <1>0 DEF Fired, Worlds
<1>2. /\ R \in [Rocket -> Owner \cup {None}] /\ R[r] = s
      /\ \A x \in Rocket : x # r => R[x] = w.rock[x]
  BY <1>0 DEF Worlds
<1> HIDE DEF R
<1>3. /\ v \in Worlds /\ v.rock = R /\ v.player = w.player /\ v.flag = w.flag /\ v.by = w.by /\ v.db = w.db
      /\ Rest(w, v)
  BY <1>0, <1>1, <1>2 DEF Worlds, Rest
<1>4. Alike(w, v)
  BY <1>3 DEF Alike, Used
<1>5. \A x : Rightful(w, x) => Rightful(v, x)
  BY <1>3 DEF Rightful, Used
<1>6. Owned(w) => Owned(v)
  <2> SUFFICES ASSUME Owned(w), maxplayers < MAX_PLAYERS
               PROVE  /\ \A x \in Rocket : Rightful(v, v.rock[x])
                      /\ Rightful(v, v.db)
                      /\ \A q \in Used(v) : Rightful(v, v.player[q].infected)
    BY DEF Owned
  <2>1. \A x \in Rocket : Rightful(w, v.rock[x])
    BY <1>2, <1>3 DEF Owned
  <2> QED
    BY <1>3, <1>4, <1>5, <2>1 DEF Owned, Alike
<1>7. Calm(w) => Calm(v)
  <2>1. Alive(v) = Alive(w)
    BY <1>4, AlikeKeeps
  <2> QED
    BY <1>2, <1>3, <2>1 DEF Calm, Rest
<1>8. Unmoved(w, v)
  BY <1>3, SamePlayersUnmoved
<1> QED
  BY <1>4, <1>6, <1>7, <1>8, AlikeFollows, UnmovedKeeps

(* An explosion is over.                                                          *)
Burnt(w) == [w EXCEPT !.db = None]

LEMMA BurntKeeps ==
  ASSUME NEW w, Sound(w), NEW v, v = Burnt(w)
  PROVE  Keeps(w, v)
<1>0. w \in Worlds
  BY DEF Sound
<1>1. /\ v \in Worlds /\ v.rock = w.rock /\ v.player = w.player /\ v.flag = w.flag /\ v.by = w.by /\ v.db = None
      /\ Rest(w, v)
  BY <1>0 DEF Burnt, Worlds, Rest
<1>2. Alike(w, v)
  BY <1>1 DEF Alike, Used
<1>3. \A x : Rightful(w, x) => Rightful(v, x)
  BY <1>1 DEF Rightful, Used
<1>4. Owned(w) => Owned(v)
  BY <1>1, <1>2, <1>3 DEF Owned, Alike, Rightful
<1>5. Calm(w) => Calm(v)
  BY <1>1, <1>2, AlikeKeeps DEF Calm, Rest
<1>6. Unmoved(w, v)
  BY <1>1, SamePlayersUnmoved
<1> QED
  BY <1>2, <1>4, <1>5, <1>6, AlikeFollows, UnmovedKeeps

(* A deathbringer's effect begins or ends.                                        *)
Infected(w, p, s) == [w EXCEPT !.player[p].infected = s]

LEMMA InfectedKeeps ==
  ASSUME rules \in Settings, NEW w, Sound(w), NEW p \in Used(w), NEW s \in Owner \cup {None},
         Owned(w) /\ maxplayers < MAX_PLAYERS => Rightful(w, s),
         NEW v, v = Infected(w, p, s)
  PROVE  Keeps(w, v)
<1> DEFINE P == [w.player EXCEPT ![p].infected = s]
<1>0. w \in Worlds
  BY DEF Sound
<1>1. p \in Pid /\ w.player[p] \in Player /\ w.player[p] # None
  BY <1>0, PlayersOf
<1>2. v = [w EXCEPT !.player = P]
  BY <1>0, <1>1 DEF Infected, Worlds
<1>3. /\ P \in [Pid -> Player \cup {None}] /\ P[p] \in Player /\ P[p].infected = s
      /\ P[p].who = w.player[p].who /\ P[p].dead = w.player[p].dead
      /\ P[p].carriedFlag = w.player[p].carriedFlag /\ Alter(P[p], w.player[p])
      /\ \A q \in Pid : q # p => P[q] = w.player[q]
  BY <1>0, <1>1 DEF Worlds, Player, Alter
<1> HIDE DEF P
<1>4. /\ v \in Worlds /\ v.player = P /\ v.rock = w.rock /\ v.flag = w.flag /\ v.by = w.by /\ v.db = w.db
      /\ Rest(w, v)
  BY <1>0, <1>2, <1>3 DEF Worlds, Rest
<1>5. \A q \in Pid : P[q] = None <=> w.player[q] = None
  BY <1>1, <1>3, Names
<1>6. Used(v) = Used(w)
  BY <1>4, <1>5 DEF Used
<1>7. \A q \in Used(w) : /\ v.player[q].who = w.player[q].who
                         /\ v.player[q].dead = w.player[q].dead
                         /\ v.player[q].carriedFlag = w.player[q].carriedFlag
                         /\ v.player[q].infected = IF q = p THEN s ELSE w.player[q].infected
  BY <1>3, <1>4 DEF Used
<1>8. Alike(w, v)
  BY <1>4, <1>6, <1>7 DEF Alike
<1>9. \A x : Rightful(w, x) => Rightful(v, x)
  BY <1>6, <1>7 DEF Rightful
<1>10. Owned(w) => Owned(v)
  <2> SUFFICES ASSUME Owned(w), maxplayers < MAX_PLAYERS
               PROVE  /\ \A x \in Rocket : Rightful(v, v.rock[x])
                      /\ Rightful(v, v.db)
                      /\ \A q \in Used(v) : Rightful(v, v.player[q].infected)
    BY DEF Owned
  <2>1. \A q \in Used(w) : Rightful(w, v.player[q].infected)
    BY <1>7 DEF Owned
  <2> QED
    BY <1>4, <1>6, <1>9, <2>1 DEF Owned
<1>11. Calm(w) => Calm(v)
  BY <1>4, <1>8, AlikeKeeps DEF Calm, Rest
<1>12. Unmoved(w, v)
  <2>1. \A q \in Pid : w.player[q] # None => Alter(P[q], w.player[q])
    BY <1>3 DEF Alter
  <2> QED
    BY <1>4, <1>5, <2>1, UnmovedIf
<1> QED
  BY <1>8, <1>10, <1>11, <1>12, AlikeFollows, UnmovedKeeps

(* Some come back to life.                                                        *)
Risen(w, P) ==
  [p \in Pid |-> IF p \in P THEN [w.player[p] EXCEPT !.dead = FALSE, !.infected = None]
                 ELSE w.player[p]]
Reborn(w, P) == [w EXCEPT !.player = Risen(w, P)]

LEMMA RebornKeeps ==
  ASSUME rules \in Settings, NEW w, Sound(w), ~w.over, NEW P \in SUBSET (Used(w) \ Alive(w)),
         NEW v, v = Reborn(w, P)
  PROVE  Keeps(w, v)
<1> DEFINE R == Risen(w, P)
<1>0. w \in Worlds
  BY DEF Sound
<1>1. \A p \in Used(w) : p \in Pid /\ w.player[p] \in Player /\ w.player[p] # None
  BY <1>0, PlayersOf
<1>2. ASSUME NEW p \in Pid
      PROVE  /\ R[p] \in Player \cup {None} /\ (R[p] = None <=> w.player[p] = None)
             /\ w.player[p] # None => /\ R[p].who = w.player[p].who
                                      /\ R[p].carriedFlag = w.player[p].carriedFlag
                                      /\ R[p].dead => w.player[p].dead
                                      /\ R[p].infected \in {None, w.player[p].infected}
                                      /\ Alter(R[p], w.player[p])
  <2>1. CASE p \in P
    <3>1. w.player[p] \in Player /\ w.player[p] # None
      BY <1>1, <2>1
    <3>2. R[p] = [w.player[p] EXCEPT !.dead = FALSE, !.infected = None]
      BY <2>1 DEF Risen
    <3> HIDE DEF R
    <3>3. /\ R[p] \in Player /\ R[p].who = w.player[p].who
          /\ R[p].carriedFlag = w.player[p].carriedFlag /\ R[p].dead = FALSE
          /\ R[p].infected = None /\ Alter(R[p], w.player[p])
      BY <3>1, <3>2 DEF Player, Alter
    <3> QED
      BY <3>1, <3>3, Names
  <2>2. CASE p \notin P
    <3>1. R[p] = w.player[p]
      BY <2>2 DEF Risen
    <3>2. w.player[p] \in Player \cup {None}
      BY <1>0 DEF Worlds
    <3> QED
      BY <3>1, <3>2 DEF Alter
  <2> QED
    BY <2>1, <2>2
<1>3. R \in [Pid -> Player \cup {None}]
  <2>1. R = [p \in Pid |-> R[p]]
    BY DEF Risen
  <2> HIDE DEF R
  <2> QED
    BY <1>2, <2>1
<1>4. v = [w EXCEPT !.player = R]
  BY DEF Reborn
<1> HIDE DEF R
<1>5. /\ v \in Worlds /\ v.player = R /\ v.rock = w.rock /\ v.flag = w.flag /\ v.by = w.by /\ v.db = w.db
      /\ Rest(w, v)
  BY <1>0, <1>3, <1>4 DEF Worlds, Rest
<1>6. Used(v) = Used(w)
  BY <1>2, <1>5 DEF Used
<1>7. \A q \in Used(w) : /\ v.player[q].who = w.player[q].who
                         /\ v.player[q].carriedFlag = w.player[q].carriedFlag
                         /\ v.player[q].dead => w.player[q].dead
                         /\ v.player[q].infected \in {None, w.player[q].infected}
  BY <1>1, <1>2, <1>5
<1>8. Sound(v) /\ Lower(w, v)
  <2>1. /\ v.failed = w.failed /\ v.score = w.score /\ Len(v.maprot) <= Cardinality(rules.maps)
    BY <1>5 DEF Rest, Sound
  <2>2. \A q \in Used(w) : /\ v.player[q].who = w.player[q].who
                           /\ v.player[q].carriedFlag = w.player[q].carriedFlag
                           /\ v.player[q].dead => w.player[q].dead \/ ~HasFlag(w, q)
    BY <1>7
  <2> QED
    BY <1>5, <1>6, <2>1, <2>2, PeopleKeep
<1>9. \A x : Rightful(w, x) => Rightful(v, x)
  BY <1>6, <1>7 DEF Rightful
<1>10. Owned(w) => Owned(v)
  <2> SUFFICES ASSUME Owned(w), maxplayers < MAX_PLAYERS
               PROVE  /\ \A x \in Rocket : Rightful(v, v.rock[x])
                      /\ Rightful(v, v.db)
                      /\ \A q \in Used(v) : Rightful(v, v.player[q].infected)
    BY DEF Owned
  <2>1. \A q \in Used(w) : Rightful(w, v.player[q].infected)
    BY <1>7 DEF Owned, Rightful
  <2> QED
    BY <1>5, <1>6, <1>9, <2>1 DEF Owned
<1>11. Calm(v)
  BY <1>5 DEF Calm, Rest
<1>12. Unmoved(w, v)
  BY <1>2, <1>5, UnmovedIf
<1> QED
  BY <1>5, <1>8, <1>10, <1>11, <1>12, UnmovedKeeps DEF Follows

--------------------------------------------------------------------------------
(* A player comes.                                                                *)
Added(w, p, who) == [w EXCEPT !.player[p] = NewPlayer(who)]

LEMMA NewPlayerIs ==
  ASSUME rules \in Settings, NEW who \in Person
  PROVE  /\ NewPlayer(who) \in Player /\ NewPlayer(who) # None
         /\ NewPlayer(who).who = who /\ NewPlayer(who).dead /\ NewPlayer(who).infected = None
         /\ NewPlayer(who).carriedFlag = "none"
<1>1. NewPlayer(who) \in Player
  BY DEF NewPlayer, Player
<1> QED
  BY <1>1, Names DEF NewPlayer

LEMMA AddedFollows ==
  ASSUME rules \in Settings, NEW w, Sound(w), NEW who \in Person,
         \A q \in Used(w) : w.player[q].who # who,
         NEW p \in Pid \ Used(w), NEW v, v = Added(w, p, who)
  PROVE  /\ Follows(w, v) /\ Used(v) = Used(w) \cup {p}
         /\ \A q \in Used(w) : v.player[q] = w.player[q]
         /\ Traced(w) => Traced(v)
<1> DEFINE x == NewPlayer(who)
           P == [w.player EXCEPT ![p] = x]
<1>0. w \in Worlds /\ Held(w) /\ Distinct(w)
  BY DEF Sound
<1>1. /\ x \in Player /\ x # None /\ x.who = who /\ x.dead /\ x.infected = None
      /\ x.carriedFlag = "none"
  BY NewPlayerIs
<1>2. v = [w EXCEPT !.player = P]
  BY <1>0 DEF Added, Worlds
<1> HIDE DEF x
<1>3. /\ P \in [Pid -> Player \cup {None}] /\ P[p] = x
      /\ \A q \in Pid : q # p => P[q] = w.player[q]
  BY <1>0, <1>1 DEF Worlds
<1> HIDE DEF P
<1>4. /\ v \in Worlds /\ v.player = P /\ v.rock = w.rock /\ v.flag = w.flag /\ v.by = w.by /\ v.db = w.db
      /\ Rest(w, v)
  BY <1>0, <1>2, <1>3 DEF Worlds, Rest
<1>5. Used(v) = Used(w) \cup {p}
  BY <1>1, <1>3, <1>4 DEF Used
<1>6. /\ \A q \in Used(w) : v.player[q] = w.player[q]
      /\ v.player[p] = x
  BY <1>3, <1>4 DEF Used
<1>7. Alive(v) = Alive(w)
  BY <1>1, <1>5, <1>6 DEF Alive
<1>8. Held(v) /\ \A f \in Flags : HolderIn(v, f) = HolderIn(w, f)
  <2>1. v.failed \in {"none", "oldVotes"}
    BY <1>0, <1>4 DEF Held, Rest
  <2>2. \A f \in Flags : v.flag[f].carrier = w.flag[f].carrier /\ v.flag[f].status = w.flag[f].status
    BY <1>4
  <2>3. \A q \in Alive(w) : HasFlag(w, q) =>
           q \in Alive(v) /\ v.player[q].carriedFlag = w.player[q].carriedFlag
                          /\ v.player[q].who = w.player[q].who
    BY <1>6, <1>7 DEF Alive
  <2>4. \A q \in Used(v) : HasFlag(v, q) => q \in Used(w) /\ HasFlag(w, q)
    BY <1>1, <1>5, <1>6 DEF HasFlag
  <2> QED
    BY <1>0, <2>1, <2>2, <2>3, <2>4, CarriersKeep
<1>9. Distinct(v)
  <2> SUFFICES ASSUME NEW a \in Used(v), NEW b \in Used(v), v.player[a].who = v.player[b].who
               PROVE  a = b
    BY DEF Distinct
  <2>1. CASE a \in Used(w) /\ b \in Used(w)
    BY <1>0, <1>6, <2>1 DEF Distinct
  <2>2. CASE a = p \/ b = p
    BY <1>1, <1>5, <1>6, <2>2
  <2> QED
    BY <1>5, <2>1, <2>2
<1>10. Sound(v) /\ Lower(w, v)
  BY <1>4, <1>8, <1>9 DEF Sound, Rest, Lower
<1>11. \A s : Rightful(w, s) => Rightful(v, s)
  BY <1>5, <1>6 DEF Rightful
<1>12. Owned(w) => Owned(v)
  <2> SUFFICES ASSUME Owned(w), maxplayers < MAX_PLAYERS
               PROVE  /\ \A r \in Rocket : Rightful(v, v.rock[r])
                      /\ Rightful(v, v.db)
                      /\ \A q \in Used(v) : Rightful(v, v.player[q].infected)
    BY DEF Owned
  <2>1. \A q \in Used(w) : Rightful(w, v.player[q].infected)
    BY <1>6 DEF Owned
  <2>2. Rightful(v, v.player[p].infected)
    BY <1>1, <1>6 DEF Rightful
  <2> QED
    BY <1>4, <1>5, <1>11, <2>1, <2>2 DEF Owned
<1>13. Calm(w) => Calm(v)
  BY <1>4, <1>7 DEF Calm, Rest
<1>14. Traced(w) => Traced(v)
  <2> DEFINE T == {}
  <2>1. /\ \A q \in T : Unnamed(w, q)
        /\ \A q \in Used(w) \ T : q \in Used(v) /\ v.player[q].who = w.player[q].who
    BY <1>5, <1>6
  <2> HIDE DEF T
  <2> QED
    BY <1>4, <2>1, PlacesTraced
<1> QED
  BY <1>4, <1>5, <1>6, <1>10, <1>12, <1>13, <1>14 DEF Follows

(* He makes the teams of two players even.                                        *)
LEMMA SecondIsEven ==
  ASSUME rules \in Settings, NEW w, NEW t \in {0, 1},
         Cardinality(Members(w, t)) <= Cardinality(Members(w, 1 - t)),
         NEW p \in Pid \ Used(w), Team(p) = t, NEW v, Used(v) = Used(w) \cup {p},
         Cardinality(Used(v)) = 2
  PROVE  ~Uneven(v)
<1>1. /\ 1 - t \in {0, 1} /\ 1 - t # t
      /\ \A q \in Pid : Team(q) \in {0, 1}
  BY Sides
<1>2. /\ Members(v, t) = Members(w, t) \cup {p} /\ p \notin Members(w, t)
      /\ Members(v, 1 - t) = Members(w, 1 - t)
      /\ Used(v) = Members(v, t) \cup Members(v, 1 - t)
      /\ Members(v, t) \cap Members(v, 1 - t) = {}
  <2>1. Used(v) \subseteq Pid
    BY DEF Used
  <2> QED
    BY <1>1, <2>1 DEF Members
<1>3. /\ IsFiniteSet(Members(w, t)) /\ IsFiniteSet(Members(v, t)) /\ IsFiniteSet(Members(v, 1 - t))
      /\ Cardinality(Members(w, t)) \in Nat /\ Cardinality(Members(v, t)) \in Nat
      /\ Cardinality(Members(v, 1 - t)) \in Nat
  BY <1>1, Teams
<1>4. Cardinality(Members(v, t)) = Cardinality(Members(w, t)) + 1
  BY <1>2, <1>3, FS_AddElement
<1>5. Cardinality(Used(v)) = Cardinality(Members(v, t)) + Cardinality(Members(v, 1 - t))
  <2>1. Cardinality({}) = 0
    BY FS_EmptySet
  <2>2. Cardinality(Members(v, t) \cup Members(v, 1 - t))
          = Cardinality(Members(v, t)) + Cardinality(Members(v, 1 - t))
              - Cardinality(Members(v, t) \cap Members(v, 1 - t))
    BY <1>3, FS_Union
  <2>3. Cardinality(Members(v, t) \cap Members(v, 1 - t)) = 0
    BY <1>2, <2>1, Zenon
  <2>4. Cardinality(Used(v)) = Cardinality(Members(v, t) \cup Members(v, 1 - t))
    BY <1>2, Zenon
  <2> QED
    BY <1>3, <2>2, <2>3, <2>4
<1>6. Cardinality(Members(v, t)) = 1 /\ Cardinality(Members(v, 1 - t)) = 1
  BY <1>2, <1>3, <1>4, <1>5
<1>7. Cardinality(Members(v, 0)) = 1 /\ Cardinality(Members(v, 1)) = 1
  <2>1. CASE t = 0
    BY <1>6, <2>1
  <2>2. CASE t = 1
    BY <1>6, <2>2
  <2> QED
    BY <2>1, <2>2
<1> QED
  BY <1>7 DEF Uneven, Bigger

(* A world without flags away from their bases stays so.                          *)
LEMMA LevelEnds ==
  ASSUME NEW w, NEW v, Good(v), Level(v), Traced(v), Punctual(v), NEW z, Keeps(v, z)
  PROVE  Ends(w, z)
<1>1. Good(z)
  BY DEF Good, Keeps, Follows, Rest, Mapped
<1>2. Level(z)
  BY LevelStays DEF Keeps, Follows
<1> QED
  BY <1>1, <1>2, KeepsPunctual DEF Ends, Leads, Plays, Keeps

LEMMA AtStartIsFresh ==
  ASSUME rules \in Settings, NEW w, Fresh(w), Mapped(w), NEW v, v = AtStart(w)
  PROVE  Good(v) /\ Level(v) /\ Traced(v) /\ Punctual(v)
<1>1. w \in Worlds /\ Sane(w)
  BY SoundIsSane DEF Fresh, Sound
<1>2. 0 \in 0 .. MaxClock
  BY Ruled
<1>3. /\ v \in Worlds /\ v.player = w.player /\ v.flag = w.flag /\ v.rock = w.rock /\ v.db = w.db
      /\ v.by = w.by /\ v.score = w.score /\ v.over = w.over /\ v.maprot = w.maprot /\ v.currmap = w.currmap
      /\ v.failed = w.failed /\ v.clock = 0
  BY <1>1, <1>2 DEF AtStart, Worlds
<1>4. Same(w, v)
  BY <1>1, <1>3 DEF Same, Sane, Used
<1>5. Fresh(v)
  BY <1>4, SameIsFresh
<1>6. Mapped(v)
  BY <1>3 DEF Mapped
<1>7. Punctual(v)
  <2>1. v.score[0] = 0 /\ v.score[1] = 0
    BY <1>3 DEF Fresh, Nought
  <2>2. \A t \in {0, 1} : v.score[t] = 0
    BY <2>1
  <2>3. Short(v)
    BY <2>2, Numbers DEF Short
  <2> QED
    BY <1>3, <2>3, Numbers DEF Punctual, Timely
<1> QED
  BY <1>5, <1>6, <1>7, FreshIsLevel, FreshTraced DEF Fresh, Good

LEMMA JoinEnds ==
  ASSUME rules \in Settings, NEW w, Good(w), NEW who \in Person,
         \A q \in Used(w) : w.player[q].who # who,
         NEW t \in {0, 1}, Cardinality(Members(w, t)) <= Cardinality(Members(w, 1 - t)),
         FreePlaces(w, t) # {},
         NEW v \in Second(Added(w, Min(FreePlaces(w, t)), who)),
         NEW z, z = v \/ z \in TeamChange(v)
  PROVE  Ends(w, z)
<1> DEFINE p == Min(FreePlaces(w, t))
           a == Added(w, p, who)
<1>0. Sound(w) /\ p \in Pid \ Used(w) /\ Team(p) = t
  BY FreePlaceIsFree DEF Good
<1>v. \/ v = a /\ Cardinality(Used(a)) # 2
      \/ Cardinality(Used(a)) = 2 /\ (\E c \in CtfGameRestart(a) : v = AtStart(c))
  BY DEF Second, AtStart
<1> HIDE DEF p
<1>1. a = Added(w, p, who)
  OBVIOUS
<1> HIDE DEF a
<1>2. /\ Follows(w, a) /\ Used(a) = Used(w) \cup {p}
      /\ \A q \in Used(w) : a.player[q] = w.player[q]
      /\ Traced(w) => Traced(a)
  BY <1>0, <1>1, AddedFollows
<1>3. ASSUME v = a, Cardinality(Used(a)) # 2 PROVE Ends(w, z)
  <2>1. Sound(v)
    BY <1>2, <1>3 DEF Follows
  <2>2. Keeps(v, z)
    BY <2>1, NothingKeeps, TeamChangeKeeps
  <2>3. Follows(w, z) /\ (Traced(w) => Traced(z))
    BY <1>2, <1>3, <2>2, FollowsTwice DEF Keeps
  <2>4. Several(z) => Several(w)
    <3>1. Several(z) => Cardinality(Used(a)) >= 2
      BY <1>3, <2>2, ReseatedSeveral, SeveralAreTwo DEF Keeps, Follows
    <3>2. /\ IsFiniteSet(Used(w)) /\ Cardinality(Used(w)) \in Nat
      BY Teams
    <3>3. Cardinality(Used(a)) = Cardinality(Used(w)) + 1
      BY <1>0, <1>2, <3>2, FS_AddElement
    <3> QED
      BY <1>3, <3>1, <3>2, <3>3, SeveralAreTwo
  <2> QED
    BY <2>3, <2>4, FollowsEnds
<1>4. ASSUME Cardinality(Used(a)) = 2, NEW c \in CtfGameRestart(a), v = AtStart(c)
      PROVE  Ends(w, z)
  <2>1. ~Uneven(a)
    BY <1>0, <1>2, <1>4, SecondIsEven
  <2>2. Sane(a)
    BY <1>2, SoundIsSane DEF Follows
  <2>3. Fresh(c) /\ c.maprot = a.maprot /\ c.currmap = a.currmap /\ c.over = a.over
    BY <1>4, <2>1, <2>2, RestartIsFresh
  <2>4. Mapped(c)
    BY <1>2, <2>3 DEF Follows, Rest, Good, Mapped
  <2>5. Good(v) /\ Level(v) /\ Traced(v) /\ Punctual(v)
    BY <1>4, <2>3, <2>4, AtStartIsFresh
  <2>6. Keeps(v, z)
    BY <2>5, NothingKeeps, TeamChangeKeeps DEF Good
  <2> QED
    BY <2>5, <2>6, LevelEnds
<1> QED
  BY <1>v, <1>3, <1>4

--------------------------------------------------------------------------------
(* Steps.                                                                         *)

LEMMA SameRules ==
  ASSUME rules' = rules
  PROVE  /\ Flags' = Flags /\ Periods' = Periods /\ MaxClock' = MaxClock
         /\ Worlds' = Worlds
<1>1. Flags' = Flags /\ Periods' = Periods
  BY DEF Flags, Periods
<1>2. MaxClock' = MaxClock
  BY <1>1 DEF MaxClock, LastFrame
<1>3. Player' = Player
  BY DEF Player
<1>4. Worlds' = Worlds
  BY <1>1, <1>2, <1>3 DEF Worlds
<1> QED
  BY <1>1, <1>2, <1>4

LEMMA SameSound ==
  ASSUME rules' = rules, NEW w \in Worlds, W' = w, Sound(w)
  PROVE  Sound(W)'
<1>1. Worlds' = Worlds /\ Flags' = Flags
  BY SameRules
<1>2. Used(W)' = Used(w) /\ Alive(W)' = Alive(w)
  BY DEF Used, Alive
<1>3. Held(W)'
  BY <1>1, <1>2 DEF Held, HasFlag, Kind, Team, Sound
<1>4. Distinct(W)'
  BY <1>1, <1>2 DEF Distinct, Sound
<1> QED
  BY <1>1, <1>3, <1>4 DEF Sound

LEMMA SameGood ==
  ASSUME rules' = rules, NEW w \in Worlds, W' = w, Good(w)
  PROVE  Good(W)'
<1>1. Worlds' = Worlds /\ Flags' = Flags
  BY SameRules
<1>2. Used(W)' = Used(w) /\ Alive(W)' = Alive(w)
  BY DEF Used, Alive
<1>3. Sound(W)'
  BY SameSound DEF Good
<1>4. Owned(W)'
  BY <1>1, <1>2 DEF Good, Owned, Rightful
<1>5. Calm(W)'
  BY <1>1, <1>2 DEF Good, Calm, AtBase
<1> QED
  BY <1>3, <1>4, <1>5 DEF Good, Mapped

LEMMA BecomesOne ==
  ASSUME NEW S \in SUBSET Worlds, Becomes(S)
  PROVE  rules' = rules /\ \E w \in S : W' = w
<1>1. PICK w \in S :
         /\ player' = w.player /\ flag' = w.flag /\ rock' = w.rock /\ db' = w.db
         /\ score' = w.score /\ clock' = w.clock /\ current_extra_time_period' = w.period
         /\ gameover' = w.over /\ failed' = w.failed /\ carried_by' = w.by
         /\ maprot' = w.maprot /\ currmap' = w.currmap
         /\ announced' = w.announced /\ missed' = w.missed
  BY DEF Becomes
<1>2. W' = w
  BY <1>1 DEF W, Worlds
<1> QED
  BY <1>2 DEF Becomes

(* The world goes on as the lemmas above say of values.                           *)
Goes == rules' = rules /\ \E v : W' = v /\ Ends(W, v)

LEMMA WorldIs ==
  /\ W.player = player /\ W.flag = flag /\ W.rock = rock /\ W.db = db /\ W.score = score
  /\ W.clock = clock /\ W.period = current_extra_time_period /\ W.over = gameover
  /\ W.maprot = maprot /\ W.currmap = currmap /\ W.announced = announced /\ W.missed = missed
  /\ W.failed = failed /\ W.by = carried_by
BY DEF W

LEMMA IInvIsGood ==
  ASSUME IInv
  PROVE  rules \in Settings /\ Good(W)
BY WorldIs DEF IInv, Good, Mapped

LEMMA BecomesEnds ==
  ASSUME NEW S, Becomes(S), \A v \in S : Ends(W, v)
  PROVE  Goes
<1>1. S \in SUBSET Worlds
  BY EndsIsGood
<1>2. rules' = rules /\ \E v \in S : W' = v
  BY <1>1, BecomesOne
<1> QED
  BY <1>2 DEF Goes

LEMMA GoesOver ==
  ASSUME IInv, Goes
  PROVE  /\ rules' \in Settings /\ Sound(W)' /\ Owned(W)' /\ Calm(W)'
         /\ currmap' \in DOMAIN maprot'
<1>1. rules' = rules /\ rules \in Settings
  BY DEF Goes, IInv
<1>2. PICK v : W' = v /\ Ends(W, v)
  BY DEF Goes
<1>3. Good(v) /\ v \in Worlds
  BY <1>2, EndsIsGood
<1>4. Good(W)'
  BY <1>1, <1>2, <1>3, SameGood
<1> QED
  BY <1>1, <1>4 DEF Good, Mapped, W

(* Messages.                                                                      *)
LEMMA JoinGoes ==
  ASSUME IInv, NEW who \in Person, Join(who)
  PROVE  Goes
<1>0. rules \in Settings /\ Good(W)
  BY IInvIsGood
<1>1. \A q \in Used(W) : W.player[q].who # who
  BY WorldIs DEF Join
<1>2. PICK t \in {0, 1} :
         /\ Cardinality(Members(W, t)) <= Cardinality(Members(W, 1 - t))
         /\ FreePlaces(W, t) # {}
         /\ Becomes(UNION {{v} \cup TeamChange(v) :
                             v \in Second(Added(W, Min(FreePlaces(W, t)), who))})
  BY DEF Join, Added
<1> DEFINE S == UNION {{v} \cup TeamChange(v) : v \in Second(Added(W, Min(FreePlaces(W, t)), who))}
<1>3. ASSUME NEW z \in S PROVE Ends(W, z)
  <2>1. PICK v \in Second(Added(W, Min(FreePlaces(W, t)), who)) : z = v \/ z \in TeamChange(v)
    BY <1>3
  <2> QED
    BY <1>0, <1>1, <1>2, <2>1, JoinEnds
<1>4. Becomes(S)
  BY <1>2
<1> HIDE DEF S
<1> QED
  BY <1>3, <1>4, BecomesEnds

(* The player at a place goes, and it is forgotten what he has carried.           *)
LEMMA RemoveTraced ==
  ASSUME rules \in Settings, NEW w, Sound(w), NEW p \in Used(w), NEW v, v = RemovePlayer(w, p)
  PROVE  Traced(w) => Traced(v)
<1> DEFINE b == Bereft(w, p)
           d == DropFlagIfAny(b, p)
<1>0. w \in Worlds /\ p \in Pid
  BY PlayersOf DEF Sound
<1>1. /\ Alike(w, b) /\ (maxplayers < MAX_PLAYERS => NoneOf(b, p))
      /\ Owned(w) => Owned(b)
      /\ Calm(w) => Calm(b)
  BY <1>0, BereftKeeps
<1>2. Unmoved(w, b)
  BY <1>0, BereftUnmoved
<1>3. v = Emptied(d, p)
  BY RemovedIs
<1> HIDE DEF b
<1>4. Sound(b) /\ p \in Used(b)
  BY <1>1, AlikeFollows DEF Follows, Alike
<1>5. /\ Follows(b, d) /\ Settled(b, d) /\ Idle(d, p)
      /\ Keeps(b, d)
  BY <1>4, DropFollows, DropKeeps DEF Idle
<1> HIDE DEF d
<1>6. Sound(d) /\ p \in Used(d) /\ d \in Worlds
  BY <1>4, <1>5 DEF Follows, Settled
<1>7. \A f \in Flags : d.flag[f].carrier # p
  <2> SUFFICES ASSUME NEW f \in Flags, d.flag[f].carrier = p PROVE FALSE
    OBVIOUS
  <2>1. p # -1
    BY <1>0, Sides
  <2>2. HasFlag(d, p)
    BY <1>6, <2>1, CarriersOf
  <2> QED
    BY <1>5, <2>2 DEF Idle
<1>8. Traced(d) => Traced(v)
  BY <1>3, <1>6, <1>7, EmptiedTraced
<1> QED
  BY <1>2, <1>5, <1>8, UnmovedTraced DEF Keeps

LEMMA LeaveGoes ==
  ASSUME IInv, NEW p \in Pid, Leave(p)
  PROVE  Goes
<1> DEFINE who == player[p].who
           r == RemovePlayer(W, p)
           v == Forget(r, who)
           S == UNION {CheckMapExit(u) : u \in {v} \cup TeamChange(v)}
<1>0. rules \in Settings /\ Good(W) /\ Sound(W) /\ p \in Used(W)
  BY IInvIsGood, WorldIs DEF Leave, Used, Good
<1>1. Becomes(S)
  BY DEF Leave
<1>2. /\ Follows(W, r) /\ Used(r) = Used(W) \ {p}
      /\ \A q \in Used(r) : r.player[q].who = W.player[q].who
  BY <1>0, RemoveFollows
<1>3. Traced(W) => Traced(r)
  BY <1>0, RemoveTraced
<1>w. who = W.player[p].who
  BY WorldIs
<1> HIDE DEF r, who
<1>4. r \in Worlds /\ Sound(r) /\ v = Forget(r, who)
  BY <1>2 DEF Follows, Sound
<1>5. \A q \in Used(r) : r.player[q].who # who
  BY <1>0, <1>2, <1>w DEF Sound, Distinct
<1>6. Follows(r, v)
  BY <1>4, ForgetFollows
<1> HIDE DEF v
<1>7. Traced(r) => Traced(v)
  BY <1>4, <1>5, ForgetTraced
<1>v. Used(v) = Used(r)
  BY <1>4 DEF Forget, Used, Worlds
<1>8. ASSUME NEW z \in S PROVE Ends(W, z)
  <2>1. PICK u \in {v} \cup TeamChange(v) : z \in CheckMapExit(u)
    BY <1>8
  <2>2. Keeps(v, u)
    BY <1>0, <1>6, <2>1, NothingKeeps, TeamChangeKeeps DEF Follows
  <2>3. Follows(W, u) /\ (Traced(W) => Traced(u))
    BY <1>2, <1>3, <1>6, <1>7, <2>2, FollowsTwice DEF Keeps
  <2>s. Several(u) => Several(W)
    BY <1>2, <1>v, <2>2, ReseatedSeveral, UsedSeveral DEF Keeps, Follows
  <2>4. Ends(W, u)
    BY <1>0, <2>3, <2>s, FollowsEnds
  <2>5. GoesOn(u, z)
    <3>1. Sane(u)
      BY <2>3, SoundIsSane DEF Follows
    <3> QED
      BY <1>0, <2>1, <3>1, CheckMapExitGoesOn
  <2> QED
    BY <2>4, <2>5, GoesOnEnds
<1> HIDE DEF S
<1> QED
  BY <1>1, <1>8, BecomesEnds

LEMMA ChangeTeamsGoes ==
  ASSUME IInv, ChangeTeams
  PROVE  Goes
<1>0. rules \in Settings /\ Good(W) /\ Sound(W)
  BY IInvIsGood DEF Good
<1>1. \A v \in TeamChange(W) : Ends(W, v)
  BY <1>0, TeamChangeKeeps, KeepsEnds
<1> QED
  BY <1>1, BecomesEnds DEF ChangeTeams

(* A change of votes, after which they are counted.                               *)
LEMMA MindedEnds ==
  ASSUME rules \in Settings, NEW w, Good(w), NEW p \in Used(w), NEW exit \in BOOLEAN,
         NEW vote \in {-1} \cup 1 .. Cardinality(rules.maps),
         NEW z \in CheckMapExit(Minded(w, p, exit, vote))
  PROVE  Ends(w, z)
<1> DEFINE v == Minded(w, p, exit, vote)
<1>1. Sane(w)
  BY SoundIsSane DEF Good
<1>2. GoesOn(w, v)
  BY <1>1, MindedGoesOn
<1> HIDE DEF v
<1>3. Sane(v)
  BY <1>1, <1>2, GoesOnIsSane
<1>4. GoesOn(v, z)
  BY <1>3, CheckMapExitGoesOn DEF v
<1>5. GoesOn(w, z)
  BY <1>2, <1>4, GoesOnTwice
<1> QED
  BY <1>5, NothingEnds, GoesOnEnds

LEMMA MapExitGoes ==
  ASSUME IInv, NEW p \in Pid, MapExit(p)
  PROVE  Goes
<1> DEFINE exit == ~W.player[p].want_map_exit
           vote == W.player[p].mapVote
           S == CheckMapExit(Minded(W, p, exit, vote))
<1>0. /\ rules \in Settings /\ Good(W) /\ W \in Worlds /\ p \in Used(W)
      /\ W.player[p] \in Player
  BY IInvIsGood, WorldIs, PlayersOf DEF MapExit, Used, Good, Sound
<1>1. exit \in BOOLEAN /\ vote \in {-1} \cup 1 .. Cardinality(rules.maps)
  BY <1>0 DEF Player
<1>2. Becomes(CheckMapExit([W EXCEPT !.player[p].want_map_exit = ~@]))
  BY DEF MapExit
<1>3. [W EXCEPT !.player[p].want_map_exit = ~@] = Minded(W, p, exit, vote)
  BY <1>0, VotesAsMinds
<1>4. Becomes(S)
  BY <1>2, <1>3
<1> HIDE DEF exit, vote
<1>5. \A z \in S : Ends(W, z)
  BY <1>0, <1>1, MindedEnds
<1> HIDE DEF S
<1> QED
  BY <1>4, <1>5, BecomesEnds

LEMMA MapVoteGoes ==
  ASSUME IInv, NEW p \in Pid, MapVote(p)
  PROVE  Goes
<1> DEFINE exit == W.player[p].want_map_exit
<1>0. /\ rules \in Settings /\ Good(W) /\ W \in Worlds /\ p \in Used(W)
      /\ W.player[p] \in Player
  BY IInvIsGood, WorldIs, PlayersOf DEF MapVote, Used, Good, Sound
<1>1. PICK vote \in {-1} \cup DOMAIN maprot :
         Becomes(CheckMapExit([W EXCEPT !.player[p].mapVote = vote]))
  BY DEF MapVote
<1> DEFINE S == CheckMapExit(Minded(W, p, exit, vote))
<1>2. exit \in BOOLEAN
  BY <1>0 DEF Player
<1>3. vote \in {-1} \cup 1 .. Cardinality(rules.maps)
  <2>1. /\ maprot \in Seq([file : rules.maps, votes : Nat])
        /\ Len(maprot) <= Cardinality(rules.maps)
    BY <1>0, WorldIs DEF Good, Sound, Worlds
  <2>2. DOMAIN maprot = 1 .. Len(maprot) /\ Len(maprot) \in Nat
    BY <2>1
  <2>3. Cardinality(rules.maps) \in Nat
    BY <1>0, Ruled
  <2> QED
    BY <2>1, <2>2, <2>3
<1>4. [W EXCEPT !.player[p].mapVote = vote] = Minded(W, p, exit, vote)
  BY <1>0, VotesAsMinds
<1>5. Becomes(S)
  BY <1>1, <1>4
<1> HIDE DEF exit
<1>6. \A z \in S : Ends(W, z)
  BY <1>0, <1>2, <1>3, MindedEnds
<1> HIDE DEF S
<1> QED
  BY <1>5, <1>6, BecomesEnds

(* A map that an administrator votes for.                                         *)
Forced(w, i) == [w EXCEPT !.maprot[i].votes = 99]

LEMMA ForcedIsSane ==
  ASSUME NEW w, Sane(w), NEW i \in DOMAIN w.maprot, NEW v, v = Forced(w, i)
  PROVE  Sane(v)
<1> DEFINE M == [w.maprot EXCEPT ![i].votes = 99]
           n == Len(w.maprot)
<1>1. /\ w \in Worlds /\ n \in Nat /\ DOMAIN w.maprot = 1 .. n /\ w.maprot \in Seq(MapEntry)
      /\ \A j \in DOMAIN w.maprot : w.maprot[j] \in MapEntry
  BY MapsOf DEF Sane
<1>2. M \in Seq(MapEntry) /\ Len(M) = n
  <2>1. w.maprot = [j \in 1 .. n |-> w.maprot[j]]
    <3> HIDE DEF MapEntry
    <3> QED
      BY <1>1, SMT
  <2>2. M \in [1 .. n -> MapEntry]
    BY <1>1, <2>1 DEF MapEntry
  <2> HIDE DEF M, n
  <2> QED
    BY <1>1, <2>2, ListsOfMaps
<1>3. v = [w EXCEPT !.maprot = M]
  BY <1>1 DEF Forced, Worlds
<1> HIDE DEF M
<1>4. v \in Worlds /\ v.maprot = M /\ v.player = w.player /\ v.failed = w.failed
  BY <1>1, <1>2, <1>3 DEF Worlds, MapEntry
<1>5. Used(v) = Used(w)
  BY <1>4 DEF Used
<1> QED
  BY <1>2, <1>4, <1>5 DEF Sane, Distinct

LEMMA ForceMapGoes ==
  ASSUME IInv, ForceMap
  PROVE  Goes
<1>0. rules \in Settings /\ Good(W) /\ Sane(W)
  BY IInvIsGood, SoundIsSane DEF Good
<1>1. PICK i \in DOMAIN W.maprot : Becomes(ServerNextMap(Forced(W, i)))
  BY WorldIs DEF ForceMap, Forced
<1> DEFINE S == ServerNextMap(Forced(W, i))
<1>2. Sane(Forced(W, i))
  BY <1>0, ForcedIsSane
<1>3. \A z \in S : Ends(W, z)
  BY <1>0, <1>2, NextMapRenews, RenewedEnds
<1>4. Becomes(S)
  BY <1>1
<1> HIDE DEF S
<1> QED
  BY <1>3, <1>4, BecomesEnds

LEMMA ReloadGoes ==
  ASSUME IInv, Reload
  PROVE  Goes
<1>0. rules \in Settings /\ Good(W) /\ Sane(W)
  BY IInvIsGood, SoundIsSane DEF Good
<1>1. PICK files \in Lists : Becomes(ResetSettings(W, files))
  BY DEF Reload
<1>2. ASSUME NEW z \in ResetSettings(W, files) PROVE Ends(W, z)
  <2>1. GoesOn(W, z)
    BY <1>0, <1>2, ResetSettingsGoesOn
  <2> QED
    BY <1>0, <2>1, NothingEnds, GoesOnEnds
<1> QED
  BY <1>1, <1>2, BecomesEnds

LEMMA DropFlagGoes ==
  ASSUME IInv, NEW p \in Pid, DropFlag(p)
  PROVE  Goes
<1> DEFINE v == DropFlagIfAny(W, p)
<1>0. rules \in Settings /\ Good(W) /\ Sound(W) /\ p \in Used(W)
  BY IInvIsGood, WorldIs DEF DropFlag, Used, Good
<1>1. Becomes({v})
  BY DEF DropFlag
<1>2. Keeps(W, v)
  BY <1>0, DropKeeps
<1>3. Ends(W, v)
  BY <1>0, <1>2, KeepsEnds
<1> HIDE DEF v
<1> QED
  BY <1>1, <1>3, BecomesEnds

LEMMA SuicideGoes ==
  ASSUME IInv, NEW p \in Pid, Suicide(p)
  PROVE  Goes
<1>0. rules \in Settings /\ Good(W) /\ Sound(W) /\ Calm(W) /\ p \in Alive(W)
  BY IInvIsGood DEF Suicide, Good
<1>1. \A v \in KillPlayer(W, p) : Ends(W, v)
  BY <1>0, KillKeeps, KeepsEnds
<1> QED
  BY <1>1, BecomesEnds DEF Suicide

(* A frame begins, perhaps as the first of a game.                                *)
Begins(w) == [w EXCEPT !.over = FALSE, !.clock = IF w.over THEN 0 ELSE w.clock]

LEMMA BeginsEnds ==
  ASSUME rules \in Settings, NEW w, Good(w), NEW v, v = Begins(w)
  PROVE  Ends(w, v)
<1> DEFINE c == IF w.over THEN 0 ELSE w.clock
<1>0. w \in Worlds /\ Sound(w)
  BY DEF Good, Sound
<1>1. 0 \in 0 .. MaxClock /\ w.clock \in 0 .. MaxClock
  BY <1>0, Ruled DEF Worlds
<1>2. c \in 0 .. MaxClock
  BY <1>1
<1>3. v = [w EXCEPT !.over = FALSE, !.clock = c]
  BY DEF Begins
<1>c. c = IF w.over THEN 0 ELSE w.clock
  OBVIOUS
<1> HIDE DEF c
<1>4. /\ v \in Worlds /\ v.player = w.player /\ v.flag = w.flag /\ v.rock = w.rock /\ v.db = w.db
      /\ v.score = w.score /\ v.over = FALSE /\ v.maprot = w.maprot /\ v.currmap = w.currmap
      /\ v.failed = w.failed /\ v.by = w.by /\ v.clock = c /\ v.period = w.period
  BY <1>0, <1>2, <1>3 DEF Worlds
<1>5. Used(v) = Used(w)
  BY <1>4 DEF Used
<1>6. Sound(v) /\ Lower(w, v)
  <2>1. Len(v.maprot) <= Cardinality(rules.maps)
    BY <1>0, <1>4 DEF Sound
  <2>2. \A q \in Used(w) : /\ v.player[q].who = w.player[q].who
                           /\ v.player[q].carriedFlag = w.player[q].carriedFlag
                           /\ v.player[q].dead => w.player[q].dead \/ ~HasFlag(w, q)
    BY <1>4
  <2> QED
    BY <1>0, <1>4, <1>5, <2>1, <2>2, PeopleKeep
<1>7. Owned(v)
  <2>1. \A s : Rightful(w, s) => Rightful(v, s)
    BY <1>4, <1>5 DEF Rightful
  <2> QED
    BY <1>4, <1>5, <2>1 DEF Owned, Good
<1>8. Traced(w) => Traced(v)
  BY <1>4, SamePlayersUnmoved, UnmovedTraced
<1>9. Punctual(w) => Punctual(v)
  <2>1. CASE w.over
    <3>1. v.score[0] = 0 /\ v.score[1] = 0 /\ v.clock = 0
      BY <1>4, <1>c, <2>1 DEF Good, Calm
    <3>2. \A t \in {0, 1} : v.score[t] = 0
      BY <3>1
    <3>3. Short(v)
      BY <3>2, Numbers DEF Short
    <3> QED
      BY <3>1, <3>3, Numbers DEF Punctual, Timely
  <2>2. CASE ~w.over
    <3>1. /\ v.score = w.score /\ v.clock = w.clock /\ v.period = w.period
          /\ (Several(v) => Several(w))
      BY <1>4, <1>5, <1>c, <2>2, UsedSeveral
    <3> QED
      BY <2>2, <3>1 DEF Punctual, Short, Timely
  <2> QED
    BY <2>1, <2>2
<1> QED
  BY <1>4, <1>6, <1>7, <1>8, <1>9 DEF Ends, Leads, Good, Calm, Mapped, Plays

LEMMA BeginFrameIs ==
  ASSUME BeginFrame
  PROVE  W' = Begins(W)
<1> DEFINE c == IF gameover THEN 0 ELSE clock
           o == FALSE
<1>1. /\ gameover' = o /\ clock' = c
      /\ player' = player /\ flag' = flag /\ rock' = rock /\ db' = db /\ score' = score
      /\ current_extra_time_period' = current_extra_time_period
      /\ maprot' = maprot /\ currmap' = currmap /\ announced' = announced
      /\ missed' = missed /\ failed' = failed /\ carried_by' = carried_by
  BY DEF BeginFrame
<1>2. Begins(W) = [W EXCEPT !.over = o, !.clock = c]
  BY WorldIs DEF Begins
<1> HIDE DEF c, o
<1>3. W' = [player |-> player, flag |-> flag, rock |-> rock, db |-> db,
            score |-> score, clock |-> c, period |-> current_extra_time_period,
            over |-> o, maprot |-> maprot, currmap |-> currmap,
            announced |-> announced, missed |-> missed, failed |-> failed,
            by |-> carried_by]
  BY <1>1 DEF W
<1> DEFINE X == [W EXCEPT !.over = o]
<1>4. Begins(W) = [X EXCEPT !.clock = c]
  BY <1>2
<1>5. X = [player |-> player, flag |-> flag, rock |-> rock, db |-> db,
           score |-> score, clock |-> clock, period |-> current_extra_time_period,
           over |-> o, maprot |-> maprot, currmap |-> currmap,
           announced |-> announced, missed |-> missed, failed |-> failed,
           by |-> carried_by]
  BY DEF W
<1> HIDE DEF X
<1>6. [X EXCEPT !.clock = c] = [player |-> player, flag |-> flag, rock |-> rock,
                                db |-> db, score |-> score, clock |-> c,
                                period |-> current_extra_time_period, over |-> o,
                                maprot |-> maprot, currmap |-> currmap,
                                announced |-> announced, missed |-> missed,
                                failed |-> failed, by |-> carried_by]
  BY <1>5
<1> QED
  BY <1>3, <1>4, <1>6

LEMMA BeginFrameGoes ==
  ASSUME IInv, BeginFrame
  PROVE  Goes
<1>0. rules \in Settings /\ Good(W)
  BY IInvIsGood
<1>1. W' = Begins(W)
  BY BeginFrameIs
<1>2. Ends(W, Begins(W))
  BY <1>0, BeginsEnds
<1> QED
  BY <1>1, <1>2 DEF Goes, BeginFrame

LEMMA PlaqueFrameGoes ==
  ASSUME IInv, PlaqueFrame
  PROVE  Goes
<1> DEFINE S == {NextFrame(w) : w \in AnnounceVotes(W)}
<1>0. rules \in Settings /\ Good(W) /\ Ends(W, W)
  BY IInvIsGood, NothingEnds
<1>1. Becomes(S)
  BY DEF PlaqueFrame
<1>2. ASSUME NEW z \in S PROVE Ends(W, z)
  <2>1. W.over = TRUE
    BY <1>0, WorldIs DEF PlaqueFrame, Good, Sound, Worlds
  <2> QED
    BY <1>0, <1>2, <2>1, FrameEnds
<1> HIDE DEF S
<1> QED
  BY <1>1, <1>2, BecomesEnds

--------------------------------------------------------------------------------
(* Before the players' turns, where the game goes on.                             *)

(* No flag is taken or scores then, and the game does not end.                    *)
Falls == rules' = rules /\ \E v : W' = v /\ Keeps(W, v)

LEMMA FallsGoes ==
  ASSUME IInv, Falls
  PROVE  Goes /\ gameover' = gameover
<1>1. Good(W)
  BY IInvIsGood
<1>2. PICK v : W' = v /\ Keeps(W, v)
  BY DEF Falls
<1>3. Ends(W, v)
  BY <1>1, <1>2, KeepsEnds
<1>4. v.over = W.over
  BY <1>2 DEF Keeps, Follows, Rest
<1> QED
  BY <1>2, <1>3, <1>4 DEF Falls, Goes, W

LEMMA BecomesFalls ==
  ASSUME NEW S, Becomes(S), \A v \in S : Keeps(W, v)
  PROVE  Falls
<1>1. S \in SUBSET Worlds
  BY DEF Keeps, Follows, Sound
<1>2. rules' = rules /\ \E v \in S : W' = v
  BY <1>1, BecomesOne
<1> QED
  BY <1>2 DEF Falls

LEMMA DeathbringerEffectFalls ==
  ASSUME IInv, NEW p \in Pid, DeathbringerEffect(p)
  PROVE  Falls
<1> DEFINE S == DamagePlayer(W, p) \cup {Infected(W, p, None)}
<1>0. rules \in Settings /\ Sound(W) /\ Calm(W) /\ p \in Used(W)
  BY IInvIsGood DEF DeathbringerEffect, Good, Alive
<1>1. Becomes(S)
  BY DEF DeathbringerEffect, Infect, Infected
<1>2. ASSUME NEW v \in S PROVE Keeps(W, v)
  <2>1. CASE v \in DamagePlayer(W, p)
    BY <1>0, <2>1, DamageKeeps
  <2>2. CASE v = Infected(W, p, None)
    <3>1. Rightful(W, None)
      BY DEF Rightful
    <3>2. None \in Owner \cup {None}
      OBVIOUS
    <3> QED
      BY <1>0, <2>2, <3>1, <3>2, InfectedKeeps
  <2> QED
    BY <1>2, <2>1, <2>2
<1> HIDE DEF S
<1> QED
  BY <1>1, <1>2, BecomesFalls

LEMMA DeathbringerHitsFalls ==
  ASSUME IInv, NEW p \in Pid, DeathbringerHits(p)
  PROVE  Falls
<1> DEFINE v == Infected(W, p, W.db)
<1>0. rules \in Settings /\ Sound(W) /\ Owned(W) /\ p \in Used(W)
  BY IInvIsGood DEF DeathbringerHits, Good, Alive
<1>1. Becomes({v})
  BY WorldIs DEF DeathbringerHits, Infect, Infected
<1>2. W.db \in Owner \cup {None}
  BY <1>0 DEF Sound, Worlds
<1>3. maxplayers < MAX_PLAYERS => Rightful(W, W.db)
  BY <1>0 DEF Owned
<1>4. Keeps(W, v)
  BY <1>0, <1>2, <1>3, InfectedKeeps
<1> HIDE DEF v
<1> QED
  BY <1>1, <1>4, BecomesFalls

LEMMA DeathbringerEndsFalls ==
  ASSUME IInv, DeathbringerEnds
  PROVE  Falls
<1>0. Sound(W)
  BY IInvIsGood DEF Good
<1>1. Becomes({Burnt(W)})
  BY DEF DeathbringerEnds, Burnt
<1>2. Keeps(W, Burnt(W))
  BY <1>0, BurntKeeps
<1> QED
  BY <1>1, <1>2, BecomesFalls

(* A rocket ends.                                                                 *)
LEMMA SpentKeeps ==
  ASSUME NEW w, Sound(w), NEW r \in Rocket
  PROVE  Keeps(w, Fired(w, r, None))
<1>1. Rightful(w, None) /\ None \in Owner \cup {None}
  BY DEF Rightful
<1> QED
  BY <1>1, FiredKeeps

LEMMA RocketHitsPlayerFalls ==
  ASSUME IInv, NEW r \in Rocket, NEW p \in Pid, RocketHitsPlayer(r, p)
  PROVE  Falls
<1> DEFINE S == {Fired(v, r, None) : v \in DamagePlayer(W, p)}
<1>0. rules \in Settings /\ Sound(W) /\ Calm(W) /\ p \in Used(W)
  BY IInvIsGood DEF RocketHitsPlayer, Good, Alive
<1>1. Becomes(S)
  BY DEF RocketHitsPlayer, Fired
<1>2. ASSUME NEW z \in S PROVE Keeps(W, z)
  <2>1. PICK v \in DamagePlayer(W, p) : z = Fired(v, r, None)
    BY <1>2
  <2>2. Keeps(W, v)
    BY <1>0, DamageKeeps
  <2>3. Keeps(v, z)
    BY <2>1, <2>2, SpentKeeps DEF Keeps, Follows
  <2> QED
    BY <2>2, <2>3, KeepsTwice
<1> HIDE DEF S
<1> QED
  BY <1>1, <1>2, BecomesFalls

LEMMA RocketEndsFalls ==
  ASSUME IInv, NEW r \in Rocket, RocketEnds(r)
  PROVE  Falls
<1> DEFINE v == Fired(W, r, None)
<1>0. Sound(W)
  BY IInvIsGood DEF Good
<1>1. Becomes({v})
  BY DEF RocketEnds, Fired
<1>2. Keeps(W, v)
  BY <1>0, SpentKeeps
<1> HIDE DEF v
<1> QED
  BY <1>1, <1>2, BecomesFalls

(* The place of a player and who he is.                                           *)
LEMMA PlayersAreRightful ==
  ASSUME rules \in Settings, NEW w, Sound(w), NEW p \in Used(w),
         NEW s, s = [pid |-> p, who |-> w.player[p].who]
  PROVE  s \in Owner /\ Rightful(w, s)
<1>1. p \in Pid /\ w.player[p].who \in Person
  BY PlayersOf DEF Sound
<1> QED
  BY <1>1 DEF Owner, Rightful

LEMMA PlayersCollideFalls ==
  ASSUME IInv, NEW p \in Pid, NEW q \in Pid, PlayersCollide(p, q)
  PROVE  Falls
<1> DEFINE s == [pid |-> p, who |-> W.player[p].who]
           S == {Infected(W, q, s)} \cup DamagePlayer(W, q)
<1>0. rules \in Settings /\ Sound(W) /\ Calm(W) /\ p \in Used(W) /\ q \in Used(W)
  BY IInvIsGood DEF PlayersCollide, Good, Alive
<1>1. Becomes(S)
  BY WorldIs DEF PlayersCollide, Infect, Infected
<1>2. s \in Owner /\ Rightful(W, s)
  BY <1>0, PlayersAreRightful
<1> HIDE DEF s
<1>3. ASSUME NEW v \in S PROVE Keeps(W, v)
  <2>1. CASE v \in DamagePlayer(W, q)
    BY <1>0, <2>1, DamageKeeps
  <2>2. CASE v = Infected(W, q, s)
    <3>1. s \in Owner \cup {None}
      BY <1>2
    <3> QED
      BY <1>0, <1>2, <2>2, <3>1, InfectedKeeps
  <2> QED
    BY <1>3, <2>1, <2>2
<1> HIDE DEF S
<1> QED
  BY <1>1, <1>3, BecomesFalls

LEMMA RespawnFalls ==
  ASSUME IInv, Respawn
  PROVE  Falls
<1>0. rules \in Settings /\ Sound(W) /\ ~W.over
  BY IInvIsGood, WorldIs DEF Respawn, Good, IInv
<1>1. PICK P \in SUBSET (Used(W) \ Alive(W)) : player' = Risen(W, P)
  BY WorldIs DEF Respawn, Risen
<1>2. W' = Reborn(W, P)
  <2> DEFINE R == Risen(W, P)
  <2>1. W' = [player |-> R, flag |-> flag, rock |-> rock, db |-> db, score |-> score,
              clock |-> clock, period |-> current_extra_time_period, over |-> gameover,
              maprot |-> maprot, currmap |-> currmap, announced |-> announced,
              missed |-> missed, failed |-> failed, by |-> carried_by]
    BY <1>1 DEF Respawn, W
  <2>2. Reborn(W, P) = [W EXCEPT !.player = R]
    BY DEF Reborn
  <2> HIDE DEF R
  <2> QED
    BY <2>1, <2>2 DEF W
<1>3. Keeps(W, Reborn(W, P))
  BY <1>0, RebornKeeps
<1> QED
  BY <1>2, <1>3 DEF Respawn, Falls

--------------------------------------------------------------------------------
(* The players' turns and the end of the frame.                                   *)

LEMMA ShootRocketGoes ==
  ASSUME IInv, NEW p \in Pid, ShootRocket(p)
  PROVE  Goes
<1> DEFINE s == [pid |-> p, who |-> W.player[p].who]
<1>0. /\ rules \in Settings /\ Good(W) /\ Sound(W) /\ p \in Used(W) /\ ~W.over
  BY IInvIsGood DEF ShootRocket, HisTurn, Good, Alive, Calm
<1>1. PICK r \in Rocket : Becomes({Fired(W, r, s)})
  BY WorldIs DEF ShootRocket, Fired
<1>2. s \in Owner /\ Rightful(W, s)
  BY <1>0, PlayersAreRightful
<1> HIDE DEF s
<1> DEFINE v == Fired(W, r, s)
<1>3. Keeps(W, v)
  <2>1. s \in Owner \cup {None}
    BY <1>2
  <2> QED
    BY <1>0, <1>2, <2>1, FiredKeeps
<1>4. Ends(W, v)
  BY <1>0, <1>3, KeepsEnds
<1>5. Becomes({v})
  BY <1>1
<1> HIDE DEF v
<1> QED
  BY <1>4, <1>5, BecomesEnds

LEMMA MayTake ==
  ASSUME NEW p \in Pid, NEW f \in Flags, MaySteal(p, f)
  PROVE  /\ W.flag[f].status # "carried" /\ ~HasFlag(W, p)
         /\ f[1] = Team(p) => rules.carry_own_team_flag
<1>1. W.flag[f].status # "carried" /\ ~HasFlag(W, p)
  BY WorldIs DEF MaySteal
<1>2. Team(p) \in {0, 1}
  BY Sides
<1>3. f[1] = Team(p) => rules.carry_own_team_flag
  BY <1>2 DEF MaySteal, Wild
<1> QED
  BY <1>1, <1>3

LEMMA TouchFlagGoes ==
  ASSUME IInv, NEW p \in Pid, NEW f \in Flags, TouchFlag(p, f)
  PROVE  Goes
<1> DEFINE v == Steal(W, p, f)
<1>0. /\ rules \in Settings /\ Good(W) /\ p \in Alive(W)
  BY IInvIsGood DEF TouchFlag, HisTurn
<1>1. /\ W.flag[f].status # "carried" /\ ~HasFlag(W, p)
      /\ f[1] = Team(p) => rules.carry_own_team_flag
  BY MayTake DEF TouchFlag
<1>2. Becomes({v})
  BY DEF TouchFlag
<1>3. Ends(W, v)
  BY <1>0, <1>1, StealEnds
<1> HIDE DEF v
<1> QED
  BY <1>2, <1>3, BecomesEnds

LEMMA ReturnOwnFlagGoes ==
  ASSUME IInv, NEW p \in Pid, NEW f \in Flags, ReturnOwnFlag(p, f)
  PROVE  Goes
<1> DEFINE v == ReturnFlag(W, f)
<1>0. /\ Good(W) /\ Alive(W) # {}
  BY IInvIsGood DEF ReturnOwnFlag, HisTurn
<1>1. W.flag[f].status = "dropped"
  BY WorldIs DEF ReturnOwnFlag
<1>2. Becomes({v})
  BY DEF ReturnOwnFlag
<1>3. Ends(W, v)
  BY <1>0, <1>1, ReturnEnds
<1> HIDE DEF v
<1> QED
  BY <1>2, <1>3, BecomesEnds

LEMMA TryCaptureGoes ==
  ASSUME IInv, NEW p \in Pid, NEW f \in Flags, NEW g \in Flags, TryCapture(p, f, g)
  PROVE  Goes
<1>0. /\ rules \in Settings /\ Good(W) /\ p \in Alive(W)
  BY IInvIsGood DEF TryCapture, HisTurn
<1>1. W.flag[f].carrier = p
  BY WorldIs DEF TryCapture
<1>2. PICK kind \in TargetKinds(p, f) :
         /\ g \in Targets(W, p, f, kind[1], kind[2])
         /\ Becomes(CaptureAt(W, p, f, g, kind[1] # kind[2]))
  BY DEF TryCapture
<1>3. \A z \in CaptureAt(W, p, f, g, kind[1] # kind[2]) : Ends(W, z)
  BY <1>0, <1>1, <1>2, CaptureEnds
<1> QED
  BY <1>2, <1>3, BecomesEnds

LEMMA FrameOfEnds ==
  ASSUME rules \in Settings, NEW w, Ends(W, w), NEW S,
         \A x \in S : (x = w /\ w.over = TRUE) \/ x \in TimeCheck(w),
         NEW z \in FrameOf(S)
  PROVE  Ends(W, z)
<1>1. PICK y \in UNION {AnnounceVotes(v) : v \in S} : z = NextFrame(y)
  BY DEF FrameOf
<1>2. PICK x \in S : y \in AnnounceVotes(x)
  BY <1>1
<1> QED
  BY <1>1, <1>2, FrameEnds

LEMMA EndFrameGoes ==
  ASSUME IInv, EndFrame
  PROVE  Goes
<1>1. rules \in Settings /\ Ends(W, W)
  BY IInvIsGood, NothingEnds
<1>2. Becomes(FrameOf(TimeCheck(W)))
  BY DEF EndFrame
<1>3. \A z \in FrameOf(TimeCheck(W)) : Ends(W, z)
  BY <1>1, FrameOfEnds
<1> QED
  BY <1>2, <1>3, BecomesEnds

(* A point that does not end the game, or the frame of one that does.             *)
LEMMA CarryWildFlagIs ==
  ASSUME IInv, NEW f \in Flags, CarryWildFlag(f)
  PROVE  \E t, w : /\ t = Team(W.flag[f].carrier) /\ w = CarryingPoint(W, t)
                  /\ \/ /\ Becomes({w}) /\ w \in AfterScore(w, t)
                        /\ counted' = f[2] /\ UNCHANGED stage
                     \/ /\ Becomes(FrameOf(ServerNextMap(w)))
                        /\ ServerNextMap(w) = AfterScore(w, t)
                        /\ stage' = "messages" /\ counted' = 0
<1> DEFINE t == Team(W.flag[f].carrier)
           w == CarryingPoint(W, t)
<1>1. W.flag = flag
  BY WorldIs
<1>2. \/ ~ScoreEnds(w, t) /\ Becomes({w}) /\ counted' = f[2] /\ UNCHANGED stage
      \/ /\ ScoreEnds(w, t) /\ Becomes(FrameOf(ServerNextMap(w)))
         /\ stage' = "messages" /\ counted' = 0
  BY <1>1 DEF CarryWildFlag
<1> HIDE DEF t, w
<1>3. /\ ~ScoreEnds(w, t) => AfterScore(w, t) = {w}
      /\ ScoreEnds(w, t) => AfterScore(w, t) = ServerNextMap(w)
  BY DEF AfterScore
<1>4. t = Team(W.flag[f].carrier) /\ w = CarryingPoint(W, t)
  BY DEF t, w
<1> QED
  BY <1>2, <1>3, <1>4

LEMMA CarryWildFlagGoes ==
  ASSUME IInv, NEW f \in Flags, CarryWildFlag(f)
  PROVE  Goes
<1>0. rules \in Settings /\ Good(W) /\ W.flag[f].status = "carried"
  BY IInvIsGood, WorldIs DEF CarryWildFlag
<1>1. PICK t, w : /\ t = Team(W.flag[f].carrier) /\ w = CarryingPoint(W, t)
                  /\ \/ Becomes({w}) /\ w \in AfterScore(w, t)
                     \/ /\ Becomes(FrameOf(ServerNextMap(w)))
                        /\ ServerNextMap(w) = AfterScore(w, t)
  BY CarryWildFlagIs
<1>2. \A z \in AfterScore(w, t) : Ends(W, z)
  BY <1>0, <1>1, CarryingPointEnds
<1>3. CASE Becomes({w}) /\ w \in AfterScore(w, t)
  BY <1>2, <1>3, BecomesEnds
<1>4. CASE Becomes(FrameOf(ServerNextMap(w))) /\ ServerNextMap(w) = AfterScore(w, t)
  <2>1. Sane(w)
    BY <1>0, <1>1, OutscoredLeads, SoundIsSane DEF Leads, Good
  <2>2. ASSUME NEW z \in FrameOf(ServerNextMap(w)) PROVE Ends(W, z)
    <3>1. PICK y \in UNION {AnnounceVotes(v) : v \in ServerNextMap(w)} : z = NextFrame(y)
      BY <2>2 DEF FrameOf
    <3>2. PICK x \in ServerNextMap(w) : y \in AnnounceVotes(x)
      BY <3>1
    <3>3. Ends(W, x) /\ x.over = TRUE
      BY <1>0, <1>2, <1>4, <2>1, <3>2, NextMapRenews DEF Renewed
    <3> QED
      BY <1>0, <3>1, <3>2, <3>3, FrameEnds
  <2> QED
    BY <1>4, <2>2, BecomesEnds
<1> QED
  BY <1>1, <1>3, <1>4

--------------------------------------------------------------------------------
(* All steps, and the stages of the frame.                                        *)

LEMMA MessagesGo ==
  ASSUME IInv, Messages
  PROVE  Goes /\ (UNCHANGED stage \/ (stage' = "physics" /\ gameover' = FALSE))
         /\ stage = "messages"
<1>1. CASE \E who \in Person : Join(who)
  BY <1>1, JoinGoes DEF Join
<1>2. ASSUME NEW p \in Pid, Leave(p) \/ DropFlag(p) \/ Suicide(p)
      PROVE  Goes /\ UNCHANGED stage /\ stage = "messages"
  BY <1>2, LeaveGoes, DropFlagGoes, SuicideGoes DEF Leave, DropFlag, Suicide
<1>3. ASSUME NEW p \in Pid, MapExit(p) \/ MapVote(p)
      PROVE  Goes /\ UNCHANGED stage /\ stage = "messages"
  BY <1>3, MapExitGoes, MapVoteGoes DEF MapExit, MapVote
<1>4. CASE ChangeTeams
  BY <1>4, ChangeTeamsGoes DEF ChangeTeams
<1>5. CASE ForceMap
  BY <1>5, ForceMapGoes DEF ForceMap
<1>6. CASE Reload
  BY <1>6, ReloadGoes DEF Reload
<1>7. CASE BeginFrame
  BY <1>7, BeginFrameGoes DEF BeginFrame
<1>8. CASE PlaqueFrame
  BY <1>8, PlaqueFrameGoes DEF PlaqueFrame
<1> QED
  BY <1>1, <1>2, <1>3, <1>4, <1>5, <1>6, <1>7, <1>8 DEF Messages

LEMMA SimulateFrameGoes ==
  ASSUME IInv, SimulateFrame
  PROVE  /\ Goes /\ stage' \in {"messages", "physics", "players"}
         /\ stage' = "physics" => stage = "physics" /\ gameover' = gameover
<1>0. ASSUME Falls, UNCHANGED stage
      PROVE  /\ Goes /\ stage' \in {"messages", "physics", "players"}
             /\ stage' = "physics" => stage = "physics" /\ gameover' = gameover
  BY <1>0, FallsGoes DEF IInv
<1>1. ASSUME NEW p \in Pid, DeathbringerEffect(p) \/ DeathbringerHits(p) \/ ShootRocket(p)
      PROVE  (Falls /\ UNCHANGED stage) \/ (Goes /\ UNCHANGED stage /\ stage = "players")
  BY <1>1, DeathbringerEffectFalls, DeathbringerHitsFalls, ShootRocketGoes
     DEF DeathbringerEffect, DeathbringerHits, ShootRocket, HisTurn
<1>2. ASSUME NEW r \in Rocket, RocketEnds(r) \/ \E p \in Pid : RocketHitsPlayer(r, p)
      PROVE  Falls /\ UNCHANGED stage
  BY <1>2, RocketEndsFalls, RocketHitsPlayerFalls DEF RocketEnds, RocketHitsPlayer
<1>3. ASSUME NEW p \in Pid, NEW q \in Pid, PlayersCollide(p, q)
      PROVE  Falls /\ UNCHANGED stage
  BY <1>3, PlayersCollideFalls DEF PlayersCollide
<1>4. ASSUME NEW p \in Pid, NEW f \in Flags, TouchFlag(p, f) \/ ReturnOwnFlag(p, f)
      PROVE  Goes /\ UNCHANGED stage /\ stage = "players"
  BY <1>4, TouchFlagGoes, ReturnOwnFlagGoes DEF TouchFlag, ReturnOwnFlag, HisTurn
<1>5. ASSUME NEW p \in Pid, NEW f \in Flags, NEW g \in Flags, TryCapture(p, f, g)
      PROVE  Goes /\ UNCHANGED stage /\ stage = "players"
  BY <1>5, TryCaptureGoes DEF TryCapture, HisTurn
<1>6. CASE DeathbringerEnds
  BY <1>0, <1>6, DeathbringerEndsFalls DEF DeathbringerEnds
<1>7. CASE Respawn
  BY <1>7, RespawnFalls, FallsGoes DEF Respawn
<1>8. CASE EndFrame
  BY <1>8, EndFrameGoes DEF EndFrame
<1>10. ASSUME NEW f \in Flags, CarryWildFlag(f)
       PROVE  /\ Goes /\ stage = "players" /\ (UNCHANGED stage \/ stage' = "messages")
  <2>1. UNCHANGED stage \/ stage' = "messages"
    BY <1>10, CarryWildFlagIs
  <2>2. stage = "players"
    BY <1>10 DEF CarryWildFlag
  <2> QED
    BY <1>10, <2>1, <2>2, CarryWildFlagGoes
<1>9. SUFFICES ASSUME (Falls /\ UNCHANGED stage) \/ (Goes /\ UNCHANGED stage /\ stage = "players")
               PROVE  /\ Goes /\ stage' \in {"messages", "physics", "players"}
                      /\ stage' = "physics" => stage = "physics" /\ gameover' = gameover
  BY <1>1, <1>2, <1>3, <1>4, <1>5, <1>6, <1>7, <1>8, <1>10 DEF SimulateFrame
<1> QED
  BY <1>0, <1>9

(* The flag that the last point of the frame was for.                             *)
LEMMA CountedKept ==
  ASSUME IInv, Next
  PROVE  counted' \in Nat
<1>1. counted \in Nat
  BY DEF IInv
<1>2. \A f \in Flags : f[2] \in Nat
  BY SettingsAssumption DEF IInv, Flags
<1>3. CASE UNCHANGED counted \/ counted' = 0
  BY <1>1, <1>3
<1>4. ASSUME Messages PROVE UNCHANGED counted
  BY <1>4, Zenon DEF Messages, Join, Leave, DropFlag, Suicide, MapExit, MapVote, ChangeTeams, ForceMap,
     Reload, BeginFrame, PlaqueFrame
<1>5. ASSUME NEW f \in Flags, CarryWildFlag(f) PROVE counted' \in Nat
  <2>1. f[2] \in Nat
    BY <1>2
  <2>2. counted' = f[2] \/ counted' = 0
    BY <1>5, Zenon DEF CarryWildFlag
  <2> QED
    BY <2>1, <2>2
<1>6. ASSUME SimulateFrame, \A f \in Flags : ~CarryWildFlag(f) PROVE UNCHANGED counted \/ counted' = 0
  BY <1>6, Zenon
  DEF SimulateFrame, DeathbringerEffect, DeathbringerHits, ShootRocket, RocketEnds,
      RocketHitsPlayer, PlayersCollide, TouchFlag, ReturnOwnFlag, TryCapture,
      DeathbringerEnds, Respawn, EndFrame
<1> QED
  BY <1>3, <1>4, <1>5, <1>6 DEF Next

LEMMA InitIsGood ==
  ASSUME Init
  PROVE  IInv
<1>1. rules \in Settings
  BY DEF Init
<1>2. PICK files \in Lists : maprot = [i \in DOMAIN files |-> [file |-> files[i], votes |-> 0]]
  BY DEF Init
<1>3. maprot \in Seq([file : rules.maps, votes : Nat]) /\ Len(maprot) <= Cardinality(rules.maps)
  <2>1. PICK n \in 1 .. Cardinality(rules.maps) : files \in [1 .. n -> rules.maps]
    BY DEF Lists
  <2>2. Cardinality(rules.maps) \in Nat
    BY <1>1, Ruled
  <2>3. n \in Nat /\ n <= Cardinality(rules.maps)
    BY <2>1, <2>2
  <2>4. maprot \in [1 .. n -> MapEntry]
    BY <1>2, <2>1 DEF MapEntry
  <2>5. maprot \in Seq(MapEntry) /\ Len(maprot) = n
    BY <2>3, <2>4, ListsOfMaps
  <2> QED
    BY <2>3, <2>5 DEF MapEntry
<1>4. currmap \in DOMAIN maprot /\ currmap \in Int
  <2>1. DOMAIN maprot = 1 .. Len(maprot) /\ Len(maprot) \in Nat
    BY <1>3
  <2> QED
    BY <2>1 DEF Init
<1>5. W \in Worlds
  <2>1. /\ Periods \in Nat /\ Periods >= 1 /\ MaxClock \in Nat /\ VoteAnnounceInterval \in Nat
    BY <1>1, Ruled
  <2>2. player \in [Pid -> Player \cup {None}] /\ flag \in [Flags -> FlagState]
    BY DEF Init, AtBase, FlagState
  <2>3. rock \in [Rocket -> Owner \cup {None}] /\ db \in Owner \cup {None}
    BY DEF Init
  <2>4. score \in [{0, 1} -> Nat] /\ clock \in 0 .. MaxClock
    BY <2>1 DEF Init
  <2>5. current_extra_time_period \in 1 .. Periods
    BY <2>1 DEF Init
  <2>6. /\ announced \in [votes : Nat, needed : Nat, wait : 0 .. VoteAnnounceInterval]
        /\ missed \in BOOLEAN /\ gameover \in BOOLEAN
    <3>1. 0 \in 0 .. VoteAnnounceInterval
      BY <2>1
    <3>2. NotAnnounced \in [votes : Nat, needed : Nat, wait : 0 .. VoteAnnounceInterval]
      BY <3>1 DEF NotAnnounced
    <3>3. missed = FALSE /\ gameover = FALSE
      BY Zenon DEF Init
    <3> QED
      BY <3>2, <3>3 DEF Init
  <2>7. /\ failed \in {"none", "add_flag_take", "dropFlagIfAny", "oldVotes"}
        /\ carried_by \in [Flags -> SUBSET Person]
    BY DEF Init
  <2> QED
    BY <1>3, <1>4, <2>2, <2>3, <2>4, <2>5, <2>6, <2>7 DEF W, Worlds
<1>6. Used(W) = {}
  BY WorldIs DEF Init, Used
<1>7. Held(W)
  BY <1>6, WorldIs DEF Init, Held, AtBase
<1>8. Distinct(W) /\ Owned(W) /\ Calm(W)
  BY <1>6, WorldIs DEF Init, Distinct, Owned, Calm, Rightful
<1> QED
  BY <1>1, <1>3, <1>4, <1>5, <1>7, <1>8, WorldIs DEF IInv, Sound, Init

LEMMA NextGoes ==
  ASSUME IInv, Next
  PROVE  Goes /\ IInv'
<1>0. counted' \in Nat
  BY CountedKept
<1>1. CASE Messages
  <2>1. Goes /\ stage' \in {"messages", "physics"} /\ (stage' = "physics" => ~gameover')
    BY <1>1, MessagesGo
  <2> QED
    BY <1>0, <2>1, GoesOver DEF IInv
<1>2. CASE SimulateFrame
  <2>1. /\ Goes /\ stage' \in {"messages", "physics", "players"}
        /\ stage' = "physics" => ~gameover'
    BY <1>2, SimulateFrameGoes DEF IInv
  <2> QED
    BY <1>0, <2>1, GoesOver DEF IInv
<1> QED
  BY <1>1, <1>2 DEF Next

LEMMA StutterKeeps ==
  ASSUME IInv, UNCHANGED vars
  PROVE  IInv' /\ rules' = rules /\ W' = W
<1>1. rules' = rules /\ W' = W /\ stage' = stage
  BY DEF vars, W
<1>2. Good(W) /\ W \in Worlds
  BY IInvIsGood DEF Good, Sound
<1>3. Good(W)'
  BY <1>1, <1>2, SameGood
<1> QED
  BY <1>1, <1>3 DEF IInv, vars, Good

--------------------------------------------------------------------------------
(* The theorems.                                                                  *)

(* The inductive invariant: no message and no part of a frame, with the captures, *)
(* deaths, moves and next maps that it may lead to, breaks it.                    *)
THEOREM Invariance == Spec => []IInv
<1>1. Init => IInv
  BY InitIsGood
<1>2. IInv /\ [Next]_vars => IInv'
  BY NextGoes, StutterKeeps
<1> QED
  BY <1>1, <1>2, PTL DEF Spec

(* The world's values keep their types, however many functions they have passed,  *)
(* and the map that is played is one of the list.                                 *)
THEOREM TypesAreKept == Spec => []TypeOK
<1>1. IInv => TypeOK
  BY WorldIs DEF IInv, Sound, TypeOK
<1> QED
  BY <1>1, Invariance, PTL

LEMMA HeldOnce ==
  ASSUME NEW w, Sound(w), NEW p \in Used(w)
  PROVE  Cardinality(CarriedBy(w, p)) = IF HasFlag(w, p) THEN 1 ELSE 0
<1>0. Held(w) /\ p # -1
  BY Sides DEF Sound, Used
<1>1. CASE HasFlag(w, p)
  <2>1. PICK f \in Flags : w.flag[f].carrier = p
    BY <1>0, <1>1 DEF Held
  <2>2. \A g \in Flags : w.flag[g].carrier = p => g = f
    BY <1>0, <2>1 DEF Held
  <2>3. CarriedBy(w, p) = {f}
    BY <2>1, <2>2 DEF CarriedBy
  <2> QED
    BY <1>1, <2>3, FS_Singleton
<1>2. CASE ~HasFlag(w, p)
  <2>1. \A f \in Flags : w.flag[f].carrier # p
    <3> SUFFICES ASSUME NEW f \in Flags, w.flag[f].carrier = p PROVE FALSE
      OBVIOUS
    <3> QED
      BY <1>0, <1>2, CarriersOf
  <2>2. CarriedBy(w, p) = {}
    BY <2>1 DEF CarriedBy
  <2> QED
    BY <1>2, <2>2, FS_EmptySet
<1> QED
  BY <1>1, <1>2

(* The flags' carriers and what the players are said to carry agree: no nAssert   *)
(* about flags ends the program.                                                  *)
THEOREM CarriersAgree == Spec => []CarriersMatchFlags
<1>1. ASSUME IInv PROVE CarriersMatchFlags
  <2>1. Sound(W) /\ Held(W)
    BY <1>1 DEF IInv, Sound
  <2>2. \A p \in Used(W) : Cardinality(CarriedBy(W, p)) = IF HasFlag(W, p) THEN 1 ELSE 0
    BY <2>1, HeldOnce
  <2> QED
    BY <2>1, <2>2, WorldIs DEF Held, CarriersMatchFlags
<1> QED
  BY <1>1, Invariance, PTL

(* Who is credited with a kill is the one who fired, however the players have     *)
(* changed places, or nobody, if he has left.                                     *)
THEOREM CreditIsGiven == Spec => []KillsAreCredited
<1>1. ASSUME IInv PROVE KillsAreCredited
  <2> SUFFICES ASSUME maxplayers < MAX_PLAYERS
               PROVE  /\ \A r \in Rocket : HasOwner(rock[r])
                      /\ HasOwner(db)
                      /\ \A p \in Used(W) : HasOwner(player[p].infected)
    BY DEF KillsAreCredited
  <2>1. \A s : Rightful(W, s) => HasOwner(s)
    BY WorldIs DEF Rightful, HasOwner
  <2> QED
    BY <1>1, <2>1, WorldIs DEF IInv, Owned
<1> QED
  BY <1>1, Invariance, PTL

(* From the end of a game to the first frame of the next one, nobody lives, and   *)
(* no flag, shot or score of the last game is left.                               *)
THEOREM PlaqueStaysQuiet == Spec => []PlaqueIsQuiet
<1>1. IInv => PlaqueIsQuiet
  BY WorldIs DEF IInv, Calm, PlaqueIsQuiet
<1> QED
  BY <1>1, Invariance, PTL

(* The flags' names and those whom they name.                                     *)
LEMMA InitTraced ==
  ASSUME Init
  PROVE  Traced(W)
<1>1. \A f \in Flags : W.flag[f] = AtBase
  BY WorldIs DEF Init
<1> QED
  BY <1>1 DEF Traced, AtBase

LEMMA SameTraced ==
  ASSUME rules' = rules, NEW v, W' = v, Traced(v)
  PROVE  Traced(W)'
<1>1. Flags' = Flags
  BY SameRules
<1>2. \A f \in Flags : \A q : Named(v, f, q) => Named(W, f, q)'
  BY DEF Named, Team, Used
<1> SUFFICES ASSUME NEW f \in Flags
    PROVE  LET g == W'.flag[f] IN
           /\ \A q \in {g.carrier, g.prev, g.prev_prev} \ {-1} : Named(W, f, q)'
           /\ g.carrier # -1 => /\ g.carrier \in Used(W)' /\ W'.player[g.carrier].who \in W'.by[f]
                                /\ g.prev # g.carrier /\ g.prev_prev = -1
           /\ g.prev # -1 => g.prev # g.prev_prev
  BY <1>1 DEF Traced
<1>3. Used(W)' = Used(v)
  BY DEF Used
<1> QED
  BY <1>2, <1>3 DEF Traced

(* Whoever flags name as their carriers has carried them and is still there, in   *)
(* all changes of places: moves and swaps between and during the frames.          *)
THEOREM NamesAreTraced == Spec => []Traced(W)
<1>1. Init => Traced(W)
  BY InitTraced
<1>2. IInv /\ Traced(W) /\ [Next]_vars => Traced(W)'
  <2> SUFFICES ASSUME IInv, Traced(W), [Next]_vars PROVE Traced(W)'
    OBVIOUS
  <2>1. CASE Next
    <3>1. Goes
      BY <2>1, NextGoes
    <3>2. PICK v : W' = v /\ Ends(W, v)
      BY <3>1 DEF Goes
    <3>3. rules' = rules /\ Traced(v)
      BY <3>1, <3>2 DEF Goes, Ends, Leads
    <3> QED
      BY <3>2, <3>3, SameTraced
  <2>2. CASE UNCHANGED vars
    <3>1. rules' = rules /\ W' = W
      BY <2>2, StutterKeeps
    <3> QED
      BY <3>1, SameTraced
  <2> QED
    BY <2>1, <2>2
<1> QED
  BY <1>1, <1>2, Invariance, PTL DEF Spec

Right(w, f, g, p, ass) ==
  \/ ass = -1
  \/ Team(p) \in {f[1], g[1]} /\ rules.carry_own_team_flag
  \/ ass # p /\ ass \in Used(w) /\ w.player[ass].who \in w.by[f] \cup w.by[g]

(* Whoever is named as the assistant of a capture is another player, who is there *)
(* and has carried one of the two flags, unless they are his team's own.          *)
THEOREM AssistantsAreRight == Spec => []AssistantsHelped
<1>1. ASSUME IInv, Traced(W) PROVE AssistantsHelped
  <2> SUFFICES ASSUME NEW f \in Flags, NEW g \in Flags, W.flag[f].status = "carried", f # g
               PROVE  Right(W, f, g, W.flag[f].carrier, Assistant(W, W.flag[f].carrier, f, g))
    BY WorldIs DEF AssistantsHelped, Right
  <2> DEFINE p   == W.flag[f].carrier
             t   == W.flag[g]
             ass == Assistant(W, p, f, g)
  <2>0. Held(W)
    BY <1>1 DEF IInv, Sound
  <2>1. p # -1 /\ (t.status = "carried" => t.carrier # -1 /\ t.carrier # p)
    BY <2>0 DEF Held
  <2>2. /\ \A q \in {W.flag[f].prev} \ {-1} : Named(W, f, q) /\ q # p
        /\ \A q \in {t.carrier, t.prev} \ {-1} : Named(W, g, q)
        /\ t.carrier # -1 => t.carrier \in Used(W) /\ W.player[t.carrier].who \in W.by[g]
    BY <1>1, <2>1 DEF Traced
  <2>3. ass # -1 => Team(ass) = Team(p)
    BY DEF Assistant
  <2>4. \/ ass = -1
        \/ ass = t.carrier /\ t.status = "carried"
        \/ ass = t.prev /\ t.prev # p
        \/ ass = W.flag[f].prev
    BY DEF Assistant
  <2> HIDE DEF p, t, ass
  <2>5. ASSUME ass = t.carrier /\ t.status = "carried" PROVE Right(W, f, g, p, ass)
    <3>1. ass # p /\ ass \in Used(W) /\ W.player[ass].who \in W.by[g]
      BY <2>1, <2>2, <2>5
    <3> QED
      BY <3>1 DEF Right
  <2>6. ASSUME ass = t.prev /\ t.prev # p /\ ass # -1 PROVE Right(W, f, g, p, ass)
    <3>1. Named(W, g, ass) /\ ass # p
      BY <2>2, <2>6
    <3> QED
      BY <2>3, <2>6, <3>1 DEF Right, Named
  <2>7. ASSUME ass = W.flag[f].prev /\ ass # -1 PROVE Right(W, f, g, p, ass)
    <3>1. Named(W, f, ass) /\ ass # p
      BY <2>2, <2>7
    <3> QED
      BY <2>3, <2>7, <3>1 DEF Right, Named
  <2>8. Right(W, f, g, p, ass)
    <3>1. ass = -1 => Right(W, f, g, p, ass)
      BY DEF Right
    <3> QED
      BY <2>4, <2>5, <2>6, <2>7, <3>1
  <2> QED
    BY <2>8 DEF ass, p
<1> QED
  BY <1>1, Invariance, NamesAreTraced, PTL

--------------------------------------------------------------------------------
(* Ends of games.                                                                 *)

LEMMA InitPunctual ==
  ASSUME Init
  PROVE  Punctual(W)
<1>1. W.score = [t \in {0, 1} |-> 0] /\ W.clock = 0 /\ rules \in Settings
  BY WorldIs DEF Init
<1>2. W.score[0] = 0 /\ W.score[1] = 0
  BY <1>1
<1>3. \A t \in {0, 1} : W.score[t] = 0
  BY <1>2
<1> QED
  BY <1>1, <1>3, Numbers DEF Punctual, Short, Timely

LEMMA SamePunctual ==
  ASSUME rules' = rules, NEW v, W' = v, Punctual(v)
  PROVE  Punctual(W)'
BY DEF Punctual, Short, Timely, Several, Used

(* No end of a game is passed over while it goes on: the tests for equality of    *)
(* TimeCheck find it in its frame, whoever joins, leaves and scores before, and a *)
(* point that ends the game is noticed when it is made.                           *)
THEOREM EndsAreNoticed == Spec => []Punctual(W)
<1>1. Init => Punctual(W)
  BY InitPunctual
<1>2. IInv /\ Punctual(W) /\ [Next]_vars => Punctual(W)'
  <2> SUFFICES ASSUME IInv, Punctual(W), [Next]_vars PROVE Punctual(W)'
    OBVIOUS
  <2>1. CASE Next
    <3>1. Goes
      BY <2>1, NextGoes
    <3>2. PICK v : W' = v /\ Ends(W, v)
      BY <3>1 DEF Goes
    <3>3. rules' = rules /\ Punctual(v)
      BY <3>1, <3>2 DEF Goes, Ends
    <3> QED
      BY <3>2, <3>3, SamePunctual
  <2>2. CASE UNCHANGED vars
    <3>1. rules' = rules /\ W' = W
      BY <2>2, StutterKeeps
    <3> QED
      BY <3>1, SamePunctual
  <2> QED
    BY <2>1, <2>2
<1> QED
  BY <1>1, <1>2, Invariance, PTL DEF Spec

(* So games of two players and more end by score and by time.                     *)
THEOREM GamesAreEnded == Spec => []GamesEnd
<1>1. ASSUME IInv, Punctual(W) PROVE GamesEnd
  <2> DEFINE T == rules.time_limit
             E == rules.extra_time
             n == current_extra_time_period
  <2> SUFFICES ASSUME Cardinality(Used(W)) >= 2, ~gameover, stage = "messages"
      PROVE  /\ \A t \in {0, 1} : ~ (/\ rules.capture_limit > 0 /\ score[t] >= rules.capture_limit
                                     /\ score[t] - score[1 - t] >= rules.win_score_difference)
             /\ T > 0 /\ clock > T + Periods * E =>
                  E = 0 /\ rules.sudden_death /\ score[0] = score[1]
    BY DEF GamesEnd
  <2>1. Several(W)
    BY SeveralAreTwo
  <2>2. Short(W) /\ Timely(W)
    BY <1>1, WorldIs DEF Punctual
  <2>3. \A t \in {0, 1} : ~ (/\ rules.capture_limit > 0 /\ score[t] >= rules.capture_limit
                             /\ score[t] - score[1 - t] >= rules.win_score_difference)
    BY <2>2, WorldIs DEF Short
  <2>4. /\ T > 0 /\ clock > T =>
             IF E = 0 THEN rules.sudden_death /\ score[0] = score[1] ELSE clock <= T + n * E
    BY <2>1, <2>2, WorldIs DEF Timely
  <2>5. rules \in Settings /\ W \in Worlds
    BY <1>1, IInvIsGood DEF Good, Sound
  <2>6. /\ T \in Nat /\ E \in Nat /\ clock \in Nat /\ n \in Nat /\ n <= Periods
        /\ Periods \in Nat
    BY <2>5, Numbers, NumbersOf, Ruled, WorldIs
  <2> HIDE DEF T, E, n
  <2>7. n * E \in Nat /\ Periods * E \in Nat /\ n * E <= Periods * E
    <3>1. PICK k \in Nat : Periods = n + k
      <4>1. Periods - n \in Nat /\ Periods = n + (Periods - n)
        BY <2>6
      <4> QED
        BY <4>1
    <3>2. Periods * E = n * E + k * E
      BY <2>6, <3>1
    <3>3. n * E \in Nat /\ k * E \in Nat
      BY <2>6, <3>1
    <3> QED
      BY <3>2, <3>3
  <2> QED
    BY <2>3, <2>4, <2>6, <2>7
<1> QED
  BY <1>1, Invariance, EndsAreNoticed, PTL

--------------------------------------------------------------------------------
(* FlagGame.                                                                      *)

Holders == [f \in Flags |-> Holder(f)]

LEMMA HoldersAre ==
  ASSUME W \in Worlds
  PROVE  /\ DOMAIN Holders = Flags
         /\ \A f \in Flags : Holders[f] = HolderIn(W, f)
<1>1. ASSUME NEW f \in Flags PROVE Holder(f) = HolderIn(W, f)
  BY WorldIs DEF Holder, HolderIn
<1> QED
  BY <1>1 DEF Holders

LEMMA HoldersWillBe ==
  ASSUME rules' = rules, NEW v \in Worlds, W' = v
  PROVE  /\ Holders' \in [Flags -> {HolderIn(v, f) : f \in Flags}]
         /\ \A f \in Flags : Holders'[f] = HolderIn(v, f)
         /\ score' = v.score
<1>0. Flags' = Flags
  BY DEF Flags
<1>1. flag' = v.flag /\ player' = v.player /\ score' = v.score
  BY DEF W
<1>2. ASSUME NEW f \in Flags PROVE Holder(f)' = HolderIn(v, f)
  BY <1>1 DEF Holder, HolderIn
<1>3. Holders' = [f \in Flags |-> HolderIn(v, f)]
  BY <1>0, <1>2 DEF Holders
<1> QED
  BY <1>1, <1>3

LEMMA StepsAreGames ==
  ASSUME IInv, Goes
  PROVE  [Game!Next]_<<Holders, score>>
<1>0. Good(W) /\ W \in Worlds /\ W.score = score
  BY IInvIsGood, WorldIs DEF Good, Sound
<1>1. PICK v : W' = v /\ Good(v) /\ Plays(W, v)
  BY DEF Goes, Ends, Leads
<1>2. v \in Worlds /\ rules' = rules
  BY <1>1 DEF Good, Sound, Goes
<1>3. /\ DOMAIN Holders = Flags /\ \A f \in Flags : Holders[f] = HolderIn(W, f)
  BY <1>0, HoldersAre
<1>4. /\ Holders' = [f \in Flags |-> HolderIn(v, f)]
      /\ \A f \in Flags : Holders'[f] = HolderIn(v, f)
      /\ score' = v.score
  <2>1. Holders' \in [Flags -> {HolderIn(v, f) : f \in Flags}]
        /\ (\A f \in Flags : Holders'[f] = HolderIn(v, f)) /\ score' = v.score
    BY <1>1, <1>2, HoldersWillBe
  <2> QED
    BY <2>1
<1>5. Holders = [f \in Flags |-> Holders[f]]
  BY DEF Holders
<1>6. CASE Lower(W, v)
  <2> DEFINE F == {f \in Flags : Holders'[f] # Holders[f]}
  <2>1. F \in SUBSET DOMAIN Holders /\ \A f \in F : Holders[f] \in Person
    BY <1>3, <1>4, <1>6 DEF Lower
  <2>2. Holders' = [f \in DOMAIN Holders |-> IF f \in F THEN "ground" ELSE Holders[f]]
    BY <1>3, <1>4, <1>6 DEF Lower
  <2>3. score' = score
    BY <1>0, <1>4, <1>6 DEF Lower
  <2> HIDE DEF F
  <2>4. Game!Drop(F)
    BY <2>1, <2>2, <2>3 DEF Game!Drop, Game!Flag, Holders
  <2>5. F \in SUBSET Game!Flag
    BY <2>1 DEF Game!Flag, Holders
  <2> QED
    BY <2>4, <2>5 DEF Game!Next
<1>7. CASE Level(v)
  <2>1. Holders' = [f \in DOMAIN Holders |-> "base"] /\ score' = [t \in {0, 1} |-> 0]
    BY <1>3, <1>4, <1>7 DEF Level
  <2>2. Game!NewGame
    BY <2>1 DEF Game!NewGame, Game!FlagsAtBase, Game!Flag, Holders
  <2> QED
    BY <2>2 DEF Game!Next
<1>8. ASSUME NEW f \in Flags, NEW who \in Person, Took(W, v, f, who)
      PROVE  Game!Next
  <2>1. /\ Holders[f] \in {"base", "ground"} /\ \A g \in DOMAIN Holders : Holders[g] # who
        /\ score' = score
    BY <1>0, <1>3, <1>4, <1>8 DEF Took
  <2>2. Holders' = [Holders EXCEPT ![f] = who]
    BY <1>3, <1>4, <1>5, <1>8 DEF Took, LeftAlone
  <2>3. Game!Take(f, who)
    BY <2>1, <2>2 DEF Game!Take, Game!Free, Game!Flag, Holders
  <2>4. f \in Game!Flag
    BY <1>3 DEF Game!Flag, Holders
  <2> QED
    BY <2>3, <2>4 DEF Game!Next
<1>9. ASSUME NEW f \in Flags, Gave(W, v, f)
      PROVE  Game!Next
  <2>1. Holders[f] = "ground" /\ score' = score
    BY <1>0, <1>3, <1>4, <1>9 DEF Gave
  <2>2. Holders' = [Holders EXCEPT ![f] = "base"]
    BY <1>3, <1>4, <1>5, <1>9 DEF Gave, LeftAlone
  <2>3. Game!Return(f)
    BY <2>1, <2>2 DEF Game!Return, Holders
  <2>4. f \in Game!Flag
    BY <1>3 DEF Game!Flag, Holders
  <2> QED
    BY <2>3, <2>4 DEF Game!Next
<1>10. ASSUME NEW f \in Flags, NEW g \in Flags, NEW t \in {0, 1}, Brought(W, v, f, g, t)
       PROVE  Game!Next
  <2>1. /\ f # g /\ Holders[f] \in Person
        /\ score' = [score EXCEPT ![t] = score[t] + 1]
    BY <1>0, <1>3, <1>4, <1>10 DEF Brought
  <2>2. Holders' = [Holders EXCEPT ![f] = "base", ![g] = "base"]
    BY <1>3, <1>4, <1>5, <1>10 DEF Brought, LeftAlone
  <2>3. Game!Capture(f, g, t)
    BY <2>1, <2>2 DEF Game!Capture, Holders
  <2>4. f \in Game!Flag /\ g \in Game!Flag
    BY <1>3 DEF Game!Flag, Holders
  <2> QED
    BY <2>3, <2>4 DEF Game!Next
<1>11. ASSUME NEW f \in Flags, NEW t \in {0, 1}, Pointed(W, v, f, t)
       PROVE  Game!Next
  <2>1. /\ Holders[f] \in Person
        /\ score' = [score EXCEPT ![t] = score[t] + 1]
    BY <1>0, <1>3, <1>4, <1>11 DEF Pointed
  <2>2. Holders' = Holders
    BY <1>3, <1>4, <1>5, <1>11 DEF Pointed, LeftAlone
  <2>3. Game!Point(f, t)
    BY <2>1, <2>2 DEF Game!Point, Holders
  <2>4. f \in Game!Flag
    BY <1>3 DEF Game!Flag, Holders
  <2> QED
    BY <2>3, <2>4 DEF Game!Next
<1> QED
  BY <1>1, <1>6, <1>7, <1>8, <1>9, <1>10, <1>11 DEF Plays

LEMMA StutterIsGame ==
  ASSUME IInv, UNCHANGED vars
  PROVE  UNCHANGED <<Holders, score>>
<1>1. /\ W \in Worlds /\ W' = W /\ rules' = rules
  BY StutterKeeps DEF IInv, Sound
<1>2. /\ DOMAIN Holders = Flags /\ \A f \in Flags : Holders[f] = HolderIn(W, f)
  BY <1>1, HoldersAre
<1>3. /\ Holders' \in [Flags -> {HolderIn(W, f) : f \in Flags}]
      /\ (\A f \in Flags : Holders'[f] = HolderIn(W, f))
  BY <1>1, HoldersWillBe
<1>4. Holders = [f \in Flags |-> Holders[f]]
  BY DEF Holders
<1> QED
  BY <1>2, <1>3, <1>4 DEF vars

LEMMA InitIsGame ==
  ASSUME Init
  PROVE  Game!Init
<1>1. \A f \in Flags : Holder(f) = "base"
  BY DEF Init, Holder, AtBase
<1> QED
  BY <1>1 DEF Game!Init, Game!Flag, Init

(* The world is a game of flags: whatever happens to players and maps, each flag  *)
(* is at its base, on the ground or with one player, moves from one to the other  *)
(* as the rules say, and every point is scored by somebody who held a flag.       *)
THEOREM Refinement == Spec => ImplementsFlagGame
<1>1. Init => Game!Init
  BY InitIsGame
<1>2. IInv /\ [Next]_vars => [Game!Next]_<<[f \in Flags |-> Holder(f)], score>>
  <2>1. IInv /\ [Next]_vars => [Game!Next]_<<Holders, score>>
    BY NextGoes, StepsAreGames, StutterIsGame
  <2> QED
    BY <2>1 DEF Holders
<1> QED
  BY <1>1, <1>2, Invariance, PTL DEF Spec, ImplementsFlagGame, Game!Spec

--------------------------------------------------------------------------------
(* The votes, through the messages.                                               *)

LEMMA MindedRanged ==
  ASSUME rules \in Settings, NEW w, Sane(w), NEW p \in Used(w), NEW exit \in BOOLEAN,
         NEW vote \in {-1} \cup 1 .. Cardinality(rules.maps),
         Ranged(w) => vote \in {-1} \cup DOMAIN w.maprot,
         NEW v, v = Minded(w, p, exit, vote)
  PROVE  v.failed = w.failed /\ (Ranged(w) => Ranged(v))
<1> DEFINE P == [w.player EXCEPT ![p] = [w.player[p] EXCEPT !.want_map_exit = exit,
                                                            !.mapVote = vote]]
<1>0. w \in Worlds
  BY DEF Sane
<1>1. p \in Pid /\ w.player[p] \in Player /\ w.player[p] # None
  BY <1>0, PlayersOf
<1>2. v = [w EXCEPT !.player = P]
  BY <1>0, <1>1 DEF Minded, Worlds
<1>3. P[p].mapVote = vote /\ \A q \in Pid : q # p => P[q] = w.player[q]
  BY <1>0, <1>1 DEF Worlds, Player
<1> HIDE DEF P
<1>4. v.player = P /\ v.failed = w.failed /\ v.maprot = w.maprot
  BY <1>0, <1>2 DEF Worlds
<1>5. \A q \in Used(v) : q = p \/ (q \in Used(w) /\ v.player[q] = w.player[q])
  BY <1>3, <1>4 DEF Used
<1> QED
  BY <1>3, <1>4, <1>5 DEF Ranged

LEMMA MindedTells ==
  ASSUME rules \in Settings, NEW w, Sane(w), NEW p \in Used(w), NEW exit \in BOOLEAN,
         NEW vote \in {-1} \cup 1 .. Cardinality(rules.maps),
         Ranged(w) => vote \in {-1} \cup DOMAIN w.maprot,
         NEW z \in CheckMapExit(Minded(w, p, exit, vote))
  PROVE  Tells(w, z)
<1> DEFINE v == Minded(w, p, exit, vote)
<1>1. GoesOn(w, v)
  BY MindedGoesOn
<1>2. v.failed = w.failed /\ (Ranged(w) => Ranged(v))
  BY MindedRanged
<1> HIDE DEF v
<1>3. Sane(v)
  BY <1>1, GoesOnIsSane
<1>4. z \in CheckMapExit(v)
  BY DEF v
<1>5. Answers(v, z) /\ Sane(z)
  BY <1>3, <1>4, CheckMapExitAnswers, CheckMapExitGoesOn, GoesOnIsSane
<1>6. Answers(w, z)
  BY <1>2, <1>5 DEF Answers
<1> QED
  BY <1>5, <1>6, AnswersTells

(* An administrator's votes are more than those of all players.                   *)
LEMMA FewPlayers ==
  ASSUME NEW S \in SUBSET Pid
  PROVE  Cardinality(S) \in Nat /\ Cardinality(S) < 99
<1>1. maxplayers \in Nat /\ maxplayers >= 2 /\ maxplayers < 99
  BY PlayersAssumption
<1>2. IsFiniteSet(Pid) /\ Cardinality(Pid) = maxplayers
  <2>1. 0 \in Int /\ maxplayers - 1 \in Int
    BY <1>1
  <2>2. IsFiniteSet(0 .. (maxplayers - 1))
        /\ Cardinality(0 .. (maxplayers - 1)) = IF 0 > maxplayers - 1 THEN 0 ELSE (maxplayers - 1) - 0 + 1
    BY <2>1, FS_Interval
  <2> QED
    BY <1>1, <2>2 DEF Pid
<1>3. IsFiniteSet(S) /\ Cardinality(S) <= Cardinality(Pid)
  BY <1>2, FS_Subset
<1>4. Cardinality(S) \in Nat
  BY <1>3, FS_CardinalityType
<1> QED
  BY <1>1, <1>2, <1>3, <1>4

LEMMA ForcedWins ==
  ASSUME rules \in Settings, NEW w, Sane(w), Counted(w), NEW i \in DOMAIN w.maprot,
         NEW v, v = Forced(w, i)
  PROVE  Winners(v) = {i} /\ Tallied(v, {}, {i})
<1> DEFINE M == [w.maprot EXCEPT ![i].votes = 99]
           L == {}
<1>0. w \in Worlds
  BY DEF Sane
<1>1. v = [w EXCEPT !.maprot = M]
  BY <1>0 DEF Forced, Worlds
<1>2. \A j \in DOMAIN w.maprot : w.maprot[j] \in MapEntry
  BY <1>0, MapsOf
<1>3. /\ DOMAIN M = DOMAIN w.maprot /\ M[i].votes = 99
      /\ \A j \in DOMAIN w.maprot : j # i => M[j] = w.maprot[j]
  BY <1>2 DEF MapEntry
<1>l. L = {}
  OBVIOUS
<1> HIDE DEF M, L
<1>4. v.maprot = M /\ v.player = w.player
  BY <1>0, <1>1 DEF Worlds
<1>5. Used(v) = Used(w)
  BY <1>4 DEF Used
<1>6. \A j \in DOMAIN w.maprot : w.maprot[j].votes \in Nat /\ w.maprot[j].votes < 99
  <2> SUFFICES ASSUME NEW j \in DOMAIN w.maprot
      PROVE  w.maprot[j].votes \in Nat /\ w.maprot[j].votes < 99
    OBVIOUS
  <2>1. w.maprot[j].votes = Cardinality(Backers(w, j))
    BY DEF Counted
  <2>2. Backers(w, j) \in SUBSET Pid
    BY DEF Backers, Used
  <2> QED
    BY <2>1, <2>2, FewPlayers
<1> DEFINE V == {v.maprot[j].votes : j \in DOMAIN v.maprot}
           most == Max(V)
           winners == {j \in DOMAIN v.maprot : v.maprot[j].votes = most}
<1>7. most = 99
  <2>1. 99 \in V /\ \A n \in V : n \in Nat /\ n <= 99
    BY <1>3, <1>4, <1>6
  <2> HIDE DEF V
  <2>2. \A m \in V : (\A n \in V : m >= n) => m = 99
    BY <2>1
  <2>3. \E m \in V : \A n \in V : m >= n
    BY <2>1
  <2> QED
    BY <2>2, <2>3 DEF Max
<1> HIDE DEF most
<1>8. winners = {i}
  BY <1>3, <1>4, <1>6, <1>7
<1>9. Winners(v) = IF most > 0 /\ Cardinality(winners) > 1 THEN winners \ {v.currmap} ELSE winners
  BY DEF Winners, most
<1>10. Cardinality({i}) = 1
  BY FS_Singleton
<1> HIDE DEF winners
<1>11. Winners(v) = {i}
  BY <1>8, <1>9, <1>10
<1>12. Tallied(w, L, L)
  BY <1>l, TalliedIsCounted
<1>13. \A j : Backing(v, j, L) = Backing(w, j, L)
  BY <1>4, <1>5 DEF Backing
<1>14. Tallied(v, L, {i})
  BY <1>3, <1>4, <1>5, <1>12, <1>13, <1>l DEF Tallied
<1> QED
  BY <1>11, <1>14 DEF L

LEMMA ForcedTells ==
  ASSUME rules \in Settings, NEW w, Sane(w), NEW i \in DOMAIN w.maprot,
         NEW z \in ServerNextMap(Forced(w, i))
  PROVE  Tells(w, z)
<1> DEFINE v == Forced(w, i)
<1>1. Sane(v)
  BY ForcedIsSane
<1>2. v.failed = w.failed
  BY DEF Forced, Sane, Worlds
<1>3. Counted(w) => Winners(v) = {i} /\ Tallied(v, {}, {i})
  BY ForcedWins
<1> HIDE DEF v
<1>4. z \in ServerNextMap(v)
  BY DEF v
<1>5. CASE Counted(w)
  <2>1. \A j \in Winners(v) : \E I : Tallied(v, {}, I) /\ I \subseteq {j}
    BY <1>3, <1>5
  <2>2. Settles(v, z)
    BY <1>1, <1>4, <2>1, NextMapSettles
  <2>3. Settles(w, z)
    BY <1>2, <2>2 DEF Settles
  <2> QED
    BY <2>3, SettlesTells
<1>6. CASE ~Counted(w)
  BY <1>1, <1>2, <1>4, <1>6, NextMapFails DEF Tells, Polled
<1> QED
  BY <1>5, <1>6

LEMMA ResumesRanged ==
  ASSUME NEW w, NEW z, Resumes(w, z), Ranged(w)
  PROVE  Ranged(z)
<1> SUFFICES ASSUME NEW q \in Used(z)
    PROVE  z.player[q].mapVote \in {-1} \cup DOMAIN z.maprot
  BY DEF Ranged
<1>1. PICK p \in Used(w) : Alter(z.player[q], w.player[p])
  BY DEF Resumes, Reseated
<1> QED
  BY <1>1 DEF Resumes, Alter, Ranged

(* Those who stay when a player leaves keep their votes.                          *)
LEMMA RemoveRanged ==
  ASSUME rules \in Settings, NEW w, Sound(w), NEW p \in Used(w), NEW v, v = RemovePlayer(w, p)
  PROVE  v.failed = w.failed /\ (Ranged(w) => Ranged(v))
<1> DEFINE b == Bereft(w, p)
           d == DropFlagIfAny(b, p)
           u == ResetCarrierData(d, p)
<1>0. w \in Worlds /\ p \in Pid
  BY PlayersOf DEF Sound
<1>1. /\ Alike(w, b) /\ Unmoved(w, b)
      /\ Owned(w) => Owned(b)
      /\ Calm(w) => Calm(b)
  BY <1>0, BereftKeeps, BereftUnmoved
<1>2. v = Emptied(d, p)
  BY RemovedIs
<1>3. Follows(w, v)
  BY RemoveFollows
<1> HIDE DEF b
<1>4. Sound(b) /\ p \in Used(b)
  BY <1>1, AlikeFollows DEF Follows, Alike
<1>5. Keeps(b, d)
  BY <1>4, DropKeeps
<1>6. v = [u EXCEPT !.player[p] = None]
  BY <1>2 DEF Emptied
<1> HIDE DEF d
<1>7. d \in Worlds
  BY <1>5 DEF Keeps, Follows, Sound
<1>8. u \in Worlds /\ u.player = d.player
  BY <1>0, <1>7, ForgetsCarriers
<1> HIDE DEF u
<1>9. \A q \in Used(v) : q \in Used(d) /\ v.player[q] = d.player[q]
  <2> DEFINE P == [u.player EXCEPT ![p] = None]
  <2>1. v = [u EXCEPT !.player = P]
    BY <1>6, <1>8 DEF Worlds
  <2>2. P[p] = None /\ \A q \in Pid : q # p => P[q] = u.player[q]
    BY <1>0, <1>8 DEF Worlds
  <2> HIDE DEF P
  <2>3. v.player = P
    BY <1>8, <2>1 DEF Worlds
  <2> QED
    BY <1>8, <2>2, <2>3 DEF Used
<1>10. ASSUME Ranged(w), NEW q \in Used(v)
       PROVE  v.player[q].mapVote \in {-1} \cup DOMAIN v.maprot
  <2>1. PICK r \in Used(b) : Alter(d.player[q], b.player[r])
    BY <1>5, <1>9, <1>10 DEF Keeps, Reseated
  <2>2. r \in Used(w) /\ Alter(b.player[r], w.player[r])
    BY <1>1, <2>1 DEF Unmoved, Seated
  <2>3. v.player[q].mapVote = w.player[r].mapVote
    BY <1>9, <1>10, <2>1, <2>2 DEF Alter
  <2> QED
    BY <1>3, <1>10, <2>2, <2>3 DEF Ranged, Follows, Rest
<1> QED
  BY <1>3, <1>10 DEF Ranged, Follows, Rest

LEMMA ForgetRanged ==
  ASSUME NEW w, Sound(w), NEW who, NEW v, v = Forget(w, who)
  PROVE  v.failed = w.failed /\ (Ranged(w) => Ranged(v))
<1>1. Follows(w, v) /\ Used(v) = Used(w)
  BY ForgetFollows
<1>2. v.player = w.player
  BY DEF Forget, Sound, Worlds
<1> QED
  BY <1>1, <1>2 DEF Ranged, Follows, Rest

LEMMA LeaveTells ==
  ASSUME rules \in Settings, NEW w, Sound(w), NEW p \in Used(w), NEW who,
         NEW v, v = Forget(RemovePlayer(w, p), who),
         NEW u, u = v \/ u \in TeamChange(v), NEW z \in CheckMapExit(u)
  PROVE  Tells(w, z)
<1> DEFINE r == RemovePlayer(w, p)
<1>1. Follows(w, r)
  BY RemoveFollows
<1>2. r.failed = w.failed /\ (Ranged(w) => Ranged(r))
  BY RemoveRanged
<1>3. v = Forget(r, who)
  OBVIOUS
<1> HIDE DEF r
<1>4. Sound(r)
  BY <1>1 DEF Follows
<1>5. v.failed = r.failed /\ (Ranged(r) => Ranged(v))
  BY <1>3, <1>4, ForgetRanged
<1>6. Sound(v)
  BY <1>3, <1>4, ForgetFollows DEF Follows
<1>7. Keeps(v, u)
  BY <1>6, NothingKeeps, TeamChangeKeeps
<1>8. Resumes(v, u)
  BY <1>7, KeepsResumes
<1>9. u.failed = v.failed /\ (Ranged(v) => Ranged(u))
  BY <1>8, ResumesRanged DEF Resumes
<1>10. Sane(u)
  BY <1>7, SoundIsSane DEF Keeps, Follows
<1>11. Answers(u, z) /\ Sane(z)
  BY <1>10, CheckMapExitAnswers, CheckMapExitGoesOn, GoesOnIsSane
<1>12. Answers(w, z)
  BY <1>2, <1>5, <1>9, <1>11 DEF Answers
<1> QED
  BY <1>11, <1>12, AnswersTells

(* A new player wants nothing.                                                    *)
LEMMA AddedTells ==
  ASSUME rules \in Settings, NEW w, Sound(w), NEW who \in Person,
         \A q \in Used(w) : w.player[q].who # who,
         NEW p \in Pid \ Used(w), NEW v, v = Added(w, p, who)
  PROVE  Tells(w, v)
<1>1. /\ Follows(w, v) /\ Used(v) = Used(w) \cup {p}
      /\ \A q \in Used(w) : v.player[q] = w.player[q]
  BY AddedFollows
<1>2. /\ v.maprot = w.maprot /\ v.failed = w.failed /\ v.clock = w.clock /\ v.missed = w.missed
  BY <1>1 DEF Follows, Rest
<1>3. w \in Worlds /\ v \in Worlds
  BY <1>1 DEF Follows, Sound
<1>4. v.player[p].mapVote = -1 /\ ~v.player[p].want_map_exit
  <2> DEFINE n == NewPlayer(who)
             P == [w.player EXCEPT ![p] = n]
  <2>1. v = [w EXCEPT !.player = P]
    BY DEF Added
  <2>2. n.mapVote = -1 /\ n.want_map_exit = FALSE
    BY DEF NewPlayer
  <2> HIDE DEF n
  <2>3. P[p] = n
    BY <1>3 DEF Worlds
  <2> HIDE DEF P
  <2>4. v.player = P
    BY <1>3, <2>1 DEF Worlds
  <2> QED
    BY <2>2, <2>3, <2>4
<1>5. InFavor(v) = InFavor(w)
  BY <1>1, <1>4 DEF InFavor
<1>6. Lessens(w, v) /\ w.clock \in Nat /\ v.clock \in Nat
  <2>1. w.clock \in Nat
    BY <1>3, NumbersOf
  <2>2. IsFiniteSet(Used(v)) /\ Used(w) \in SUBSET Used(v)
    BY <1>1, FavorsOf
  <2>3. Cardinality(Used(w)) <= Cardinality(Used(v))
    BY <2>2, FS_Subset
  <2>4. Cardinality(InFavor(w)) \in Nat /\ Cardinality(Used(w)) \in Nat /\ Cardinality(Used(v)) \in Nat
    BY FavorsOf
  <2> QED
    BY <1>2, <1>5, <2>1, <2>3, <2>4 DEF Lessens
<1>7. ASSUME Counted(w) PROVE Counted(v)
  <2>1. Ranged(v)
    BY <1>1, <1>2, <1>4, <1>7 DEF Counted, Ranged
  <2>2. ASSUME NEW i \in DOMAIN v.maprot
        PROVE  v.maprot[i].votes = Cardinality(Backers(v, i))
    <3>1. i # -1
      BY <1>3, <2>2, MapsOf
    <3>2. Backers(v, i) = Backers(w, i)
      BY <1>1, <1>4, <3>1 DEF Backers
    <3> QED
      BY <1>2, <1>7, <2>2, <3>2 DEF Counted
  <2> QED
    BY <2>1, <2>2 DEF Counted
<1>8. Heard(w) => Heard(v)
  BY <1>6, LessensHeard
<1> QED
  BY <1>2, <1>7, <1>8 DEF Tells, Polled

LEMMA AtStartResumes ==
  ASSUME rules \in Settings, NEW d, Sane(d), NEW e, e = AtStart(d)
  PROVE  Sane(e) /\ Resumes(d, e)
<1>1. 0 \in 0 .. MaxClock
  BY Ruled
<1>2. /\ e \in Worlds /\ e.player = d.player /\ e.failed = d.failed /\ e.clock = 0
      /\ e.maprot = d.maprot /\ e.missed = d.missed
  BY <1>1 DEF AtStart, Worlds, Sane
<1>3. Used(e) = Used(d)
  BY <1>2 DEF Used
<1>4. Seated(d, e)
  BY <1>2, <1>3 DEF Seated, Alter
<1> QED
  BY <1>2, <1>3, <1>4, SeatedResumes DEF Sane, Distinct

LEMMA JoinTells ==
  ASSUME rules \in Settings, NEW w, Good(w), NEW who \in Person,
         \A q \in Used(w) : w.player[q].who # who,
         NEW t \in {0, 1}, Cardinality(Members(w, t)) <= Cardinality(Members(w, 1 - t)),
         FreePlaces(w, t) # {},
         NEW v \in Second(Added(w, Min(FreePlaces(w, t)), who)),
         NEW z, z = v \/ z \in TeamChange(v)
  PROVE  Tells(w, z)
<1> DEFINE p == Min(FreePlaces(w, t))
           a == Added(w, p, who)
<1>0. Sound(w) /\ p \in Pid \ Used(w) /\ Team(p) = t
  BY FreePlaceIsFree DEF Good
<1>v. \/ v = a
      \/ Cardinality(Used(a)) = 2 /\ (\E c \in CtfGameRestart(a) : v = AtStart(c))
  BY DEF Second, AtStart
<1> HIDE DEF p
<1>1. a = Added(w, p, who)
  OBVIOUS
<1> HIDE DEF a
<1>2. /\ Follows(w, a) /\ Used(a) = Used(w) \cup {p}
      /\ Tells(w, a)
  BY <1>0, <1>1, AddedFollows, AddedTells
<1>3. Sane(a)
  BY <1>2, SoundIsSane DEF Follows
<1>4. Sound(v) /\ Tells(a, v)
  <2>1. CASE v = a
    BY <1>2, <2>1 DEF Follows, Tells
  <2>2. ASSUME Cardinality(Used(a)) = 2, NEW c \in CtfGameRestart(a), v = AtStart(c)
        PROVE  Sound(v) /\ Tells(a, v)
    <3>1. ~Uneven(a)
      BY <1>0, <1>2, <2>2, SecondIsEven
    <3>2. Fresh(c) /\ c.maprot = a.maprot /\ c.currmap = a.currmap /\ Resumes(a, c)
      BY <1>3, <2>2, <3>1, RestartIsFresh
    <3>3. Mapped(c)
      BY <1>2, <3>2 DEF Follows, Rest, Good, Mapped
    <3>4. Sound(v)
      BY <2>2, <3>2, <3>3, AtStartIsFresh DEF Good
    <3>5. Sane(c)
      BY <3>2, SoundIsSane DEF Fresh
    <3>6. Sane(v) /\ Resumes(c, v)
      BY <2>2, <3>5, AtStartResumes
    <3>7. Resumes(a, v)
      BY <3>2, <3>6, ResumesTwice
    <3> QED
      BY <1>3, <3>4, <3>6, <3>7, SaneResumes
  <2> QED
    BY <1>v, <2>1, <2>2
<1>5. Keeps(v, z)
  BY <1>4, NothingKeeps, TeamChangeKeeps
<1>6. Tells(v, z)
  BY <1>4, <1>5, KeepsResumes, SaneResumes, SoundIsSane DEF Keeps, Follows
<1> QED
  BY <1>2, <1>4, <1>6, TellsTwice

(* Flags and points.                                                              *)
LEMMA ScoredTells ==
  ASSUME rules \in Settings, NEW w, Good(w), NEW y, Good(y), Resumes(w, y), NEW t,
         NEW z, z = y \/ z \in AfterScore(y, t)
  PROVE  Tells(w, z)
<1>1. Sane(w) /\ Sane(y)
  BY SoundIsSane DEF Good
<1>2. Tells(w, y)
  BY <1>1, SaneResumes
<1>3. z = y \/ z \in ServerNextMap(y)
  BY DEF AfterScore
<1>4. z \in ServerNextMap(y) => Tells(y, z)
  BY <1>1, NextMapTells
<1> QED
  BY <1>2, <1>3, <1>4, TellsTwice

LEMMA CaptureTells ==
  ASSUME rules \in Settings, NEW w, Good(w), NEW p \in Alive(w), NEW f \in Flags,
         w.flag[f].carrier = p,
         NEW kind \in TargetKinds(p, f), NEW g \in Targets(w, p, f, kind[1], kind[2]),
         NEW z \in CaptureAt(w, p, f, g, kind[1] # kind[2])
  PROVE  Tells(w, z)
<1>0. w \in Worlds /\ Sound(w) /\ p \in Used(w) /\ p \in Pid
  BY PlayersOf DEF Good, Sound, Alive
<1>1. g \in Flags /\ g # f /\ (kind[1] # kind[2] => w.flag[g].status # "carried")
  BY <1>0, TargetsOf
<1> DEFINE reverse == kind[1] # kind[2]
<1>2. reverse \in BOOLEAN /\ z \in CaptureAt(w, p, f, g, reverse)
      /\ (reverse => w.flag[g].status # "carried")
  BY <1>1
<1> HIDE DEF reverse
<1>3. PICK y : BroughtHome(w, y, f, g, p) /\ Holds(w, y) /\ z \in AfterScore(y, Team(p))
  BY <1>0, <1>1, <1>2, CaptureIs
<1>4. Leads(w, y) /\ Scores(w, y, Team(p))
  BY <1>1, <1>3, HomeLeads
<1>5. y.failed = w.failed
  BY <1>3 DEF BroughtHome, Home
<1>6. Resumes(w, y)
  BY <1>3, <1>5, SeatedResumes DEF Holds
<1> QED
  BY <1>3, <1>4, <1>6, ScoredTells DEF Leads

LEMMA CarryingPointTells ==
  ASSUME rules \in Settings, NEW w, Good(w), NEW f \in Flags, w.flag[f].status = "carried",
         NEW t, t = Team(w.flag[f].carrier), NEW z \in AfterScore(CarryingPoint(w, t), t)
  PROVE  Tells(w, z)
<1> DEFINE v == CarryingPoint(w, t)
<1>1. Good(v)
  BY OutscoredLeads DEF Leads
<1>2. /\ v.player = w.player /\ v.maprot = w.maprot /\ v.missed = w.missed
      /\ v.failed = w.failed /\ v.clock = w.clock
  BY DEF CarryingPoint, Good, Sound, Worlds
<1>3. z \in AfterScore(v, t)
  OBVIOUS
<1> HIDE DEF v
<1>4. Resumes(w, v)
  <2>1. Seated(w, v)
    BY <1>2 DEF Seated, Alter, Used
  <2> QED
    BY <1>2, <2>1, SeatedResumes
<1> QED
  BY <1>1, <1>3, <1>4, ScoredTells

LEMMA StealTells ==
  ASSUME rules \in Settings, NEW w, Good(w), NEW p \in Alive(w), ~HasFlag(w, p),
         NEW f \in Flags, NEW v, Good(v), v = Steal(w, p, f)
  PROVE  Tells(w, v)
<1> DEFINE c == Kind(p, f)
           P == [w.player EXCEPT ![p].carriedFlag = c]
           F == [w.flag EXCEPT ![f] = Taken(w.flag[f], p)]
           B == [w.by EXCEPT ![f] = w.by[f] \cup {w.player[p].who}]
<1>0. w \in Worlds /\ p \in Used(w)
  BY DEF Good, Sound, Alive
<1>1. p \in Pid /\ w.player[p] \in Player /\ w.player[p] # None
  BY <1>0, PlayersOf
<1>2. v = [w EXCEPT !.player = P, !.flag = F, !.by = B]
  BY <1>0, <1>1 DEF Steal, Worlds
<1>3. c \in {"own", "enemy", "wild"}
  BY DEF Kind
<1> HIDE DEF c
<1>4. P[p] \in Player /\ \A q \in Pid : q # p => P[q] = w.player[q]
  BY <1>0, <1>1, <1>3 DEF Worlds, Player
<1>p. P = [w.player EXCEPT ![p].carriedFlag = c]
  OBVIOUS
<1> HIDE DEF P, F, B
<1>5. /\ v.player = P /\ v.maprot = w.maprot /\ v.missed = w.missed
      /\ v.failed = w.failed /\ v.clock = w.clock
  BY <1>0, <1>2 DEF Worlds
<1>6. \A q \in Pid : P[q] = None <=> w.player[q] = None
  BY <1>1, <1>4, Names
<1>7. Used(v) = Used(w)
  BY <1>5, <1>6 DEF Used
<1>8. Seated(w, v)
  BY <1>0, <1>5, <1>7, <1>p, LoweredSeated
<1>9. Resumes(w, v)
  BY <1>5, <1>8, SeatedResumes
<1> QED
  BY <1>9, SaneResumes, SoundIsSane DEF Good

LEMMA ReturnTells ==
  ASSUME rules \in Settings, NEW w, Good(w), NEW f \in Flags, NEW v, Good(v), v = ReturnFlag(w, f)
  PROVE  Tells(w, v)
<1>0. w \in Worlds
  BY DEF Good, Sound
<1>1. Holds(w, v)
  BY <1>0, ReturnHolds
<1>2. v.failed = w.failed
  BY <1>0 DEF ReturnFlag, Worlds
<1>3. Resumes(w, v)
  BY <1>1, <1>2, SeatedResumes DEF Holds
<1> QED
  BY <1>3, SaneResumes, SoundIsSane DEF Good

LEMMA BeginsTells ==
  ASSUME rules \in Settings, NEW w, Good(w), NEW v, Good(v), v = Begins(w)
  PROVE  Tells(w, v)
<1> DEFINE c == IF w.over THEN 0 ELSE w.clock
<1>0. w \in Worlds /\ c \in {0, w.clock}
  BY DEF Good, Sound
<1>1. v = [w EXCEPT !.over = FALSE, !.clock = c]
  BY DEF Begins
<1> HIDE DEF c
<1>2. /\ v.player = w.player /\ v.maprot = w.maprot /\ v.missed = w.missed
      /\ v.failed = w.failed /\ v.clock = c
  BY <1>0, <1>1 DEF Worlds
<1>3. Seated(w, v)
  BY <1>2 DEF Seated, Alter, Used
<1>4. Resumes(w, v)
  BY <1>0, <1>2, <1>3, SeatedResumes
<1> QED
  BY <1>4, SaneResumes, SoundIsSane DEF Good

LEMMA ReloadTells ==
  ASSUME rules \in Settings, NEW w, Sane(w), NEW files \in Lists, NEW z \in ResetSettings(w, files)
  PROVE  Tells(w, z)
<1>1. Recounts(w, z)
  BY ResetSettingsRecounts
<1>2. w.clock \in Nat
  BY NumbersOf DEF Sane
<1>3. z.failed = "none" /\ Heard(w) => Heard(z)
  BY <1>1, <1>2, LessensHeard DEF Recounts
<1> QED
  BY <1>1, <1>3 DEF Recounts, Tells, Polled

--------------------------------------------------------------------------------
(* What every step does about votes.                                              *)
Telling == /\ rules' = rules
           /\ failed' = "none" => failed = "none" /\ (Polled(W) => Polled(W)')

LEMMA SamePolled ==
  ASSUME rules' = rules, NEW v, W'.player = v.player, W'.maprot = v.maprot, W'.missed = v.missed,
         W'.clock = v.clock, Polled(v)
  PROVE  Polled(W)'
<1>1. Used(W)' = Used(v) /\ InFavor(W)' = InFavor(v)
  BY DEF Used, InFavor
<1>2. Counted(W)'
  <2>1. \A i : Backers(W, i)' = Backers(v, i)
    BY <1>1 DEF Backers
  <2> QED
    BY <1>1, <2>1 DEF Polled, Counted, Ranged
<1>3. Heard(W)'
  BY <1>1 DEF Polled, Heard, Unanimous, Majority
<1> QED
  BY <1>2, <1>3 DEF Polled

LEMMA BecomesTells ==
  ASSUME NEW S, Becomes(S), \A v \in S : Tells(W, v)
  PROVE  Telling
<1>1. PICK v \in S : /\ player' = v.player /\ maprot' = v.maprot /\ missed' = v.missed
                     /\ clock' = v.clock /\ failed' = v.failed
  BY DEF Becomes
<1>2. rules' = rules
  BY DEF Becomes
<1>3. W'.player = v.player /\ W'.maprot = v.maprot /\ W'.missed = v.missed /\ W'.clock = v.clock
  BY <1>1 DEF W
<1>4. Polled(v) => Polled(W)'
  BY <1>2, <1>3, SamePolled
<1>5. Tells(W, v) /\ W.failed = failed
  BY WorldIs
<1> QED
  BY <1>1, <1>2, <1>4, <1>5 DEF Tells, Telling

LEMMA OneTells ==
  ASSUME rules' = rules, NEW v, W' = v, Tells(W, v)
  PROVE  Telling
<1>1. failed' = v.failed /\ W.failed = failed
  BY DEF W
<1>2. Polled(v) => Polled(W)'
  BY SamePolled
<1> QED
  BY <1>1, <1>2 DEF Tells, Telling

LEMMA KeepsTells ==
  ASSUME rules \in Settings, NEW w, Sound(w), NEW v, Keeps(w, v)
  PROVE  Tells(w, v)
<1>1. Sane(w) /\ Sane(v)
  BY SoundIsSane DEF Keeps, Follows
<1> QED
  BY <1>1, KeepsResumes, SaneResumes

LEMMA FallsTells ==
  ASSUME IInv, Falls
  PROVE  Telling
<1>0. rules \in Settings /\ Sound(W)
  BY IInvIsGood DEF Good
<1>1. PICK v : W' = v /\ Keeps(W, v)
  BY DEF Falls
<1>2. Tells(W, v)
  BY <1>0, <1>1, KeepsTells
<1> QED
  BY <1>1, <1>2, OneTells DEF Falls

(* Messages.                                                                      *)
LEMMA JoinPolls ==
  ASSUME IInv, NEW who \in Person, Join(who)
  PROVE  Telling
<1>0. rules \in Settings /\ Good(W)
  BY IInvIsGood
<1>1. \A q \in Used(W) : W.player[q].who # who
  BY WorldIs DEF Join
<1>2. PICK t \in {0, 1} :
         /\ Cardinality(Members(W, t)) <= Cardinality(Members(W, 1 - t))
         /\ FreePlaces(W, t) # {}
         /\ Becomes(UNION {{v} \cup TeamChange(v) :
                             v \in Second(Added(W, Min(FreePlaces(W, t)), who))})
  BY DEF Join, Added
<1> DEFINE S == UNION {{v} \cup TeamChange(v) : v \in Second(Added(W, Min(FreePlaces(W, t)), who))}
<1>3. ASSUME NEW z \in S PROVE Tells(W, z)
  <2>1. PICK v \in Second(Added(W, Min(FreePlaces(W, t)), who)) : z = v \/ z \in TeamChange(v)
    BY <1>3
  <2> QED
    BY <1>0, <1>1, <1>2, <2>1, JoinTells
<1>4. Becomes(S)
  BY <1>2
<1> HIDE DEF S
<1> QED
  BY <1>3, <1>4, BecomesTells

LEMMA LeavePolls ==
  ASSUME IInv, NEW p \in Pid, Leave(p)
  PROVE  Telling
<1> DEFINE who == player[p].who
           v == Forget(RemovePlayer(W, p), who)
           S == UNION {CheckMapExit(u) : u \in {v} \cup TeamChange(v)}
<1>0. rules \in Settings /\ Sound(W) /\ p \in Used(W)
  BY IInvIsGood, WorldIs DEF Leave, Used, Good
<1>1. Becomes(S)
  BY DEF Leave
<1> HIDE DEF who
<1>2. v = Forget(RemovePlayer(W, p), who)
  OBVIOUS
<1> HIDE DEF v
<1>3. ASSUME NEW z \in S PROVE Tells(W, z)
  <2>1. PICK u \in {v} \cup TeamChange(v) : z \in CheckMapExit(u)
    BY <1>3
  <2>2. u = v \/ u \in TeamChange(v)
    BY <2>1
  <2> QED
    BY <1>0, <1>2, <2>1, <2>2, LeaveTells
<1> HIDE DEF S
<1> QED
  BY <1>1, <1>3, BecomesTells

LEMMA ChangeTeamsPolls ==
  ASSUME IInv, ChangeTeams
  PROVE  Telling
<1>0. rules \in Settings /\ Sound(W)
  BY IInvIsGood DEF Good
<1>1. \A v \in TeamChange(W) : Tells(W, v)
  BY <1>0, TeamChangeKeeps, KeepsTells
<1> QED
  BY <1>1, BecomesTells DEF ChangeTeams

LEMMA MapExitPolls ==
  ASSUME IInv, NEW p \in Pid, MapExit(p)
  PROVE  Telling
<1> DEFINE exit == ~W.player[p].want_map_exit
           vote == W.player[p].mapVote
           S == CheckMapExit(Minded(W, p, exit, vote))
<1>0. /\ rules \in Settings /\ Sane(W) /\ W \in Worlds /\ p \in Used(W)
      /\ W.player[p] \in Player
  BY IInvIsGood, SoundIsSane, WorldIs, PlayersOf DEF MapExit, Used, Good, Sound
<1>1. /\ exit \in BOOLEAN /\ vote \in {-1} \cup 1 .. Cardinality(rules.maps)
      /\ Ranged(W) => vote \in {-1} \cup DOMAIN W.maprot
  BY <1>0 DEF Player, Ranged
<1>2. Becomes(CheckMapExit([W EXCEPT !.player[p].want_map_exit = ~@]))
  BY DEF MapExit
<1>3. [W EXCEPT !.player[p].want_map_exit = ~@] = Minded(W, p, exit, vote)
  BY <1>0, VotesAsMinds
<1>4. Becomes(S)
  BY <1>2, <1>3
<1> HIDE DEF exit, vote
<1>5. \A z \in S : Tells(W, z)
  BY <1>0, <1>1, MindedTells
<1> HIDE DEF S
<1> QED
  BY <1>4, <1>5, BecomesTells

LEMMA MapVotePolls ==
  ASSUME IInv, NEW p \in Pid, MapVote(p)
  PROVE  Telling
<1> DEFINE exit == W.player[p].want_map_exit
<1>0. /\ rules \in Settings /\ Sane(W) /\ W \in Worlds /\ p \in Used(W)
      /\ W.player[p] \in Player
  BY IInvIsGood, SoundIsSane, WorldIs, PlayersOf DEF MapVote, Used, Good, Sound
<1>1. PICK vote \in {-1} \cup DOMAIN maprot :
         Becomes(CheckMapExit([W EXCEPT !.player[p].mapVote = vote]))
  BY DEF MapVote
<1> DEFINE S == CheckMapExit(Minded(W, p, exit, vote))
<1>2. exit \in BOOLEAN
  BY <1>0 DEF Player
<1>3. vote \in {-1} \cup 1 .. Cardinality(rules.maps)
  <2>1. /\ maprot \in Seq([file : rules.maps, votes : Nat])
        /\ Len(maprot) <= Cardinality(rules.maps)
    BY WorldIs, IInvIsGood DEF Good, Sound, Worlds
  <2>2. DOMAIN maprot = 1 .. Len(maprot) /\ Len(maprot) \in Nat
    BY <2>1
  <2>3. Cardinality(rules.maps) \in Nat
    BY <1>0, Ruled
  <2> QED
    BY <2>1, <2>2, <2>3
<1>4. [W EXCEPT !.player[p].mapVote = vote] = Minded(W, p, exit, vote)
  BY <1>0, VotesAsMinds
<1>5. Becomes(S)
  BY <1>1, <1>4
<1>6. vote \in {-1} \cup DOMAIN W.maprot
  BY WorldIs
<1> HIDE DEF exit
<1>7. \A z \in S : Tells(W, z)
  BY <1>0, <1>2, <1>3, <1>6, MindedTells
<1> HIDE DEF S
<1> QED
  BY <1>5, <1>7, BecomesTells

LEMMA ForceMapPolls ==
  ASSUME IInv, ForceMap
  PROVE  Telling
<1>0. rules \in Settings /\ Sane(W)
  BY IInvIsGood, SoundIsSane DEF Good
<1>1. PICK i \in DOMAIN W.maprot : Becomes(ServerNextMap(Forced(W, i)))
  BY WorldIs DEF ForceMap, Forced
<1>2. \A z \in ServerNextMap(Forced(W, i)) : Tells(W, z)
  BY <1>0, ForcedTells
<1> QED
  BY <1>1, <1>2, BecomesTells

LEMMA ReloadPolls ==
  ASSUME IInv, Reload
  PROVE  Telling
<1>0. rules \in Settings /\ Sane(W)
  BY IInvIsGood, SoundIsSane DEF Good
<1>1. PICK files \in Lists : Becomes(ResetSettings(W, files))
  BY DEF Reload
<1>2. \A z \in ResetSettings(W, files) : Tells(W, z)
  BY <1>0, ReloadTells
<1> QED
  BY <1>1, <1>2, BecomesTells

LEMMA DropFlagPolls ==
  ASSUME IInv, NEW p \in Pid, DropFlag(p)
  PROVE  Telling
<1> DEFINE v == DropFlagIfAny(W, p)
<1>0. rules \in Settings /\ Sound(W) /\ p \in Used(W)
  BY IInvIsGood, WorldIs DEF DropFlag, Used, Good
<1>1. Becomes({v})
  BY DEF DropFlag
<1>2. Tells(W, v)
  BY <1>0, DropKeeps, KeepsTells
<1> HIDE DEF v
<1> QED
  BY <1>1, <1>2, BecomesTells

LEMMA SuicidePolls ==
  ASSUME IInv, NEW p \in Pid, Suicide(p)
  PROVE  Telling
<1>0. rules \in Settings /\ Good(W) /\ Sound(W) /\ Calm(W) /\ p \in Alive(W)
  BY IInvIsGood DEF Suicide, Good
<1>1. \A v \in KillPlayer(W, p) : Tells(W, v)
  BY <1>0, KillKeeps, KeepsTells
<1> QED
  BY <1>1, BecomesTells DEF Suicide

LEMMA BeginFramePolls ==
  ASSUME IInv, BeginFrame
  PROVE  Telling
<1>0. rules \in Settings /\ Good(W)
  BY IInvIsGood
<1>1. rules' = rules /\ W' = Begins(W)
  BY BeginFrameIs DEF BeginFrame
<1>2. Good(Begins(W))
  BY <1>0, BeginsEnds DEF Ends, Leads
<1>3. Tells(W, Begins(W))
  BY <1>0, <1>2, BeginsTells
<1> QED
  BY <1>1, <1>3, OneTells

LEMMA PlaqueFramePolls ==
  ASSUME IInv, PlaqueFrame
  PROVE  Telling
<1> DEFINE S == {NextFrame(w) : w \in AnnounceVotes(W)}
<1>0. rules \in Settings /\ Sane(W) /\ Tells(W, W)
  BY IInvIsGood, SoundIsSane DEF Good, Tells
<1>1. Becomes(S)
  BY DEF PlaqueFrame
<1>2. ASSUME NEW z \in S PROVE Tells(W, z)
  <2>1. PICK y \in AnnounceVotes(W) : z = NextFrame(y)
    BY <1>2
  <2> QED
    BY <1>0, <2>1, FrameTells
<1> HIDE DEF S
<1> QED
  BY <1>1, <1>2, BecomesTells

(* The players' turns and the end of the frame.                                   *)
LEMMA ShootRocketPolls ==
  ASSUME IInv, NEW p \in Pid, ShootRocket(p)
  PROVE  Telling
<1>0. rules \in Settings /\ W \in Worlds /\ Sane(W)
  BY IInvIsGood, SoundIsSane DEF Good, Sound
<1>1. PICK r \in Rocket : Becomes({[W EXCEPT !.rock[r] = [pid |-> p, who |-> player[p].who]]})
  BY DEF ShootRocket
<1> DEFINE v == [W EXCEPT !.rock[r] = [pid |-> p, who |-> player[p].who]]
<1>2. /\ v.player = W.player /\ v.maprot = W.maprot /\ v.missed = W.missed
      /\ v.failed = W.failed /\ v.clock = W.clock
  BY WorldIs DEF W
<1>3. Becomes({v})
  BY <1>1
<1> HIDE DEF v
<1>4. InFavor(v) = InFavor(W) /\ Used(v) = Used(W)
  BY <1>2 DEF InFavor, Used
<1>5. Polled(W) => Polled(v)
  BY <1>2, <1>4 DEF Polled, Counted, Ranged, Backers, Heard, Unanimous, Majority
<1>6. Tells(W, v)
  BY <1>2, <1>5 DEF Tells
<1> QED
  BY <1>3, <1>6, BecomesTells

LEMMA TouchFlagPolls ==
  ASSUME IInv, NEW p \in Pid, NEW f \in Flags, TouchFlag(p, f)
  PROVE  Telling
<1> DEFINE v == Steal(W, p, f)
<1>0. /\ rules \in Settings /\ Good(W) /\ p \in Alive(W)
  BY IInvIsGood DEF TouchFlag, HisTurn
<1>1. /\ W.flag[f].status # "carried" /\ ~HasFlag(W, p)
      /\ f[1] = Team(p) => rules.carry_own_team_flag
  BY MayTake DEF TouchFlag
<1>2. Becomes({v})
  BY DEF TouchFlag
<1>3. Good(v)
  BY <1>0, <1>1, StealEnds DEF Ends, Leads
<1>4. Tells(W, v)
  BY <1>0, <1>1, <1>3, StealTells
<1> HIDE DEF v
<1> QED
  BY <1>2, <1>4, BecomesTells

LEMMA ReturnOwnFlagPolls ==
  ASSUME IInv, NEW p \in Pid, NEW f \in Flags, ReturnOwnFlag(p, f)
  PROVE  Telling
<1> DEFINE v == ReturnFlag(W, f)
<1>0. /\ rules \in Settings /\ Good(W) /\ Alive(W) # {}
  BY IInvIsGood DEF ReturnOwnFlag, HisTurn
<1>1. W.flag[f].status = "dropped"
  BY WorldIs DEF ReturnOwnFlag
<1>2. Becomes({v})
  BY DEF ReturnOwnFlag
<1>3. Good(v)
  BY <1>0, <1>1, ReturnEnds DEF Ends, Leads
<1>4. Tells(W, v)
  BY <1>0, <1>3, ReturnTells
<1> HIDE DEF v
<1> QED
  BY <1>2, <1>4, BecomesTells

LEMMA TryCapturePolls ==
  ASSUME IInv, NEW p \in Pid, NEW f \in Flags, NEW g \in Flags, TryCapture(p, f, g)
  PROVE  Telling
<1>0. /\ rules \in Settings /\ Good(W) /\ p \in Alive(W)
  BY IInvIsGood DEF TryCapture, HisTurn
<1>1. W.flag[f].carrier = p
  BY WorldIs DEF TryCapture
<1>2. PICK kind \in TargetKinds(p, f) :
         /\ g \in Targets(W, p, f, kind[1], kind[2])
         /\ Becomes(CaptureAt(W, p, f, g, kind[1] # kind[2]))
  BY DEF TryCapture
<1>3. \A z \in CaptureAt(W, p, f, g, kind[1] # kind[2]) : Tells(W, z)
  BY <1>0, <1>1, <1>2, CaptureTells
<1> QED
  BY <1>2, <1>3, BecomesTells

LEMMA FrameOfTells ==
  ASSUME rules \in Settings, Sane(W), NEW w, Sane(w), Tells(W, w), NEW S,
         \A x \in S : x = w \/ x \in TimeCheck(w),
         NEW z \in FrameOf(S)
  PROVE  Tells(W, z)
<1>1. PICK y \in UNION {AnnounceVotes(v) : v \in S} : z = NextFrame(y)
  BY DEF FrameOf
<1>2. PICK x \in S : y \in AnnounceVotes(x)
  BY <1>1
<1> QED
  BY <1>1, <1>2, FrameTells

LEMMA EndFramePolls ==
  ASSUME IInv, EndFrame
  PROVE  Telling
<1>1. rules \in Settings /\ Sane(W) /\ Tells(W, W)
  BY IInvIsGood, SoundIsSane DEF Good, Tells
<1>2. Becomes(FrameOf(TimeCheck(W)))
  BY DEF EndFrame
<1>3. \A z \in FrameOf(TimeCheck(W)) : Tells(W, z)
  BY <1>1, FrameOfTells
<1> QED
  BY <1>2, <1>3, BecomesTells

LEMMA CarryWildFlagPolls ==
  ASSUME IInv, NEW f \in Flags, CarryWildFlag(f)
  PROVE  Telling
<1>0. rules \in Settings /\ Good(W) /\ W.flag[f].status = "carried"
  BY IInvIsGood, WorldIs DEF CarryWildFlag
<1>1. PICK t, w : /\ t = Team(W.flag[f].carrier) /\ w = CarryingPoint(W, t)
                  /\ \/ Becomes({w}) /\ w \in AfterScore(w, t)
                     \/ /\ Becomes(FrameOf(ServerNextMap(w)))
                        /\ ServerNextMap(w) = AfterScore(w, t)
  BY CarryWildFlagIs
<1>2. \A z \in AfterScore(w, t) : Tells(W, z) /\ Sane(z)
  BY <1>0, <1>1, CarryingPointTells, CarryingPointEnds, EndsIsGood
<1>3. CASE Becomes({w}) /\ w \in AfterScore(w, t)
  BY <1>2, <1>3, BecomesTells
<1>4. CASE Becomes(FrameOf(ServerNextMap(w))) /\ ServerNextMap(w) = AfterScore(w, t)
  <2>1. ASSUME NEW z \in FrameOf(ServerNextMap(w)) PROVE Tells(W, z)
    <3>1. PICK y \in UNION {AnnounceVotes(v) : v \in ServerNextMap(w)} : z = NextFrame(y)
      BY <2>1 DEF FrameOf
    <3>2. PICK x \in ServerNextMap(w) : y \in AnnounceVotes(x)
      BY <3>1
    <3>3. Tells(W, x) /\ Sane(x) /\ Sane(W)
      BY <1>0, <1>2, <1>4, <3>2, SoundIsSane DEF Good
    <3> QED
      BY <1>0, <3>1, <3>2, <3>3, FrameTells
  <2> QED
    BY <1>4, <2>1, BecomesTells
<1> QED
  BY <1>1, <1>3, <1>4

LEMMA NextPolls ==
  ASSUME IInv, Next
  PROVE  Telling
<1>0. Falls => Telling
  BY FallsTells
<1>1. ASSUME Messages PROVE Telling
  <2>1. ASSUME NEW p \in Pid, Leave(p) \/ DropFlag(p) \/ Suicide(p) \/ MapExit(p) \/ MapVote(p)
        PROVE  Telling
    BY <2>1, LeavePolls, DropFlagPolls, SuicidePolls, MapExitPolls, MapVotePolls
  <2>2. ASSUME ChangeTeams \/ ForceMap \/ Reload \/ BeginFrame \/ PlaqueFrame
        PROVE  Telling
    BY <2>2, ChangeTeamsPolls, ForceMapPolls, ReloadPolls, BeginFramePolls, PlaqueFramePolls
  <2> QED
    BY <1>1, <2>1, <2>2, JoinPolls DEF Messages
<1>2. ASSUME SimulateFrame PROVE Telling
  <2>1. ASSUME NEW p \in Pid, DeathbringerEffect(p) \/ DeathbringerHits(p) \/ ShootRocket(p)
        PROVE  Telling
    BY <1>0, <2>1, DeathbringerEffectFalls, DeathbringerHitsFalls, ShootRocketPolls
  <2>2. ASSUME NEW r \in Rocket, RocketEnds(r) \/ \E p \in Pid : RocketHitsPlayer(r, p)
        PROVE  Telling
    BY <1>0, <2>2, RocketEndsFalls, RocketHitsPlayerFalls
  <2>3. ASSUME NEW p \in Pid, NEW q \in Pid, PlayersCollide(p, q)
        PROVE  Telling
    BY <1>0, <2>3, PlayersCollideFalls
  <2>4. ASSUME NEW p \in Pid, NEW f \in Flags, TouchFlag(p, f) \/ ReturnOwnFlag(p, f)
        PROVE  Telling
    BY <2>4, TouchFlagPolls, ReturnOwnFlagPolls
  <2>5. ASSUME NEW p \in Pid, NEW f \in Flags, NEW g \in Flags, TryCapture(p, f, g)
        PROVE  Telling
    BY <2>5, TryCapturePolls
  <2>6. ASSUME DeathbringerEnds \/ Respawn \/ EndFrame
        PROVE  Telling
    BY <1>0, <2>6, DeathbringerEndsFalls, RespawnFalls, EndFramePolls
  <2>7. ASSUME NEW f \in Flags, CarryWildFlag(f)
        PROVE  Telling
    BY <2>7, CarryWildFlagPolls
  <2> QED
    BY <1>2, <2>1, <2>2, <2>3, <2>4, <2>5, <2>6, <2>7 DEF SimulateFrame
<1> QED
  BY <1>1, <1>2 DEF Next

LEMMA InitPolled ==
  ASSUME Init
  PROVE  Polled(W)
<1>1. Used(W) = {}
  BY WorldIs DEF Init, Used
<1>2. \A i \in DOMAIN W.maprot : W.maprot[i].votes = 0
  BY WorldIs DEF Init
<1>3. \A i : Backers(W, i) = {}
  BY <1>1 DEF Backers
<1>4. Counted(W)
  BY <1>1, <1>2, <1>3, FS_EmptySet DEF Counted, Ranged
<1>5. Quiet(W)
  BY <1>1 DEF Quiet, InFavor
<1> QED
  BY <1>4, <1>5, QuietIsHeard DEF Polled

(* Votes and their counts agree at all stages of a frame, whatever has moved the  *)
(* players, renumbered the maps or chosen one; all players never wait for another *)
(* map, and more than half of them only for the end of the time in which others   *)
(* can stop them, unless that end has been missed.                                *)
THEOREM VotesAreCounted == Spec => [](failed = "none" => Polled(W))
<1>1. Init => (failed = "none" => Polled(W))
  BY InitPolled
<1>2. IInv /\ (failed = "none" => Polled(W)) /\ [Next]_vars => (failed = "none" => Polled(W))'
  <2> SUFFICES ASSUME IInv, failed = "none" => Polled(W), [Next]_vars, failed' = "none"
               PROVE  Polled(W)'
    OBVIOUS
  <2>1. CASE Next
    BY <2>1, NextPolls DEF Telling
  <2>2. CASE UNCHANGED vars
    <3>1. rules' = rules /\ W' = W /\ failed' = failed
      BY <2>2, StutterKeeps DEF vars
    <3> QED
      BY <3>1, SamePolled
  <2> QED
    BY <2>1, <2>2
<1> QED
  BY <1>1, <1>2, Invariance, PTL DEF Spec

(* Counting the votes again would change nothing.                                 *)
LEMMA RecountedSame ==
  ASSUME NEW w \in Worlds, Counted(w)
  PROVE  w = CountVotes(w, Used(w))
<1> DEFINE M == [i \in DOMAIN w.maprot |->
                  [w.maprot[i] EXCEPT !.votes = Cardinality({p \in Used(w) : w.player[p].mapVote = i})]]
<1>1. /\ w.maprot \in Seq(MapEntry) /\ \A i \in DOMAIN w.maprot : w.maprot[i] \in MapEntry
  BY MapsOf
<1>2. w.maprot = [i \in DOMAIN w.maprot |-> w.maprot[i]]
  <2> HIDE DEF MapEntry
  <2> QED
    BY <1>1
<1>3. ASSUME NEW i \in DOMAIN w.maprot PROVE M[i] = w.maprot[i]
  <2>1. w.maprot[i].votes = Cardinality({p \in Used(w) : w.player[p].mapVote = i})
    BY DEF Counted, Backers
  <2> QED
    BY <1>1, <2>1 DEF MapEntry
<1>4. M = w.maprot
  BY <1>2, <1>3
<1>5. CountVotes(w, Used(w)) = [w EXCEPT !.maprot = M]
  BY DEF CountVotes
<1> HIDE DEF M
<1> QED
  BY <1>4, <1>5 DEF Worlds

(* So between the frames the maps' counts are those of the players' votes, each   *)
(* for a map of the list, and neither all players nor, when the time has come and *)
(* has not been missed, more than half of them wait for another map.              *)
THEOREM VotesAreHeard == Spec => []VotesDecide
<1>1. ASSUME IInv, failed = "none" => Polled(W) PROVE VotesDecide
  <2> SUFFICES ASSUME failed = "none" PROVE VotesMatchPlayers /\ MajorityIsHeard
    BY DEF VotesDecide
  <2>1. Counted(W) /\ Heard(W) /\ W \in Worlds
    BY <1>1, IInvIsGood DEF Polled, Good, Sound
  <2>2. W = CountVotes(W, Used(W))
    BY <2>1, RecountedSame
  <2>3. \A p \in Used(W) : player[p].mapVote \in {-1} \cup DOMAIN maprot
    BY <2>1, WorldIs DEF Counted, Ranged
  <2> QED
    BY <2>1, <2>2, <2>3, WorldIs DEF VotesMatchPlayers, MajorityIsHeard, Heard
<1> QED
  BY <1>1, Invariance, VotesAreCounted, PTL
================================================================================
