--------------------------------- MODULE World ---------------------------------
(* world.cpp (ServerWorld) and the part of server.cpp that moves its players: the *)
(* game itself.  Flags, who carried them, shots and deathbringers with the places *)
(* of those who fired them, scores, the clock and the end of a game, votes for    *)
(* maps and the list of maps.                                                     *)
(*                                                                                *)
(* All steps happen under threadLockMutex: a message handled between two frames,  *)
(* or a part of simulateFrame.  Where things are, their health and how long they  *)
(* wait is left open: whatever distances and times could allow may happen.        *)
EXTENDS Integers, FiniteSetsExt, SequencesExt

CONSTANTS
  Person,               \* the people (or bots) behind the players
  None, Rocket,
  maxplayers, MAX_PLAYERS,
  Settings,             \* the rules to play by, see SettingsAssumption
  MaxPoints,            \* a bound on points for carrying flags
  VoteAnnounceInterval  \* in frames

TSIZE == maxplayers \div 2
Pid == 0 .. (maxplayers - 1)
Gone == MAX_PLAYERS - 1      \* stands for players that have left
Wild == 2

ASSUME PlayersAssumption ==
  /\ maxplayers \in Nat /\ maxplayers >= 2 /\ maxplayers % 2 = 0
  /\ MAX_PLAYERS \in Nat /\ maxplayers <= MAX_PLAYERS
  /\ MAX_PLAYERS < 99         \* the votes that forcemap gives a map outnumber all players
ASSUME SettingsAssumption ==
  \A s \in Settings :
    /\ \A f \in s.flags : f[1] \in {0, 1, Wild} /\ f[2] \in Nat
    /\ {s.carry_own_team_flag, s.capture_on_team_flag, s.capture_on_wild_flag,
        s.lock_team_flags, s.lock_wild_flags, s.capture_away_from_base,
        s.sudden_death} \subseteq BOOLEAN
    /\ {s.capture_limit, s.win_score_difference, s.time_limit, s.extra_time,
        s.extra_time_periods} \subseteq Nat
    /\ s.balance_teams \in {"no", "balance", "shuffle"}
    /\ s.maps # {} /\ IsFiniteSet(s.maps)
    /\ s.vote_block_time \in Nat /\ s.require_specific_map_vote \in BOOLEAN
ASSUME BoundsAssumption == MaxPoints \in Nat /\ VoteAnnounceInterval \in Nat

(* Whose something is: his place, and who he was there.                           *)
Owner == [pid : Pid \cup {Gone}, who : Person]

ASSUME NamesAssumption ==
  /\ None \notin Owner /\ {"ground", "base"} \cap Person = {}
  /\ None \notin [who : Person, dead : BOOLEAN, carriedFlag : {"none", "own", "enemy", "wild"},
                  infected : {None} \cup Owner, want_map_exit : BOOLEAN, mapVote : Int]

VARIABLES
  rules,        \* a member of Settings
  player,       \* pid -> None or [who, dead, carriedFlag, infected, want_map_exit, mapVote]
  flag,         \* flag -> [status, carrier, prev, prev_prev]
  rock,         \* rocket -> None or its shooter as [pid, who]
  db,           \* a deathbringer explosion: None or its owner as [pid, who]
  score, clock, current_extra_time_period,
  gameover,
  maprot,       \* the list of maps, as a sequence of [file, votes]
  currmap,
  announced,    \* the votes told last, the votes needed, and the frames to the next time
  missed,       \* history: the end of the time when only all may vote for another map came
                \* while the votes had just been told
  stage,        \* "messages", or a part of simulateFrame: "physics" or "players"
  counted,      \* the last wild flag that gave a point for carrying it in this frame, or 0
  failed,       \* the nAssert that ended the program
  carried_by    \* history: flag -> who has carried it since it was at its base,
                \* as the player he still is

vars == <<rules, player, flag, rock, db, score, clock, current_extra_time_period,
          gameover, maprot, currmap, announced, missed, stage, counted, failed,
          carried_by>>

(* The world as a value that the functions of the program pass around.            *)
W == [player |-> player, flag |-> flag, rock |-> rock, db |-> db, score |-> score,
      clock |-> clock, period |-> current_extra_time_period, over |-> gameover,
      maprot |-> maprot, currmap |-> currmap, announced |-> announced, missed |-> missed,
      failed |-> failed, by |-> carried_by]

Becomes(worlds) == \E w \in worlds :
  /\ player' = w.player /\ flag' = w.flag /\ rock' = w.rock /\ db' = w.db
  /\ score' = w.score /\ clock' = w.clock /\ current_extra_time_period' = w.period
  /\ gameover' = w.over /\ failed' = w.failed /\ carried_by' = w.by
  /\ maprot' = w.maprot /\ currmap' = w.currmap
  /\ announced' = w.announced /\ missed' = w.missed
  /\ UNCHANGED rules

Team(p) == p \div TSIZE
Flags == rules.flags

Periods == Max({1, rules.extra_time_periods})

(* A bound: the frame after which nothing depends on the clock.                   *)
LastFrame == IF rules.time_limit > 0 THEN rules.time_limit + Periods * rules.extra_time + 1
             ELSE IF rules.sudden_death THEN 1 ELSE 0
MaxClock == IF rules.vote_block_time < LastFrame \/ rules.vote_block_time = 0 THEN LastFrame
            ELSE rules.vote_block_time + 1
TeamFlags(t) == {f \in Flags : f[1] = t}
Used(w) == {p \in Pid : w.player[p] # None}
Members(w, t) == {p \in Used(w) : Team(p) = t}
Alive(w) == {p \in Used(w) : ~w.player[p].dead}
HasFlag(w, p) == w.player[p].carriedFlag # "none"
CarriedBy(w, p) == {f \in Flags : w.flag[f].carrier = p}
Fail(w, what) == [w EXCEPT !.failed = what]

(* Every outcome of f(_, x) on some outcome of what went before.                  *)
Then(f(_, _), worlds, x) == UNION {f(w, x) : w \in worlds}
InOrder(f(_, _), w, seq) == FoldLeft(LAMBDA worlds, x : Then(f, worlds, x), {w}, seq)

--------------------------------------------------------------------------------
(* Flags.                                                                         *)

AtBase == [status |-> "at_base", carrier |-> -1, prev |-> -1, prev_prev |-> -1]

Taken(f, p) == [status |-> "carried", carrier |-> p, prev_prev |-> -1,
                prev |-> IF f.prev = p THEN f.prev_prev ELSE f.prev]

Dropped(f) == [status |-> "dropped", carrier |-> -1, prev |-> f.carrier,
               prev_prev |-> IF f.prev # f.carrier THEN f.prev
                             ELSE IF f.prev_prev = f.carrier THEN -1 ELSE f.prev_prev]

Forgotten(f, p) == IF f.prev = p THEN [f EXCEPT !.prev = -1]
                   ELSE IF f.prev_prev = p THEN [f EXCEPT !.prev_prev = -1] ELSE f

ReturnFlag(w, f) == [w EXCEPT !.flag[f] = AtBase, !.by[f] = {}]

ReturnAllFlags(w) == [w EXCEPT !.flag = [f \in Flags |-> AtBase],
                               !.by = [f \in Flags |-> {}]]

Kind(p, f) == CASE f[1] = Wild    -> "wild"
                [] f[1] = Team(p) -> "own"
                [] OTHER          -> "enemy"

(* player_steals_flag                                                             *)
Steal(w, p, f) ==
  IF HasFlag(w, p) THEN Fail(w, "add_flag_take")
  ELSE [w EXCEPT !.player[p].carriedFlag = Kind(p, f), !.flag[f] = Taken(@, p),
                 !.by[f] = @ \cup {w.player[p].who}]

(* dropFlagIfAny                                                                  *)
DropFlagIfAny(w, p) ==
  IF ~HasFlag(w, p) THEN w
  ELSE IF CarriedBy(w, p) = {} THEN Fail(w, "dropFlagIfAny")
  ELSE LET f == CHOOSE f \in CarriedBy(w, p) : TRUE
       IN  [w EXCEPT !.player[p].carriedFlag = "none", !.flag[f] = Dropped(@)]

(* Mutant: looks at the flags of the wrong team.                                  *)
ResetOwnCarrierData(w, p) ==
  [w EXCEPT !.flag = [f \in Flags |-> IF f[1] \in {Team(p), Wild} THEN Forgotten(@[f], p)
                                     ELSE @[f]]]

(* resetCarrierData: the flags of the enemy and the wild ones.                    *)
ResetCarrierData(w, p) ==
  [w EXCEPT !.flag = [f \in Flags |-> IF f[1] # Team(p) THEN Forgotten(@[f], p) ELSE @[f]]]

(* History: somebody is no longer the player who carried flags.                   *)
Forget(w, who) == [w EXCEPT !.by = [f \in Flags |-> @[f] \ {who}]]

--------------------------------------------------------------------------------
(* Players that die, leave, and change places.                                    *)

NewPlayer(who) == [who |-> who, dead |-> TRUE, carriedFlag |-> "none", infected |-> None,
                   want_map_exit |-> FALSE, mapVote |-> -1]

(* resetPlayer                                                                    *)
ResetPlayer(w, p) == [DropFlagIfAny(w, p) EXCEPT !.player[p].dead = TRUE]

(* killPlayer: a player may have a deathbringer, which explodes.                  *)
KillPlayer(w, p) ==
  LET v == DropFlagIfAny(w, p)
  IN  {ResetPlayer(v, p)} \cup
      IF v.db # None THEN {}
      ELSE {ResetPlayer([v EXCEPT !.db = [pid |-> p, who |-> v.player[p].who]], p)}

(* damagePlayer: enough damage kills.                                             *)
DamagePlayer(w, p) == IF w.player[p].dead THEN {w} ELSE {w} \cup KillPlayer(w, p)

Renamed(s, map) == IF s = None THEN None
                   ELSE IF s.pid \in DOMAIN map THEN [s EXCEPT !.pid = map[@]] ELSE s

(* The places of players in rockets, explosions and the infected, renamed.        *)
EmbeddedPids(w, map) ==
  [w EXCEPT !.rock = [r \in Rocket |-> Renamed(w.rock[r], map)],
            !.db = Renamed(w.db, map),
            !.player = [p \in Pid |-> IF w.player[p] = None THEN None
                                      ELSE [w.player[p] EXCEPT !.infected = Renamed(@, map)]]]

(* Mutant: one after the other.                                                   *)
TwoChanges(w, a, b) == EmbeddedPids(EmbeddedPids(w, [p \in {a} |-> b]), [p \in {b} |-> a])

(* changeEmbeddedPids, swapEmbeddedPids                                           *)
ChangeEmbeddedPids(w, f, t) == EmbeddedPids(w, [p \in {f} |-> t])
SwapEmbeddedPids(w, a, b) == EmbeddedPids(w, [p \in {a, b} |-> a + b - p])

Disowned(s, p) == IF s # None /\ s.pid = p THEN [s EXCEPT !.pid = Gone] ELSE s

(* removePlayer: his rockets vanish, his deathbringers stay.                      *)
RemovePlayer(w, p) ==
  LET v == [w EXCEPT !.rock = [r \in Rocket |-> IF @[r] # None /\ @[r].pid = p THEN None
                                                ELSE @[r]]]
      u == IF maxplayers = MAX_PLAYERS THEN v
           ELSE [v EXCEPT !.db = Disowned(@, p),
                          !.player = [q \in Pid |->
                            IF w.player[q] = None THEN None
                            ELSE [w.player[q] EXCEPT !.infected = Disowned(@, p)]]]
  IN  [ResetCarrierData(DropFlagIfAny(u, p), p) EXCEPT !.player[p] = None]

(* move_player                                                                    *)
MovePlayer(w, f, t) ==
  LET v == DropFlagIfAny(w, f)
      u == IF v.player[f].dead THEN v ELSE ResetPlayer(v, f)
      x == ChangeEmbeddedPids([u EXCEPT !.player[t] = u.player[f]], f, t)
  IN  Forget(RemovePlayer(x, f), w.player[f].who)

(* Mutant: a flag stays with the place of its carrier.                            *)
SwapOnlyPlayers(w, a, b) ==
  SwapEmbeddedPids([w EXCEPT !.player[a] = [w.player[b] EXCEPT !.dead = TRUE],
                             !.player[b] = [w.player[a] EXCEPT !.dead = TRUE]], a, b)

(* swap_players                                                                   *)
SwapPlayers(w, a, b) ==
  LET v == DropFlagIfAny(DropFlagIfAny(w, a), b)
      u == ResetCarrierData(ResetCarrierData(v, a), b)
      x == IF u.player[a].dead THEN u ELSE ResetPlayer(u, a)
      y == IF x.player[b].dead THEN x ELSE ResetPlayer(x, b)
      z == SwapEmbeddedPids([y EXCEPT !.player[a] = y.player[b], !.player[b] = y.player[a]],
                            a, b)
  IN  Forget(Forget(z, w.player[a].who), w.player[b].who)

FreePlaces(w, t) == {p \in Pid : Team(p) = t} \ Used(w)

(* One change of teams: to a free place, or with somebody of the other team.      *)
TeamChange(w) ==
  {MovePlayer(w, p, Min(FreePlaces(w, 1 - Team(p)))) :
     p \in {q \in Used(w) : FreePlaces(w, 1 - Team(q)) # {}}}
  \cup {SwapPlayers(w, a, b) : a \in Members(w, 0), b \in Members(w, 1)}

--------------------------------------------------------------------------------
(* Games.                                                                         *)

Bigger(w) == IF Cardinality(Members(w, 0)) > Cardinality(Members(w, 1)) THEN 0 ELSE 1
Uneven(w) == Cardinality(Members(w, Bigger(w))) - Cardinality(Members(w, 1 - Bigger(w))) > 1

(* balance_teams: random players of the bigger team, one by one.                  *)
MoveOne(w, k) ==
  IF ~Uneven(w) THEN {w}
  ELSE {MovePlayer(w, p, Min(FreePlaces(w, 1 - Team(p)))) : p \in Members(w, Bigger(w))}

BalanceTeams(w) == InOrder(MoveOne, w, [k \in 1 .. TSIZE |-> k])

(* shuffle_teams: the k-th red player changes places with the k-th player of a    *)
(* random order, if that one is blue at the start.                                *)
SwapShuffled(w, v, order, i) ==
  LET k == Cardinality({p \in Members(w, 0) : p <= i}) IN
  IF i \notin Used(w) \/ Team(order[k]) = 0 THEN {v} ELSE {SwapPlayers(v, i, order[k])}

ShuffleTeams(w) ==
  IF Cardinality(Used(w)) <= 2 THEN {w}
  ELSE UNION {InOrder(LAMBDA v, i : SwapShuffled(w, v, order, i), w, [k \in 1 .. TSIZE |-> k - 1]) :
                order \in SetToSeqs(Used(w))}

(* Mutant: who plays goes on from where he is.                                    *)
ResetTeams(w) == [ReturnAllFlags(w) EXCEPT !.score = [t \in {0, 1} |-> 0], !.period = 1]

(* ServerWorld::reset                                                             *)
Reset(w) ==
  [ReturnAllFlags(w) EXCEPT
     !.score = [t \in {0, 1} |-> 0], !.period = 1,
     !.rock = [r \in Rocket |-> None], !.db = None,
     !.player = [p \in Pid |-> IF @[p] = None THEN None
                               ELSE [@[p] EXCEPT !.dead = TRUE, !.carriedFlag = "none",
                                                 !.infected = None]]]

(* ctf_game_restart                                                               *)
CtfGameRestart(w) ==
  LET v == ReturnAllFlags(w)
      balanced == IF rules.balance_teams = "no" THEN {v} ELSE BalanceTeams(v)
      teams == IF rules.balance_teams = "shuffle" THEN UNION {ShuffleTeams(u) : u \in balanced}
               ELSE balanced
  IN  {Reset(u) : u \in teams}

(* Mutant: the carriers' statistics are not finished.                             *)
UnfinishedStats(w) == w

FinishStats(w) ==
  [w EXCEPT !.player = [p \in Pid |-> IF @[p] = None THEN None
                                      ELSE [@[p] EXCEPT !.carriedFlag = "none"]]]

(* server_next_map once it has loaded the map, with flags of the same kinds.       *)
StartMap(w) ==
  CtfGameRestart([ReturnAllFlags(FinishStats(w)) EXCEPT !.over = TRUE, !.clock = 0])

--------------------------------------------------------------------------------
(* Votes and the list of maps.                                                    *)

NotAnnounced == [votes |-> 0, needed |-> 0, wait |-> 0]

InFavor(w) ==
  {p \in Used(w) : w.player[p].want_map_exit
                   /\ (rules.require_specific_map_vote => w.player[p].mapVote # -1)}
Majority(w) == 2 * Cardinality(InFavor(w)) > Cardinality(Used(w))
Unanimous(w) == Used(w) = InFavor(w)

CountVotes(w, voters) ==
  [w EXCEPT !.maprot = [i \in DOMAIN @ |->
     [@[i] EXCEPT !.votes = Cardinality({p \in voters : w.player[p].mapVote = i})]]]

(* The maps with the most votes, but the one that was played, which has waited      *)
(* least; without votes, any (the next of the list that the least are against).   *)
Winners(w) ==
  LET most    == Max({w.maprot[i].votes : i \in DOMAIN w.maprot})
      winners == {i \in DOMAIN w.maprot : w.maprot[i].votes = most}
  IN  IF most > 0 /\ Cardinality(winners) > 1 THEN winners \ {w.currmap} ELSE winners

(* Mutant: votes for the map that was chosen are not cleared.                     *)
ChooseAgain(w, i) ==
  [w EXCEPT !.currmap = i, !.maprot[i].votes = 0, !.announced = NotAnnounced,
            !.player = [p \in Pid |-> IF @[p] = None THEN None
                                      ELSE [@[p] EXCEPT !.want_map_exit = FALSE]]]

Choose(w, i) ==
  [w EXCEPT !.currmap = i, !.maprot[i].votes = 0, !.announced = NotAnnounced,
            !.player = [p \in Pid |->
              IF w.player[p] = None THEN None
              ELSE [w.player[p] EXCEPT !.want_map_exit = FALSE,
                                       !.mapVote = IF @ = i THEN -1 ELSE @]]]

NextMapLoads(w) == UNION {StartMap(Choose(w, i)) : i \in Winners(w)}

Lists == {l \in UNION {[1 .. n -> rules.maps] : n \in 1 .. Cardinality(rules.maps)} :
            IsInjective(l)}

(* reset_settings: votes follow their maps to the new list.  The players whose     *)
(* maps it has lost are found again by their places; the votes of others are lost *)
(* if the next map has moved them, and theirs stay.                               *)
ResetSettings(w, files) ==
  LET Index(i) == IF \E j \in DOMAIN files : files[j] = w.maprot[i].file
                  THEN CHOOSE j \in DOMAIN files : files[j] = w.maprot[i].file ELSE -1
      voters == {p \in Used(w) : w.player[p].mapVote # -1}
      lost   == {p \in voters : Index(w.player[p].mapVote) = -1}
      v == CountVotes(
             [w EXCEPT
                !.maprot = [i \in DOMAIN files |-> [file |-> files[i], votes |-> 0]],
                !.currmap = Index(w.currmap),
                !.player = [p \in Pid |->
                  IF p \notin voters \ lost THEN w.player[p]
                  ELSE [w.player[p] EXCEPT !.mapVote = Index(w.player[p].mapVote)]]],
             voters \ lost)
      People(u) == {u.player[p].who : p \in lost \cap Used(u)}
  IN  {IF People(u) # People(w) THEN Fail(u, "oldVotes")
       ELSE [u EXCEPT !.player = [p \in Pid |->
               IF p \in lost THEN [u.player[p] EXCEPT !.mapVote = -1] ELSE u.player[p]]] :
       u \in IF v.currmap = -1 THEN NextMapLoads(v) ELSE {v}}

(* server_next_map.  When the map cannot be loaded, the new list does not have it.*)
CannotLoad(w, i) ==
  UNION {ResetSettings([ReturnAllFlags(FinishStats(Choose(w, i))) EXCEPT !.clock = 0], files) :
           files \in {l \in Lists : \A j \in DOMAIN l : l[j] # w.maprot[i].file}}

ServerNextMap(w) == NextMapLoads(w) \cup UNION {CannotLoad(w, i) : i \in Winners(w)}

(* check_map_exit                                                                 *)
CheckMapExit(w) ==
  LET v == CountVotes(w, Used(w))
  IN  IF Majority(v) /\ (v.clock >= rules.vote_block_time \/ Unanimous(v)) THEN ServerNextMap(v)
      ELSE {v}

(* The end of simulate_and_broadcast_frame tells the votes, if they have changed, *)
(* and when the time has come, checks them.  (Without such a time nothing depends *)
(* on what is told.)                                                              *)
TellVotes(w) ==
  LET votes  == Cardinality(InFavor(w))
      needed == Cardinality(Used(w)) \div 2 + 1
  IN  IF votes # w.announced.votes \/ (needed # w.announced.needed /\ votes # 0)
      THEN [w EXCEPT !.announced = [votes |-> votes, needed |-> needed,
                                    wait |-> VoteAnnounceInterval]]
      ELSE w

AnnounceVotes(w) ==
  LET now == w.clock = rules.vote_block_time IN
  IF rules.vote_block_time = 0 THEN {w}
  ELSE IF w.announced.wait > 0 THEN {[w EXCEPT !.missed = IF now THEN Majority(w) ELSE @]}
  ELSE IF now THEN CheckMapExit([TellVotes(w) EXCEPT !.missed = FALSE])
  ELSE {TellVotes(w)}

NextFrame(w) == [w EXCEPT !.clock = Min({@ + 1, MaxClock}), !.announced.wait = Max({@ - 1, 0})]

--------------------------------------------------------------------------------
(* The end of a game.                                                             *)

TimeLeft(w) == rules.time_limit - w.clock
ExtraTimeLeft(w) == rules.time_limit + w.period * rules.extra_time - w.clock

(* The team has won, or the next point wins.                                      *)
ScoreEnds(w, t) ==
  \/ /\ rules.capture_limit > 0 /\ w.score[t] >= rules.capture_limit
     /\ w.score[t] - w.score[1 - t] >= rules.win_score_difference
  \/ rules.sudden_death /\ TimeLeft(w) < 0

AfterScore(w, t) == IF ScoreEnds(w, t) THEN ServerNextMap(w) ELSE {w}

--------------------------------------------------------------------------------
(* Captures.                                                                      *)

AllKindsOfFlags == \A t \in {0, 1, Wild} : TeamFlags(t) # {}
LockTeamFlags == rules.lock_team_flags /\ AllKindsOfFlags
LockWildFlags == rules.lock_wild_flags /\ AllKindsOfFlags
CaptureOnTeamFlags == rules.capture_on_team_flag \/ ~AllKindsOfFlags
CaptureOnWildFlags == rules.capture_on_wild_flag \/ ~AllKindsOfFlags

(* The flags that the carrier of f may touch to capture, with the base where.     *)
TargetKinds(p, f) ==
  LET mine == Team(p)  enemy == 1 - Team(p) IN
  CASE f[1] = Wild  -> {<<mine, mine>>, <<enemy, Wild>>, <<Wild, Wild>>}
    [] f[1] = enemy -> {<<mine, mine>>, <<Wild, Wild>>}
    [] OTHER        -> {<<enemy, mine>>, <<Wild, mine>>}

(* The targets of try_capture that its rules leave.                               *)
Targets(w, p, f, kind, base) ==
  LET mine == Team(p) IN
  {g \in TeamFlags(kind) \ {f} :
     /\ \/ CaptureOnTeamFlags /\ base = mine /\ mine \in {kind, f[1]}
        \/ CaptureOnWildFlags /\ base = Wild /\ Wild \in {kind, f[1]}
     /\ \/ rules.capture_away_from_base \/ rules.carry_own_team_flag \/ base = Wild
        \/ w.flag[g].status = "at_base"
     /\ w.flag[g].status = "carried" =>
          Team(w.flag[g].carrier) = mine /\ f[1] # mine /\ (f[1] = Wild => kind # 1 - mine)}

(* The assistant is a teammate of the capturer who carries the target, or else    *)
(* has carried the flag, or else has carried the target.                          *)
Assistant(w, p, f, g) ==
  LET carried == w.flag[f]
      target  == w.flag[g]
      ass == IF target.status = "carried" THEN target.carrier
             ELSE IF /\ carried.prev = -1 \/ Team(carried.prev) # Team(p)
                     /\ target.prev # p THEN target.prev
             ELSE carried.prev
  IN  IF ass = -1 \/ Team(ass) # Team(p) THEN -1 ELSE ass

(* What try_capture does about target g, and player_captures_flag.                *)
CaptureAt(w, p, f, g, reverse) ==
  LET v == [w EXCEPT !.score[Team(p)] = @ + 1, !.player[p].carriedFlag = "none"]
      u == ReturnFlag(v, IF reverse THEN g ELSE f)
      x == IF u.flag[g].status = "carried" THEN DropFlagIfAny(u, u.flag[g].carrier) ELSE u
  IN  AfterScore(ReturnFlag(x, IF reverse THEN f ELSE g), Team(p))

--------------------------------------------------------------------------------
Init ==
  /\ rules \in Settings
  /\ player = [p \in Pid |-> None]
  /\ flag = [f \in Flags |-> AtBase] /\ carried_by = [f \in Flags |-> {}]
  /\ rock = [r \in Rocket |-> None] /\ db = None
  /\ score = [t \in {0, 1} |-> 0] /\ clock = 0 /\ current_extra_time_period = 1
  /\ gameover = FALSE
  /\ \E files \in Lists :
       maprot = [i \in DOMAIN files |-> [file |-> files[i], votes |-> 0]]
  /\ currmap \in DOMAIN maprot /\ announced = NotAnnounced /\ missed = FALSE
  /\ stage = "messages" /\ counted = 0
  /\ failed = "none"

--------------------------------------------------------------------------------
(* Messages, between two frames.                                                  *)

(* Mutant: the clock goes on when the second player comes.                        *)
SecondInTime(w) == IF Cardinality(Used(w)) # 2 THEN {w} ELSE CtfGameRestart(w)

(* A second player starts a new game.                                             *)
Second(w) == IF Cardinality(Used(w)) # 2 THEN {w}
             ELSE {[v EXCEPT !.clock = 0] : v \in CtfGameRestart(w)}

(* client_connected: in the smaller team.                                         *)
Join(who) ==
  /\ stage = "messages"
  /\ \A p \in Used(W) : player[p].who # who
  /\ \E t \in {0, 1} :
       /\ Cardinality(Members(W, t)) <= Cardinality(Members(W, 1 - t))
       /\ FreePlaces(W, t) # {}
       /\ LET added == [W EXCEPT !.player[Min(FreePlaces(W, t))] = NewPlayer(who)]
          IN  Becomes(UNION {{v} \cup TeamChange(v) : v \in Second(added)})
  /\ UNCHANGED <<stage, counted>>

(* client_disconnected: then players may change teams, and the votes may suffice. *)
Leave(p) ==
  /\ stage = "messages" /\ player[p] # None
  /\ LET v == Forget(RemovePlayer(W, p), player[p].who)
     IN  Becomes(UNION {CheckMapExit(u) : u \in {v} \cup TeamChange(v)})
  /\ UNCHANGED <<stage, counted>>

(* data_change_team_on, and server_think_after_broadcast.                         *)
ChangeTeams ==
  /\ stage = "messages"
  /\ Becomes(TeamChange(W))
  /\ UNCHANGED <<stage, counted>>

(* data_map_exit_on, data_map_exit_off                                            *)
MapExit(p) ==
  /\ stage = "messages" /\ player[p] # None
  /\ Becomes(CheckMapExit([W EXCEPT !.player[p].want_map_exit = ~@]))
  /\ UNCHANGED <<stage, counted>>

(* data_map_vote, for a map of the list or for none.                              *)
MapVote(p) ==
  /\ stage = "messages" /\ player[p] # None
  /\ \E vote \in {-1} \cup DOMAIN maprot :
       /\ player[p].mapVote # vote
       /\ Becomes(CheckMapExit([W EXCEPT !.player[p].mapVote = vote]))
  /\ UNCHANGED <<stage, counted>>

(* An administrator's forcemap: the map that he votes for, or this one again.     *)
ForceMap ==
  /\ stage = "messages" /\ Used(W) # {}
  /\ \E i \in DOMAIN maprot \cap ({currmap} \cup {player[p].mapVote : p \in Used(W)}) :
       Becomes(ServerNextMap([W EXCEPT !.maprot[i].votes = 99]))
  /\ UNCHANGED <<stage, counted>>

(* An administrator's reset, with the files that there are now.                   *)
Reload ==
  /\ stage = "messages"
  /\ \E files \in Lists : Becomes(ResetSettings(W, files))
  /\ UNCHANGED <<stage, counted>>

(* data_drop_flag, with no effect on the flag under a deathbringer.               *)
DropFlag(p) ==
  /\ stage = "messages" /\ player[p] # None /\ HasFlag(W, p) /\ player[p].infected = None
  /\ Becomes({DropFlagIfAny(W, p)})
  /\ UNCHANGED <<stage, counted>>

(* data_suicide                                                                   *)
Suicide(p) ==
  /\ stage = "messages" /\ p \in Alive(W) /\ player[p].infected = None
  /\ Becomes(KillPlayer(W, p))
  /\ UNCHANGED <<stage, counted>>

(* simulate_and_broadcast_frame ends the plaque in time and starts the game; a    *)
(* frame begins if there is no plaque.                                            *)
BeginFrame ==
  /\ stage = "messages"
  /\ gameover' = FALSE
  /\ clock' = IF gameover THEN 0 ELSE clock
  /\ stage' = "physics"
  /\ UNCHANGED <<rules, player, flag, rock, db, score, current_extra_time_period, failed,
                 maprot, currmap, announced, missed, counted, carried_by>>

(* A frame of the plaque.                                                         *)
PlaqueFrame ==
  /\ stage = "messages" /\ gameover
  /\ Becomes({NextFrame(w) : w \in AnnounceVotes(W)})
  /\ UNCHANGED <<stage, counted>>

--------------------------------------------------------------------------------
(* simulateFrame: before the players' turns.                                      *)

Infect(p, owner) == [W EXCEPT !.player[p].infected = owner]

(* simulatePlayerPrePhysics: a deathbringer's effect goes on or ends.             *)
DeathbringerEffect(p) ==
  /\ stage = "physics" /\ p \in Alive(W) /\ player[p].infected # None
  /\ Becomes(DamagePlayer(W, p) \cup {Infect(p, None)})
  /\ UNCHANGED <<stage, counted>>

(* An explosion hits a player, a friend with friendly_db.                         *)
DeathbringerHits(p) ==
  /\ stage = "physics" /\ p \in Alive(W) /\ db # None /\ player[p].infected = None
  /\ Becomes({Infect(p, db)})
  /\ UNCHANGED <<stage, counted>>

(* cleanOldDeathbringerExplosions                                                 *)
DeathbringerEnds ==
  /\ stage = "physics" /\ db # None
  /\ Becomes({[W EXCEPT !.db = None]})
  /\ UNCHANGED <<stage, counted>>

(* rocketHitPlayerCallback                                                        *)
RocketHitsPlayer(r, p) ==
  /\ stage = "physics" /\ rock[r] # None /\ p \in Alive(W)
  /\ Becomes({[v EXCEPT !.rock[r] = None] : v \in DamagePlayer(W, p)})
  /\ UNCHANGED <<stage, counted>>

(* rocketHitWallCallback, rocketOutOfBoundsCallback                               *)
RocketEnds(r) ==
  /\ stage = "physics" /\ rock[r] # None
  /\ Becomes({[W EXCEPT !.rock[r] = None]})
  /\ UNCHANGED <<stage, counted>>

(* playerHitPlayerCallback of opponents, the first with a deathbringer or shield. *)
PlayersCollide(p, q) ==
  /\ stage = "physics" /\ {p, q} \subseteq Alive(W) /\ Team(p) # Team(q)
  /\ Becomes({Infect(q, [pid |-> p, who |-> player[p].who])} \cup DamagePlayer(W, q))
  /\ UNCHANGED <<stage, counted>>

(* respawnPlayer, for some who have waited.                                       *)
Respawn ==
  /\ stage = "physics"
  /\ \E P \in SUBSET (Used(W) \ Alive(W)) :
       player' = [p \in Pid |-> IF p \in P THEN [player[p] EXCEPT !.dead = FALSE, !.infected = None]
                                ELSE player[p]]
  /\ stage' = "players"
  /\ UNCHANGED <<rules, flag, rock, db, score, clock, current_extra_time_period, gameover,
                 maprot, currmap, announced, missed, counted, failed, carried_by>>

--------------------------------------------------------------------------------
(* simulateFrame: simulatePlayerPostPhysics for the players in a random order.    *)

HisTurn(p) == stage = "players" /\ counted = 0 /\ p \in Alive(W)

(* getFreeRocket takes any when none is free.                                     *)
ShootRocket(p) ==
  /\ HisTurn(p)
  /\ \E r \in IF \E r \in Rocket : rock[r] = None THEN {r \in Rocket : rock[r] = None}
              ELSE Rocket :
       Becomes({[W EXCEPT !.rock[r] = [pid |-> p, who |-> player[p].who]]})
  /\ UNCHANGED <<stage, counted>>

MaySteal(p, f) ==
  /\ flag[f].status # "carried" /\ ~HasFlag(W, p)
  /\ CASE f[1] = Wild        -> ~LockWildFlags
       [] f[1] = 1 - Team(p) -> ~LockTeamFlags
       [] f[1] = Team(p)     -> ~LockTeamFlags /\ rules.carry_own_team_flag

TouchFlag(p, f) ==
  /\ HisTurn(p) /\ player[p].infected = None
  /\ MaySteal(p, f)
  /\ Becomes({Steal(W, p, f)})
  /\ UNCHANGED <<stage, counted>>

(* A player returns his team's flag from the ground.                              *)
ReturnOwnFlag(p, f) ==
  /\ HisTurn(p) /\ player[p].infected = None
  /\ ~rules.carry_own_team_flag /\ f[1] = Team(p) /\ flag[f].status = "dropped"
  /\ Becomes({ReturnFlag(W, f)})
  /\ UNCHANGED <<stage, counted>>

TryCapture(p, f, g) ==
  /\ HisTurn(p) /\ player[p].infected = None
  /\ flag[f].carrier = p
  /\ \E kind \in TargetKinds(p, f) :
       /\ g \in Targets(W, p, f, kind[1], kind[2])
       /\ Becomes(CaptureAt(W, p, f, g, kind[1] # kind[2]))
  /\ UNCHANGED <<stage, counted>>

(* Mutant: as many extra-time periods as it takes.                                *)
EndlessTimeCheck(w) ==
  LET tied == w.score[0] = w.score[1] IN
  IF Cardinality(Used(w)) <= 1 \/ rules.time_limit = 0 THEN {w}
  ELSE IF TimeLeft(w) = 0 /\ (tied => rules.extra_time = 0 /\ ~rules.sudden_death)
  THEN ServerNextMap(w)
  ELSE IF ExtraTimeLeft(w) = 0 /\ tied THEN {[w EXCEPT !.period = @ + 1]}
  ELSE {w}

(* The time limit, and extra-time periods for a tied game.                        *)
TimeCheck(w) ==
  LET tied == w.score[0] = w.score[1] IN
  IF Cardinality(Used(w)) <= 1 \/ rules.time_limit = 0 THEN {w}
  ELSE IF TimeLeft(w) = 0 /\ (tied => rules.extra_time = 0 /\ ~rules.sudden_death)
  THEN ServerNextMap(w)
  ELSE IF ExtraTimeLeft(w) = 0 /\ rules.extra_time > 0
  THEN IF rules.extra_time_periods > w.period /\ tied THEN {[w EXCEPT !.period = @ + 1]}
       ELSE ServerNextMap(w)
  ELSE IF TimeLeft(w) = 0 THEN {[w EXCEPT !.period = 1]}
  ELSE {w}

(* What follows simulateFrame; then the frame counter moves on.                   *)
FrameOf(worlds) == {NextFrame(w) : w \in UNION {AnnounceVotes(v) : v \in worlds}}

(* team_gets_carrying_point                                                       *)
CarryingPoint(w, t) == [w EXCEPT !.score[t] = @ + 1]

(* After the players' turns, the wild flags one after another, where there are no *)
(* others: one has been carried long enough for a point.  A game that ends by it  *)
(* is checked for nothing more.                                                   *)
CarryWildFlag(f) ==
  /\ stage = "players" /\ TeamFlags(0) \cup TeamFlags(1) = {}
  /\ flag[f].status = "carried" /\ f[2] > counted
  /\ LET t == Team(flag[f].carrier)
         w == CarryingPoint(W, t)
     IN  /\ score[t] < MaxPoints
         /\ \/ /\ ~ScoreEnds(w, t)
               /\ Becomes({w})
               /\ counted' = f[2] /\ UNCHANGED stage
            \/ /\ ScoreEnds(w, t)
               /\ Becomes(FrameOf(ServerNextMap(w)))
               /\ stage' = "messages" /\ counted' = 0

(* The end of simulateFrame.                                                      *)
EndFrame ==
  /\ stage = "players"
  /\ Becomes(FrameOf(TimeCheck(W)))
  /\ stage' = "messages" /\ counted' = 0

--------------------------------------------------------------------------------
Messages ==
  \/ \E who \in Person : Join(who)
  \/ \E p \in Pid : Leave(p) \/ DropFlag(p) \/ Suicide(p)
  \/ \E p \in Pid : MapExit(p) \/ MapVote(p)
  \/ ChangeTeams \/ ForceMap \/ Reload \/ BeginFrame \/ PlaqueFrame

SimulateFrame ==
  \/ \E p \in Pid : DeathbringerEffect(p) \/ DeathbringerHits(p) \/ ShootRocket(p)
  \/ \E r \in Rocket : RocketEnds(r) \/ \E p \in Pid : RocketHitsPlayer(r, p)
  \/ \E p, q \in Pid : PlayersCollide(p, q)
  \/ \E p \in Pid, f \in Flags : TouchFlag(p, f) \/ ReturnOwnFlag(p, f)
  \/ \E p \in Pid, f, g \in Flags : TryCapture(p, f, g)
  \/ \E f \in Flags : CarryWildFlag(f)
  \/ DeathbringerEnds \/ Respawn \/ EndFrame

Next == failed = "none" /\ (Messages \/ SimulateFrame)

Spec == Init /\ [][Next]_vars

--------------------------------------------------------------------------------
(* Properties.                                                                    *)

Player == [who : Person, dead : BOOLEAN, carriedFlag : {"none", "own", "enemy", "wild"},
           infected : {None} \cup Owner, want_map_exit : BOOLEAN,
           mapVote : {-1} \cup 1 .. Cardinality(rules.maps)]

FlagState == [status : {"at_base", "carried", "dropped"}, carrier : Pid \cup {-1},
              prev : Pid \cup {-1}, prev_prev : Pid \cup {-1}]

Worlds == [player : [Pid -> Player \cup {None}], flag : [Flags -> FlagState],
           rock : [Rocket -> Owner \cup {None}], db : Owner \cup {None},
           score : [{0, 1} -> Nat], clock : 0 .. MaxClock, period : 1 .. Periods,
           over : BOOLEAN, maprot : Seq([file : rules.maps, votes : Nat]), currmap : Int,
           announced : [votes : Nat, needed : Nat, wait : 0 .. VoteAnnounceInterval],
           missed : BOOLEAN,
           failed : {"none", "add_flag_take", "dropFlagIfAny", "oldVotes"},
           by : [Flags -> SUBSET Person]]

(* Type invariant.                                                                *)
TypeOK == /\ rules \in Settings /\ W \in Worlds
          /\ Len(maprot) <= Cardinality(rules.maps) /\ currmap \in DOMAIN maprot
          /\ stage \in {"messages", "physics", "players"} /\ counted \in Nat

(* The flags' carriers and the players' statistics, kept in two places by captures, *)
(* drops, deaths, moves and restarts, agree: each carrier is a living player with  *)
(* one flag of the kind that he is said to have, so no nAssert about them fails.   *)
CarriersMatchFlags ==
  /\ failed \in {"none", "oldVotes"}
  /\ \A f \in Flags : LET c == flag[f].carrier IN
       /\ (c # -1) = (flag[f].status = "carried")
       /\ c # -1 => c \in Alive(W) /\ player[c].carriedFlag = Kind(c, f)
  /\ \A p \in Used(W) : Cardinality(CarriedBy(W, p)) = IF HasFlag(W, p) THEN 1 ELSE 0

(* Who is held responsible for a rocket, an explosion or an infection is the one  *)
(* whose it is, however he or others have changed places, or nobody if he left.   *)
HasOwner(s) == s # None => \/ s.pid = Gone /\ maxplayers < MAX_PLAYERS
                           \/ s.pid \in Used(W) /\ player[s.pid].who = s.who
KillsAreCredited ==
  maxplayers < MAX_PLAYERS =>
    /\ \A r \in Rocket : HasOwner(rock[r])
    /\ HasOwner(db)
    /\ \A p \in Used(W) : HasOwner(player[p].infected)

(* Whatever capture comes next, its assistant is another player, and one who has  *)
(* carried one of its flags; with one exception, the carriers of the flags of     *)
(* their own team.                                                                *)
AssistantsHelped ==
  \A f, g \in Flags : flag[f].status = "carried" /\ f # g =>
    LET p   == flag[f].carrier
        ass == Assistant(W, p, f, g)
    IN  \/ ass = -1
        \/ Team(p) \in {f[1], g[1]} /\ rules.carry_own_team_flag
        \/ /\ ass # p /\ ass \in Used(W)
           /\ player[ass].who \in carried_by[f] \cup carried_by[g]

(* While the plaque is shown, and in the rest of the frame in which the game      *)
(* ended, nothing of the last game goes on: whoever is left has to respawn.       *)
PlaqueIsQuiet ==
  gameover => /\ Alive(W) = {} /\ \A f \in Flags : flag[f] = AtBase
              /\ score = [t \in {0, 1} |-> 0]
              /\ db = None /\ \A r \in Rocket : rock[r] = None

(* Games of two players and more do end: by score, and by time, although their    *)
(* ends are tests for equality that a lone player does not take; only a tied game *)
(* in sudden death goes on.                                                       *)
GamesEnd ==
  Cardinality(Used(W)) >= 2 /\ ~gameover /\ stage = "messages" =>
    /\ \A t \in {0, 1} : ~ (/\ rules.capture_limit > 0 /\ score[t] >= rules.capture_limit
                            /\ score[t] - score[1 - t] >= rules.win_score_difference)
    /\ rules.time_limit > 0 /\ clock > rules.time_limit + Periods * rules.extra_time =>
         rules.extra_time = 0 /\ rules.sudden_death /\ score[0] = score[1]

(* The votes counted for each map are those of the players, each for a map of the  *)
(* list, through moves, new lists and new maps, where the votes are kept by their *)
(* number in the list.  And a majority never waits for its map: all when they      *)
(* agree, more than half when the time is over in which others can stop them, but *)
(* if the end of that time is missed.                                             *)
VotesMatchPlayers ==
  /\ \A p \in Used(W) : player[p].mapVote \in {-1} \cup DOMAIN maprot
  /\ W = CountVotes(W, Used(W))
MajorityIsHeard ==
  /\ Used(W) # {} => ~Unanimous(W)
  /\ Majority(W) /\ ~missed => clock <= rules.vote_block_time /\ rules.vote_block_time > 0
VotesDecide == failed = "none" /\ stage = "messages" => VotesMatchPlayers /\ MajorityIsHeard

(* The world is a game of flags and scores: flags do not pass from hand to hand   *)
(* or move with their carriers to another team, and what ends a game ends it for  *)
(* all flags.                                                                     *)
Holder(f) == CASE flag[f].status = "carried" -> player[flag[f].carrier].who
               [] flag[f].status = "dropped" -> "ground"
               [] OTHER                      -> "base"

Game == INSTANCE FlagGame WITH Player <- Person, holder <- [f \in Flags |-> Holder(f)],
                               score <- score

ImplementsFlagGame == Game!Spec

--------------------------------------------------------------------------------
(* The inductive invariant behind these properties.                               *)

(* CarriersMatchFlags, said of carriers: nobody carries two flags, and whoever is *)
(* said to have one carries it.                                                   *)
Held(w) ==
  /\ w.failed \in {"none", "oldVotes"}
  /\ \A f \in Flags : LET c == w.flag[f].carrier IN
       /\ (c # -1) = (w.flag[f].status = "carried")
       /\ c # -1 => c \in Alive(w) /\ w.player[c].carriedFlag = Kind(c, f)
  /\ \A f, g \in Flags : w.flag[f].carrier = w.flag[g].carrier /\ f # g => w.flag[f].carrier = -1
  /\ \A p \in Used(w) : HasFlag(w, p) => \E f \in Flags : w.flag[f].carrier = p

(* Nobody plays in two places.                                                    *)
Distinct(w) == \A p, q \in Used(w) : w.player[p].who = w.player[q].who => p = q

Sound(w) ==
  w \in Worlds /\ Len(w.maprot) <= Cardinality(rules.maps) /\ Held(w) /\ Distinct(w)

(* KillsAreCredited, with the place of those who left.                            *)
Rightful(w, s) == s # None => \/ s.pid = Gone
                              \/ s.pid \in Used(w) /\ w.player[s.pid].who = s.who

Owned(w) ==
  maxplayers < MAX_PLAYERS =>
    /\ \A r \in Rocket : Rightful(w, w.rock[r])
    /\ Rightful(w, w.db)
    /\ \A p \in Used(w) : Rightful(w, w.player[p].infected)

(* PlaqueIsQuiet.                                                                 *)
Calm(w) ==
  w.over => /\ Alive(w) = {} /\ \A f \in Flags : w.flag[f] = AtBase
            /\ w.score = [t \in {0, 1} |-> 0]
            /\ w.db = None /\ \A r \in Rocket : w.rock[r] = None

IInv ==
  /\ rules \in Settings
  /\ Sound(W) /\ Owned(W) /\ Calm(W)
  /\ currmap \in DOMAIN maprot
  /\ stage \in {"messages", "physics", "players"} /\ counted \in Nat
  /\ stage = "physics" => ~gameover

--------------------------------------------------------------------------------
(* The invariant behind AssistantsHelped: those who are named as carrier and      *)
(* previous carriers of a flag have carried it, and are there, but for names that *)
(* carriers of the flags of their own team leave behind; no one is named twice.   *)
Named(w, f, q) == IF f[1] = Team(q) THEN rules.carry_own_team_flag
                  ELSE q \in Used(w) /\ w.player[q].who \in w.by[f]
Traced(w) == \A f \in Flags : LET g == w.flag[f] IN
  /\ \A q \in {g.carrier, g.prev, g.prev_prev} \ {-1} : Named(w, f, q)
  /\ g.carrier # -1 => /\ g.carrier \in Used(w) /\ w.player[g.carrier].who \in w.by[f]
                       /\ g.prev # g.carrier /\ g.prev_prev = -1
  /\ g.prev # -1 => g.prev # g.prev_prev

(* The invariant behind GamesEnd: while a game goes on, no end of it has been     *)
(* passed over, neither by score nor by time, which only a lone player does.      *)
Several(w) == \E p, q \in Used(w) : p # q
Short(w) == \A t \in {0, 1} :
  ~ (/\ rules.capture_limit > 0 /\ w.score[t] >= rules.capture_limit
     /\ w.score[t] - w.score[1 - t] >= rules.win_score_difference)
Timely(w) ==
  Several(w) /\ rules.time_limit > 0 /\ w.clock > rules.time_limit =>
    IF rules.extra_time = 0 THEN rules.sudden_death /\ w.score[0] = w.score[1]
    ELSE w.clock <= rules.time_limit + w.period * rules.extra_time
Punctual(w) == ~w.over => Short(w) /\ Timely(w)

(* The invariant behind VotesDecide, in all stages: the counts are those of the   *)
(* players' votes, and a majority that is not heard has to wait.                  *)
Backers(w, i) == {p \in Used(w) : w.player[p].mapVote = i}
Ranged(w) == \A p \in Used(w) : w.player[p].mapVote \in {-1} \cup DOMAIN w.maprot
Counted(w) ==
  Ranged(w) /\ \A i \in DOMAIN w.maprot : w.maprot[i].votes = Cardinality(Backers(w, i))
Heard(w) ==
  /\ Used(w) # {} => ~Unanimous(w)
  /\ Majority(w) /\ ~w.missed => w.clock <= rules.vote_block_time /\ rules.vote_block_time > 0
Polled(w) == Counted(w) /\ Heard(w)
================================================================================
