-------------------------------- MODULE MCWorld --------------------------------
(* Small instances of World for TLC.                                              *)
EXTENDS World, TLC

Symmetry == Permutations(Person)

(* Two flags, and weapons.                                                        *)
Plain == [flags |-> {<<0, 1>>, <<1, 1>>}, carry_own_team_flag |-> FALSE,
          capture_on_team_flag |-> TRUE, capture_on_wild_flag |-> FALSE,
          lock_team_flags |-> FALSE, lock_wild_flags |-> FALSE,
          capture_away_from_base |-> FALSE,
          capture_limit |-> 2, win_score_difference |-> 1, sudden_death |-> FALSE,
          time_limit |-> 0, extra_time |-> 0, extra_time_periods |-> 1,
          balance_teams |-> "balance",
          maps |-> {"m1"}, vote_block_time |-> 0, require_specific_map_vote |-> FALSE]

(* Own flags may be carried, with reverse captures.                               *)
Reversed == [Plain EXCEPT !.flags = {<<0, 1>>, <<2, 1>>}, !.carry_own_team_flag = TRUE,
                          !.capture_on_wild_flag = TRUE, !.capture_limit = 1,
                          !.balance_teams = "no"]

(* All kinds of flags, of which only the wild one may be taken.                   *)
Locked == [Plain EXCEPT !.flags = @ \cup {<<2, 1>>}, !.lock_team_flags = TRUE, !.capture_limit = 1,
                        !.balance_teams = "shuffle"]

(* A wild flag with points for carrying it, and extra time.                       *)
Timed == [Plain EXCEPT !.flags = {<<2, 1>>}, !.capture_limit = 0, !.time_limit = 1,
                       !.extra_time = 1, !.extra_time_periods = 2]

(* The same with sudden death.                                                    *)
SuddenDeath == [Timed EXCEPT !.sudden_death = TRUE, !.extra_time = 0,
                             !.balance_teams = "no"]

(* Two wild flags, both of which may give a point in a frame.                     *)
TwoCarried == [Timed EXCEPT !.flags = @ \cup {<<2, 2>>}, !.capture_limit = 2, !.time_limit = 0,
                            !.balance_teams = "no"]

(* Votes that only all can win in the first frames.                               *)
VotesInTime == [Plain EXCEPT !.flags = {}, !.vote_block_time = 2]

(* Votes for maps, of which some come and go.                                     *)
VotesForMaps == [Plain EXCEPT !.flags = {}, !.maps = {"m1", "m2"},
                              !.require_specific_map_vote = TRUE]

MCSettings ==
  {Plain, Reversed, Locked, Timed, SuddenDeath, TwoCarried, VotesInTime, VotesForMaps}

FlagsUsed == \E f \in Flags : flag[f] # AtBase
Shots == {r \in Rocket : rock[r] # None}
Infected == {p \in Used(W) : player[p].infected # None}

Weapons == Cardinality(Shots) + Cardinality(Infected) + (IF db = None THEN 0 ELSE 1)

(* Bounds: flags and weapons take turns, and weapons are used in one setting before *)
(* anybody scores, two rockets, explosions or infections at a time between two      *)
(* players, and one among three.                                                    *)
OneAtATime ==
  \/ Weapons = 0
  \/ /\ rules = Plain /\ ~FlagsUsed /\ \A t \in DOMAIN score : score[t] = 0
     /\ Weapons + Cardinality(Used(W)) <= 4

(* With own flags or two wild ones to carry, and with maps to vote for, two of the *)
(* people play at a time.                                                         *)
FewPlayers == rules \in {Reversed, TwoCarried, VotesForMaps} => Cardinality(Used(W)) <= 2

(* Who votes does nothing else, votes for a map where there are some, and nobody   *)
(* votes elsewhere.                                                               *)
VotesAside ==
  /\ rules \in {VotesInTime, VotesForMaps} => Alive(W) = {}
  /\ rules # VotesForMaps => \A p \in Used(W) : player[p].mapVote = -1
  /\ rules \in {VotesInTime, VotesForMaps} \/ \A p \in Used(W) : ~player[p].want_map_exit
================================================================================
