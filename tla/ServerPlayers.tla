----------------------------- MODULE ServerPlayers -----------------------------
(* servnet.cpp and server.cpp: who is in the game.  Network clients are admitted  *)
(* by clientHello, which reserves a place, and take it with client_connected; the *)
(* bot thread fills the rest with bots, which make room for humans; players have  *)
(* a team and may ask to change it.                                               *)
(*                                                                                *)
(* Every step is what one thread does while it holds threadLockMutex.  The bot    *)
(* thread releases it between the three calls by which a bot joins.               *)
EXTENDS Integers, FiniteSetsExt, SequencesExt

CONSTANTS Human, Bot,    \* network clients, and local connections for bots
          None, maxplayers,
          MinBots, BotsFill, BalanceBot, \* settings
          TeamBalance    \* setting: "none", "balance" or "shuffle"

TSIZE == maxplayers \div 2
Pid == 0 .. (maxplayers - 1)
Client == Human \cup Bot

ASSUME MaxPlayersAssumption == maxplayers \in Nat /\ maxplayers >= 2 /\ maxplayers % 2 = 0
(* What the server keeps of a player in the game, and how far a client has come.  *)
Player == [cid : Client, is_bot : BOOLEAN, want_change_teams : BOOLEAN, waits : BOOLEAN]
Stage == {"out", "queued", "accepted", "in", "finished"}

ASSUME ClientAssumption == Human \cap Bot = {} /\ None \notin Client \cup Player
ASSUME SettingsAssumption ==
  /\ MinBots \in Nat /\ BotsFill \in Nat /\ BalanceBot \in BOOLEAN
  /\ TeamBalance \in {"none", "balance", "shuffle"}

(* The bots that init_bots wants besides a number of humans.                      *)
NeededBots(humans) ==
  LET most   == IF BotsFill - humans > MinBots THEN BotsFill - humans ELSE MinBots
      needed == IF humans + most > maxplayers THEN maxplayers - humans ELSE most
  IN  IF BalanceBot /\ (humans + needed) % 2 = 1 THEN needed + 1 ELSE needed

ASSUME BotAssumption == \A humans \in 0 .. maxplayers : NeededBots(humans) <= Cardinality(Bot)

VARIABLES
  player,       \* pid -> None or [cid, is_bot, want_change_teams, waits]
  ctop,         \* client -> pid or -1
  player_count, bot_count, reservedPlayerSlots,
  recent,       \* the last accepted hello is less than 60 seconds old
  conn,         \* client -> how far it has come
  check_bots,
  failed        \* the nAssert that ended the program

vars == <<player, ctop, player_count, bot_count, reservedPlayerSlots, recent, conn,
          check_bots, failed>>

(* The part that the functions of this program pass around, as a value.           *)
Game == [player |-> player, ctop |-> ctop, players |-> player_count, bots |-> bot_count,
         conn |-> conn, failed |-> failed]

Becomes(games) == \E g \in games :
  /\ player' = g.player /\ ctop' = g.ctop /\ conn' = g.conn
  /\ player_count' = g.players /\ bot_count' = g.bots
  /\ failed' = g.failed

Used(g) == {p \in Pid : g.player[p] # None}
Team(p) == p \div TSIZE
TeamOf(g, t) == {p \in Used(g) : Team(p) = t}
Size(g, t) == Cardinality(TeamOf(g, t))
Places(t) == {p \in Pid : Team(p) = t}
Bots(g) == {p \in Used(g) : g.player[p].is_bot}
Humans(g) == g.players - g.bots

(* Every outcome of f(_, x) on some outcome of what went before.                  *)
Then(f(_, _), games, x) == UNION {f(g, x) : g \in games}
InOrder(f(_, _), g, seq) == FoldLeft(LAMBDA games, x : Then(f, games, x), {g}, seq)

--------------------------------------------------------------------------------
(* Teams.                                                                         *)

(* A player that has changed teams has no wish to and may not for 10 seconds.     *)
Moved(pl) == [pl EXCEPT !.want_change_teams = FALSE, !.waits = TRUE]

MovePlayer(g, f, t) ==
  [g EXCEPT !.player = [@ EXCEPT ![f] = None, ![t] = Moved(g.player[f])],
            !.ctop = [@ EXCEPT ![g.player[f].cid] = t]]

SwapPlayers(g, a, b) ==
  [g EXCEPT !.player = [@ EXCEPT ![a] = Moved(g.player[b]), ![b] = Moved(g.player[a])],
            !.ctop = [@ EXCEPT ![g.player[a].cid] = b, ![g.player[b].cid] = a]]

(* Mutant: moves to a team with as many players, too.                             *)
MoveAnyway(delta) == delta <= 0

(* A team with two players less takes the player before a trade is looked for.    *)
MoveFirst(delta) == delta <= -2

(* check_player_change_teams: move, trade with one who wants to go the other way, *)
(* or change places with a bot, which one depending on their lives and flags.     *)
ChangeTeams(g, p) ==
  IF g.player[p] = None \/ ~g.player[p].want_change_teams \/ g.player[p].waits THEN {g}
  ELSE
  LET other  == 1 - Team(p)
      delta  == Size(g, other) - Size(g, Team(p))
      free   == Places(other) \ Used(g)
      trades == {i \in TeamOf(g, other) : g.player[i].want_change_teams}
      bots   == Bots(g) \cap TeamOf(g, other)
  IN  IF MoveFirst(delta) /\ free # {}         THEN {MovePlayer(g, p, Min(free))}
      ELSE IF delta <= 0 /\ trades # {}        THEN {SwapPlayers(g, p, Min(trades))}
      ELSE IF delta = -1 /\ free # {}          THEN {MovePlayer(g, p, Min(free))}
      ELSE IF g.bots = 0 \/ g.player[p].is_bot \/ bots = {} THEN {g}
      ELSE {SwapPlayers(g, p, b) : b \in bots}

(* check_team_changes, in random order.                                           *)
CheckTeamChanges(g) ==
  UNION {InOrder(ChangeTeams, g, order) :
           order \in SetToSeqs({p \in Used(g) : g.player[p].want_change_teams})}

(* balance_teams moves random players one by one.                                 *)
MoveOne(g, k) ==
  LET t == IF Size(g, 0) > Size(g, 1) THEN 0 ELSE 1 IN
  IF Size(g, t) - Size(g, 1 - t) <= 1 THEN {g}
  ELSE {MovePlayer(g, p, Min(Places(1 - t) \ Used(g))) : p \in TeamOf(g, t)}

BalanceTeams(g) == InOrder(MoveOne, g, [i \in 1 .. TSIZE |-> i])

(* shuffle_teams: the k-th red player changes places with the k-th player of a    *)
(* random order, if that one is blue at the start.                                *)
SwapShuffled(g, h, order, i) ==
  LET k == Cardinality({p \in TeamOf(g, 0) : p <= i}) IN
  IF i \notin Used(g) \/ Team(order[k]) = 0 THEN {h} ELSE {SwapPlayers(h, i, order[k])}

ShuffleTeams(g) ==
  IF Cardinality(Used(g)) <= 2 THEN {g}
  ELSE UNION {InOrder(LAMBDA h, i : SwapShuffled(g, h, order, i), g, [k \in 1 .. TSIZE |-> k - 1]) :
                order \in SetToSeqs(Used(g))}

(* ctf_game_restart.                                                              *)
Restart(g) ==
  CASE TeamBalance = "none"    -> {g}
    [] TeamBalance = "balance" -> BalanceTeams(g)
    [] TeamBalance = "shuffle" -> UNION {ShuffleTeams(h) : h \in BalanceTeams(g)}

(* check_map_exit: with a player gone the votes may suffice for the next map.     *)
CheckMapExit(g) == {g} \cup Restart(g)

--------------------------------------------------------------------------------
(* Joining and leaving.                                                           *)

(* Mutant: a bot that leaves is still counted.                                    *)
BotsWithout(g, p) == g.bots

BotsAfter(g, p) == IF g.player[p].is_bot THEN g.bots - 1 ELSE g.bots

(* client_disconnected, for the client of player p.                               *)
Leave(g, p) ==
  LET c == g.player[p].cid
      h == [g EXCEPT !.player = [@ EXCEPT ![p] = None], !.ctop = [@ EXCEPT ![c] = -1],
                     !.conn = [@ EXCEPT ![c] = IF c \in Bot THEN "finished" ELSE "out"],
                     !.players = @ - 1, !.bots = BotsAfter(g, p)]
  IN  UNION {CheckMapExit(k) : k \in CheckTeamChanges(h)}

(* remove_bot: one of the bigger team, which one depending on lives and flags.    *)
RemoveBot(g) ==
  LET bigger == CASE Size(g, 0) > Size(g, 1) -> Bots(g) \cap TeamOf(g, 0)
                  [] Size(g, 1) > Size(g, 0) -> Bots(g) \cap TeamOf(g, 1)
                  [] OTHER                   -> Bots(g)
  IN  IF Bots(g) = {} THEN {[g EXCEPT !.failed = "remove_bot"]}
      ELSE UNION {Leave(g, b) : b \in IF bigger # {} THEN bigger ELSE Bots(g)}

(* The team of a new player: the smaller one; of equal ones that where all humans *)
(* are together with bots, or that with less humans, or that with less score.     *)
NewTeams(g) ==
  LET humans(t) == TeamOf(g, t) \ Bots(g)
      smaller   == {t \in {0, 1} : Size(g, t) < Size(g, 1 - t)}
      alone     == {t \in {0, 1} : /\ humans(t) # {} /\ TeamOf(g, t) \cap Bots(g) # {}
                                  /\ humans(1 - t) = {}}
      fewer     == {t \in {0, 1} : Cardinality(humans(t)) < Cardinality(humans(1 - t))}
  IN  IF smaller # {} THEN smaller
      ELSE IF alone # {} THEN alone
      ELSE IF fewer # {} THEN fewer
      ELSE {0, 1}

(* The rest of client_connected once there is room, for a client c in team t.     *)
Enter(g, c, t) ==
  LET free == Places(t) \ Used(g)
      pl   == [cid |-> c, is_bot |-> FALSE, want_change_teams |-> FALSE, waits |-> FALSE]
      h    == [g EXCEPT !.player = [@ EXCEPT ![Min(free)] = pl],
                        !.ctop = [@ EXCEPT ![c] = Min(free)],
                        !.conn = [@ EXCEPT ![c] = "in"], !.players = @ + 1]
  IN  IF free = {} THEN {[g EXCEPT !.failed = "myself != -1"]}
      ELSE UNION {CheckTeamChanges(k) : k \in IF h.players = 2 THEN Restart(h) ELSE {h}}

(* client_connected.  A human takes the place of a bot when the game is full.     *)
Connected(g, c) ==
  UNION {IF h.failed # "none" THEN {h}
         ELSE IF h.players >= maxplayers THEN {[h EXCEPT !.failed = "maxplayers - 1"]}
         ELSE UNION {Enter(h, c, t) : t \in NewTeams(h)} :
         h \in IF g.players >= maxplayers THEN RemoveBot(g) ELSE {g}}

--------------------------------------------------------------------------------
Init ==
  /\ player = [p \in Pid |-> None] /\ ctop = [c \in Client |-> -1]
  /\ player_count = 0 /\ bot_count = 0 /\ reservedPlayerSlots = 0 /\ recent = FALSE
  /\ conn = [c \in Client |-> "out"]
  /\ check_bots = TRUE
  /\ failed = "none"

(* Reservations of the last minute; older ones are dropped.                       *)
Reserved == IF recent THEN reservedPlayerSlots ELSE 0

(* Mutant: reserved places are given away.                                        *)
HasPlaceNow == player_count - bot_count < maxplayers

HasPlace == player_count + Reserved - bot_count < maxplayers

(* clientHello accepts client c; a rejected one changes nothing but Reserved.  A  *)
(* network client may repeat its hello until it has seen the reply.               *)
Hello(c) ==
  /\ HasPlace
  /\ reservedPlayerSlots' = Reserved + 1
  /\ recent' = TRUE
  /\ conn' = [conn EXCEPT ![c] = "accepted"]
  /\ UNCHANGED <<player, ctop, player_count, bot_count, check_bots, failed>>

HumanHello(c) == conn[c] \in {"out", "accepted"} /\ Hello(c)

(* Leetnet drops a client that never says more.                                   *)
HandshakeFails(c) ==
  /\ conn[c] = "accepted"
  /\ conn' = [conn EXCEPT ![c] = "out"]
  /\ UNCHANGED <<player, ctop, player_count, bot_count, reservedPlayerSlots, recent,
                 check_bots, failed>>

(* 60 seconds pass after a hello; Leetnet has dropped its client much earlier.    *)
ReservationAges ==
  /\ recent /\ \A c \in Client : conn[c] # "accepted"
  /\ recent' = FALSE
  /\ UNCHANGED <<player, ctop, player_count, bot_count, reservedPlayerSlots, conn,
                 check_bots, failed>>

ClientConnected(c) ==
  /\ conn[c] = "accepted"
  /\ IF reservedPlayerSlots = 0
     THEN Becomes({[Game EXCEPT !.failed = "reservedPlayerSlots"]})
     ELSE Becomes(Connected(Game, c))
  /\ reservedPlayerSlots' = reservedPlayerSlots - 1
  /\ check_bots' = TRUE
  /\ UNCHANGED recent

(* client_disconnected: the client's bye, a kick or a timeout.  Nobody kicks a bot *)
(* before it is known as one.                                                     *)
ClientDisconnected(c) ==
  /\ ctop[c] # -1 /\ (c \in Bot => player[ctop[c]].is_bot)
  /\ Becomes(Leave(Game, ctop[c]))
  /\ check_bots' = TRUE
  /\ UNCHANGED <<reservedPlayerSlots, recent>>

--------------------------------------------------------------------------------
(* The bot thread.                                                                *)

(* The bots of the vector bots, which run: joining, in the game, or thrown out.   *)
Running == {b \in Bot : conn[b] # "out"}

(* A bot that is about to join; the bot thread runs one at a time.                *)
Joining == {b \in Bot : \/ conn[b] = "accepted"
                        \/ ctop[b] # -1 /\ ~player[ctop[b]].is_bot}

(* init_bots, once every bot it started before has had its turn.                  *)
InitBots ==
  LET needed  == NeededBots(Humans(Game))
      surplus == bot_count - needed
      missing == needed - Cardinality(Running)
  IN
  /\ check_bots /\ Joining = {} /\ \A b \in Bot : conn[b] # "queued"
  /\ IF surplus > 0
     THEN /\ Becomes(InOrder(LAMBDA g, k : RemoveBot(g), Game, [k \in 1 .. surplus |-> k]))
          /\ check_bots' = TRUE
     ELSE /\ check_bots' = FALSE
          /\ \E B \in SUBSET (Bot \ Running) :
               /\ Cardinality(B) = IF missing > 0 THEN missing ELSE 0
               /\ conn' = [b \in Client |-> IF b \in B THEN "queued" ELSE conn[b]]
          /\ UNCHANGED <<player, ctop, player_count, bot_count, failed>>
  /\ UNCHANGED <<reservedPlayerSlots, recent>>

(* A new bot connects: ClientServerLocalConnection::connect expects that it is    *)
(* accepted.                                                                      *)
BotHello(b) ==
  /\ conn[b] = "queued" /\ Joining = {}
  /\ \/ Hello(b)
     \/ /\ ~HasPlace
        /\ failed' = "res.accepted"
        /\ UNCHANGED <<player, ctop, player_count, bot_count, reservedPlayerSlots, recent,
                       conn, check_bots>>

(* data_bot, which a bot sends first of all.                                      *)
BotIsBot(b) ==
  /\ ctop[b] # -1 /\ ~player[ctop[b]].is_bot
  /\ player' = [player EXCEPT ![ctop[b]].is_bot = TRUE]
  /\ bot_count' = bot_count + 1
  /\ UNCHANGED <<ctop, player_count, reservedPlayerSlots, recent, conn, check_bots, failed>>

(* Mutant: a bot that has gone is not replaced.                                   *)
BotEndsQuietly(b) ==
  /\ conn[b] = "finished" /\ Joining = {}
  /\ conn' = [conn EXCEPT ![b] = "out"]
  /\ UNCHANGED <<player, ctop, player_count, bot_count, reservedPlayerSlots, recent,
                 check_bots, failed>>

(* The bot thread erases a bot that was thrown out.                               *)
BotEnds(b) ==
  /\ conn[b] = "finished" /\ Joining = {}
  /\ conn' = [conn EXCEPT ![b] = "out"]
  /\ check_bots' = TRUE
  /\ UNCHANGED <<player, ctop, player_count, bot_count, reservedPlayerSlots, recent, failed>>

--------------------------------------------------------------------------------
(* The game thread, and requests of the players.                                  *)

ChangeTeamOn(c) ==
  LET p == ctop[c] IN
  /\ p # -1 /\ ~player[p].want_change_teams
  /\ Becomes(CheckTeamChanges([Game EXCEPT !.player[p].want_change_teams = TRUE]))
  /\ UNCHANGED <<reservedPlayerSlots, recent, check_bots>>

ChangeTeamOff(c) ==
  /\ ctop[c] # -1 /\ player[ctop[c]].want_change_teams
  /\ player' = [player EXCEPT ![ctop[c]].want_change_teams = FALSE]
  /\ UNCHANGED <<ctop, player_count, bot_count, reservedPlayerSlots, recent, conn,
                 check_bots, failed>>

(* team_change_time passes.                                                       *)
MayChangeAgain(p) ==
  /\ player[p] # None /\ player[p].waits
  /\ player' = [player EXCEPT ![p].waits = FALSE]
  /\ UNCHANGED <<ctop, player_count, bot_count, reservedPlayerSlots, recent, conn,
                 check_bots, failed>>

(* server_think_after_broadcast: team changes player by player, each counted      *)
(* before its own; then a bot of a team that is two larger changes.               *)
CountAndChange(gt, p) ==
  IF gt.g.player[p] = None THEN {gt}
  ELSE {[g |-> h, team |-> [gt.team EXCEPT ![Team(p)] = @ + 1]] : h \in ChangeTeams(gt.g, p)}

(* (Mutant: the bot must wait for its team_change_time.)                          *)
MoveBotInTime(g, t) ==
  LET bots == Bots(g) \cap TeamOf(g, t) IN
  IF g.bots = 0 \/ bots = {} THEN {g}
  ELSE UNION {ChangeTeams([g EXCEPT !.player[b].want_change_teams = TRUE], b) : b \in bots}

MoveBot(g, t) ==
  LET bots == Bots(g) \cap TeamOf(g, t) IN
  IF g.bots = 0 \/ bots = {} THEN {g}
  ELSE UNION {ChangeTeams([g EXCEPT !.player[b].want_change_teams = TRUE,
                                    !.player[b].waits = FALSE], b) : b \in bots}

Thought == UNION {
  CASE gt.team[0] - gt.team[1] >= 2 -> MoveBot(gt.g, 0)
    [] gt.team[1] - gt.team[0] >= 2 -> MoveBot(gt.g, 1)
    [] OTHER                        -> {gt.g} :
  gt \in InOrder(CountAndChange, [g |-> Game, team |-> [t \in {0, 1} |-> 0]],
                 [k \in 1 .. maxplayers |-> k - 1])}

Think ==
  /\ Becomes(Thought)
  /\ UNCHANGED <<reservedPlayerSlots, recent, check_bots>>

(* server_next_map, after a game or a vote.                                       *)
NextMap ==
  /\ Becomes(Restart(Game))
  /\ UNCHANGED <<reservedPlayerSlots, recent, check_bots>>

--------------------------------------------------------------------------------
BotThread == \/ InitBots
             \/ \E b \in Bot : BotHello(b) \/ ClientConnected(b) \/ BotIsBot(b) \/ BotEnds(b)

PlayersJoinOrLeave ==
  \/ \E c \in Human : HumanHello(c) \/ HandshakeFails(c) \/ ClientConnected(c)
  \/ \E c \in Client : ClientDisconnected(c)

Steps ==
  \/ PlayersJoinOrLeave \/ BotThread \/ ReservationAges \/ Think \/ NextMap
  \/ \E c \in Human : ChangeTeamOn(c) \/ ChangeTeamOff(c)
  \/ \E p \in Pid : MayChangeAgain(p)

Next == failed = "none" /\ Steps

Spec == Init /\ [][Next]_vars

(* Fairness: the bot thread loops forever.                                        *)
FairSpec == Spec /\ WF_vars(failed = "none" /\ BotThread)

--------------------------------------------------------------------------------
(* Properties.                                                                    *)

(* The tables that map players to clients and back, and the counters, agree after *)
(* any joins, moves, trades and shuffles: the nAssert of update_serverinfo.       *)
CountsMatchPlayers ==
  /\ \A c \in Client : ctop[c] # -1 => player[ctop[c]] # None /\ player[ctop[c]].cid = c
  /\ \A p \in Used(Game) : ctop[player[p].cid] = p /\ conn[player[p].cid] = "in"
  /\ player_count = Cardinality(Used(Game))
  /\ bot_count = Cardinality(Bots(Game))
  /\ reservedPlayerSlots \in 0 .. maxplayers

(* Admission keeps what it promises: there is a place for every client that was   *)
(* accepted, a bot's at worst, so no nAssert of client_connected and remove_bot   *)
(* fails.  (That a bot is always accepted is another matter.)                     *)
AcceptedClientsFit == failed \in {"none", "res.accepted"}

(* Team changes, trades and restarts never make teams less even.                  *)
Difference == IF Size(Game, 0) > Size(Game, 1) THEN Size(Game, 0) - Size(Game, 1)
              ELSE Size(Game, 1) - Size(Game, 0)
ChangesKeepBalance == [][player_count' = player_count => Difference' <= Difference]_vars

(* After a frame a team that has two players more than the other has no bots, or  *)
(* the frame has made the teams more even (it moves only one bot).                *)
ThinkUsesBots == [][Think => \A t \in {0, 1} :
  Size(Game', t) - Size(Game', 1 - t) >= 2 =>
    Bots(Game') \cap TeamOf(Game', t) = {} \/ Difference' < Difference]_vars

(* When nobody joins or leaves any more of his own accord, the bots settle at the *)
(* number that the settings ask for, although removals, replacements and new      *)
(* checks overlap.                                                                *)
PlayersSettle == <>[][~PlayersJoinOrLeave]_vars
BotsSettle == PlayersSettle => <>[](failed # "none" \/ bot_count = NeededBots(Humans(Game)))

(* nAssert(res.accepted) of ClientServerLocalConnection::connect.                 *)
BotsAreAccepted == failed # "res.accepted"

--------------------------------------------------------------------------------
(* The inductive invariant behind the first two.                                  *)

Games == [player : [Pid -> Player \cup {None}], ctop : [Client -> Pid \cup {-1}],
          players : Nat, bots : Nat, conn : [Client -> Stage],
          failed : {"none", "res.accepted"}]

TypeOK ==
  /\ Game \in Games
  /\ reservedPlayerSlots \in Nat /\ recent \in BOOLEAN /\ check_bots \in BOOLEAN

Tables(g) ==
  /\ \A c \in Client : g.ctop[c] # -1 => g.player[g.ctop[c]] # None /\ g.player[g.ctop[c]].cid = c
  /\ \A p \in Used(g) : g.ctop[g.player[p].cid] = p /\ g.conn[g.player[p].cid] = "in"
Counts(g) == g.players = Cardinality(Used(g)) /\ g.bots = Cardinality(Bots(g))

(* Each accepted client has a reservation, and the reservations are of places that *)
(* no human has.  A bot that has not said yet that it is one counts as a human.    *)
Accepted(g) == {c \in Client : g.conn[c] = "accepted"}
Reserves(g, reserved, recently) ==
  /\ IsFiniteSet(Accepted(g)) /\ Cardinality(Accepted(g)) <= reserved
  /\ Accepted(g) # {} => recently
  /\ Humans(g) + reserved <= maxplayers
ReservationsInv == Reserves(Game, reservedPlayerSlots, recent)

IInv == TypeOK /\ Tables(Game) /\ Counts(Game) /\ ReservationsInv
================================================================================
