# Outgun: TLA+ models, checks and proofs

Outgun is a networked capture-the-flag game. A dedicated (or listening) server
runs the game and sends ten frames per second over UDP; clients send their
controls back; both exchange *reliable messages* (names, chat, team changes, map
changes, scores) in the same datagrams. Bots are clients inside the server
process. This directory models the parts of the program where order, loss and
threads decide whether it is correct: `src/src/leetnet/` (transport, client
slots, the client's connection, threads), the part of `src/src/servnet.cpp` and
`src/src/server.cpp` that decides who is in the game, on which side and on which
map, the client's side of a map change, and the rules of the game in
`src/src/world.cpp`.

Run a model with `tlc -config X.cfg M.tla` and check the proofs with `tlapm MProofs.tla`;
the modules whose names end in `Proofs` hold the theorems.
`PROJECT.json` lists the runs, the source lines behind each definition, the
hazards, the findings and, for each property, a plausible bug in the code that
makes the property fail.

## 1. The system: inventory

| Component | State | Operations | Hard behaviour | What makes it correct |
|---|---|---|---|---|
| **Reliable transport** `leetnet/rudp.cpp` (`station_ci`) | outgoing slots `reliable[]` with `reliable_count`, `reliable_size`; queue `extra_reliables`; message and packet id counters; `ack`; window `message[]`, `msg_current` | `writer`, `send_packet`, `process_incoming_packet`, `read_reliable` | loss, duplication, reordering; two threads per station; fixed slots, window and packet size | FIFO, exactly once, nothing stranded; counters agree with slots |
| **Client slots and threads** `leetnet/server.cpp` (`server_ci`) | `client[]` (flags, countdown, station, locks), `num_clients`, `server_stopped` | `start`, `stop`, `server_think`, `process_incoming_datagram`, `process_client_data`, `disconnect_client`, `free_slave`, `try_send_disconnect`, `reserveClientId`, `returnClientId` | master, one slave per slot, disconnectors, game and bot threads on shared unlocked flags; three levels of mutexes; joins | a slot serves one client; it is not freed under its slave; it is given back; no deadlock; `stop` returns |
| **Leetnet client** `leetnet/client.cpp` (`client_ci`) | `want_connect`, `connect_status`, tries, the reader thread and its quit flag, the count of connectors, station | `connect`, `disconnect`, `stop_connect`, `nice_disconnect_done`, the reader, connector and disconnector threads | unlocked flags shared by four threads; whoever ends the connection must stop the reader, sometimes from the reader; late and lost answers | no reader is forgotten or joined twice; the game and the connection agree; commands return; threads end before the station does |
| **Server networking** `servnet.cpp` | `ctop`, `clientConnection`, `player_count`, `bot_count`, `reservedPlayerSlots`, file transfers, master-server and admin-shell jobs | `clientHello`, `client_connected`, `client_disconnected`, `incoming_client_data`, `broadcast_frame`, `upload_next_file_chunk` | a place is promised and taken in two calls of different threads; callbacks that re-enter | an accepted client gets a place; counters and tables agree |
| **Local connections** `localconnection.cpp` | message and frame queues, `connected`, delay | connect, disconnect, send and receive | both sides may close | as the network's |
| **Game server** `server.cpp` | players' wishes to change teams, `check_bots`, votes, rotation, game over | `check_team_changes`, `balance_teams`, `shuffle_teams`, `server_think_after_broadcast`, `init_bots`, `remove_bot`, `run_bot_thread`, `check_map_exit`, `server_next_map`, kicks | functions that call each other back in mid-change; the bot thread | teams never get less even; bots settle |
| **World** `world.cpp` | flags with their carriers and previous carriers, rockets, deathbringers, scores, the clock | flag pick-up, drop, return, `try_capture`; deaths, moves, `simulateFrame`, `reset` | player numbers stored in many places while players leave and change places; games that end in mid-frame | one carrier per flag; captures, kills and assists go to those who earned them; games end |
| **Client base** `clientbase.cpp`, and the downloads of `guiclient.cpp` | pending thread messages, `map_ready`, download queue, `clientReadiesWaiting` | handles server data, map changes and downloads, sends readies | two threads; map changes overtake downloads; a counter without a mutex | the server waits exactly for those who still lack the map |
| **Authorisation, settings, game mods** | tables from files | look-ups | sequential | - |
| **Robots, GUI, graphics, sounds, map generator, tools** | - | presentation, heuristics, stand-alone programs | floating point, I/O | not protocol logic |

How they interact. The *master* thread of leetnet's server reads all datagrams,
puts each in the mailbox of its sender's slot and signals the slot's *slave*. The
slave runs the packet through its `station` (rudp) and calls the game:
`helloCallback` (`clientHello`), `connectedCallback`, `dataCallback`,
`disconnectedCallback`. Each callback takes `threadLockMutex`, which the *game
thread* holds for a frame and the *bot thread* for starting and moving bots.
Bots have `LocalConnection` objects instead of sockets and share the numbers of
the client slots.

On the client, the *main thread* handles commands, draws, and works on what the
network thread leaves in `messageQueue`, with `frameMutex` locked most of the time;
the *reader* of `client_ci` runs packets through its `station` and calls
`process_incoming_data`, which locks `frameMutex` as well. A *connector* thread per
attempt sends hellos, a *disconnector* byes.

## 2. Plan

First what everything else rests on, then inwards.

1. Transport: `FifoChannel` (the promise), `RudpOutgoing`, `Rudp`, `RudpProofs`,
   `RudpSlots`. **Done**, with proofs for all instances (`RudpOutgoingProofs`,
   `RudpSlotsProofs`).
2. Slots and threads: `LeetServer`. **Done**, with proofs for all instances of its safety
   inside leetnet and of its link to the game's players (`LeetServerProofs`).
3. Who is in the game: `ServerPlayers`. **Done**, with proofs for all instances
   (`ServerPlayersProofs`); that bots settle stays with TLC.
4. The client's connection: `LeetClient`. **Done**, with all its threads interleaved and
   proofs for all instances of what holds in every interleaving (`LeetClientProofs`). It has
   the server and the network as an environment; its composition with a slot of `LeetServer`
   is left.
5. The game: `World`, shown to implement `FlagGame`. **Done**, with proofs for all
   instances (`WorldProofs`).
6. Map changes and downloads, server and client together: `MapChange`. **Done**, with
   proofs for all instances (`MapChangeProofs`).
7. `RudpLive`: what is written is eventually read over a fair network, and the port
   search of `station_ci`.
8. Votes, map rotation, and what happens when a map cannot be loaded, in `World`, whose moves
   and restarts they meet. **Done**, with proofs for all instances (`WorldProofs`).
9. `FavColors` and the message queues of local connections.

## 3. The modules

### FifoChannel, RudpOutgoing, Rudp, RudpSlots and their proofs

`FifoChannel` says what users of leetnet rely on: in each direction, messages are
read once, in the order written, and nothing else is read.

`Rudp` has two stations and the set of packets each has ever sent. A packet may be
processed never, once, again, or out of order, so the network loses, duplicates
and reorders without any action of its own.

| Code | Model |
|---|---|
| `reliable[0..MAXMSG-1]`, used entries | `reliable[s]`, a function from the ids in use to `[body, sent]` |
| `extra_reliables`, `idgen_*`, `ack`, `msg_current` | the variables of the same names |
| `msg[MAX_INCOMING_MESSAGES]` | `message[s]`, indexed by `Index(id)` |
| `writer` (under `relmsg_mutex`) | `WriteReliable` |
| `send_packet` before and after `relmsg_mutex.lock()` | `SendBegin`, `SendFinish` |
| `process_incoming_packet`: messages, `ack =`, the ack loop under `relmsg_mutex` | `StorePacket`, `AckPacket`, `ReleaseAcked` |
| `read_reliable` | `ReadReliable` |

A station has two threads: one writes and sends, one processes packets and reads.
The three parts of packet processing and the two parts of sending interleave
freely. `StorePacket` requires `~Ready(s)` because the callers of
`process_incoming_packet` (the slave and the client's reader) read messages until
there are none before they take the next packet.

`ReleaseAcked` does in one step what the code does with two nested loops over an
array. `RudpSlots` is that code: slot by slot, with running counters. Its
`LoopReleasesAcked` says that the loops, when they end, have done exactly the step
of `Rudp`, so the two models together cover the code.

Ids are natural numbers. The code's are 32 bits, compared with `<` and `<=`; at ten
packets per second they would wrap after 13 years. Raw packets, unreliable data
(which have no state) and the port search are left out.

### LeetServer, LeetServerProofs

One record `client[i]` per `client_t`; `at[t]` says where thread `t` is. An action is
what a thread does up to the next point at which another thread can see or change
what it works on. In particular `disconnect_client` is three actions (callback,
`server_disconnected = true`, countdown and disconnector), because it runs without
a lock in the master, in slaves and in the game thread; `server_think` decides to
free a slot in `ThinkFree` and gets the lock for it in `LockToFree`; `num_clients--`
in a slave is a read and a write; a data packet is tested against the flags of its slot
(`ProcessData`) before `connected_knows` is set (`KnowConnected`) and the callbacks are made.

`session[i]` and `sessions` are history variables: they tell the client of a slot
from the next one. `mail` is the datagram in the master's hands, `client[i].packet`
the slot's mailbox, which a new datagram overwrites as in the code.
Packets come from any address in any order (`Receive`), so lost and duplicate
packets are included. A new client's slot is set up (`AllocateSlot`) unless its address cannot
be set (`CannotAllocateSlot`). Times are not modelled: a countdown is `"unset"` (0.0, always
over), `"running"` or `"passed"`.

`clientConnection` stands for the game's side of a slot: 0, the session it was made
for, or `Local`. `WaitsFor(t, h)` says which thread waits for which, to release a mutex or to
end. `threadLock` is taken to be on, its default. Ping, server info, lag
status and the sending of frames change nothing here and are left out.

### ServerPlayers, ServerPlayersProofs

One step per thing done under `threadLockMutex`. The functions that call each other
(`client_connected` -> `remove_bot` -> `client_disconnected` -> `check_team_changes`
-> `move_player`...) are operators from a value `g` (the tables and counters) to the
set of values they may produce; `Game` is the present value and `Becomes` takes one
of the results. Where the code uses `rand()`, or lives, flags and scores that the
model does not have, every choice is possible.

| Code | Model |
|---|---|
| `world.player[pid]`, `ctop` | `player`, `ctop` |
| `player_count`, `bot_count`, `reservedPlayerSlots` | the same |
| `playerSlotReservationTime` within 60 s | `recent` |
| `team_change_time` in the future | `waits` |
| the `bots` vector and the clients' progress | `conn`: out, queued, accepted, in, finished |
| a failed `nAssert` | `failed`, after which nothing happens |
| `clientHello` | `HumanHello`, `BotHello` (`Hello`, `HasPlace`) |
| `client_connected`, `client_disconnected` | `ClientConnected`, `ClientDisconnected` (`Connected`, `Leave`) |
| `data_bot`, `data_change_team_on`, `_off` | `BotIsBot`, `ChangeTeamOn`, `ChangeTeamOff` |
| `server_think_after_broadcast` | `Think` |
| `server_next_map`, `ctf_game_restart` | `NextMap`, `Restart` |
| `init_bots`, one pass of `run_bot_thread` over a bot | `InitBots`, `BotHello` .. `BotIsBot`, `BotEnds` |

Votes are a free choice (`CheckMapExit` may or may not restart). `extra_bots` is 0, as
`Server::start` sets it. Bots over the network (a log line of the server mentions
them) are not modelled: `is_bot` is set for local bots only. Nobody kicks a bot
before it is known as one: only an administrator could, within microseconds.
`HandshakeFails` stands for leetnet's drop of a silent client, `ReservationAges` for a
minute without a hello, which is longer than any handshake (the comment at
`servnet.cpp:3294`).

### LeetClient, LeetClientProofs

`client_ci` with its threads, and the game's main thread that calls `connect` and
`disconnect`. Each attempt has its own socket, reader and connector; `pc[t]` says where
thread `t` is. The threads share `want_connect`, `connect_status` and the rest under no lock
but `readerThreadManipulationMutex`, so a step ends wherever another thread can come
between: each test of a flag and each assignment that follows it is a step of its own, and
any thread may take the next one. The server is an environment: it answers an attempt or
does not, with one verdict per attempt, sends data, and ends the connection when it likes;
any packet may be lost, or late until the socket closes.

| Code | Model |
|---|---|
| `prepareForConnect`, `connect` | `Connect`, `TestStatus`, `TestDisconnecting` |
| `start_connect` | `StartConnect`, `ClearStation`, `OpenSocket` or `CannotOpenSocket`, `StartReader`, `StartConnector`, `CountConnector` |
| `disconnect` | `Disconnect`, `IsConnected`, `GiveUpConnecting`, `JoinDisconnector` |
| `start_disconnect`, `disconnect_try` | `StartDisconnect`, `StartDisconnector`, `DisconnectTry` |
| `stop_connect`, `nice_disconnect_done`, in any thread | `Stop`, `NiceDisconnectDone`, `LockReader`, `JoinReader`, `Reset`, `SetDisconnected`, `UnlockReader` |
| `connect_try`, `thread_connect_f` | `ConnectTry`, `SendConnect`, `TimeOut`, `NoResponse`, `ConnectorLeaves`, `ConnectorEnds` |
| `process_incoming_datagram`, `thread_reader_f` | `Receive`, `ReceiveAccepted` and `Accept`, `ReceiveRejected`, `ReceiveDisconnected` and `Reply`, `ReceiveData`, `QuitReader`, `ReadOn` |
| `process_incoming_data`, which locks `frameMutex` | `ProcessIncomingData` |
| `connectionCallback` -> `connection_update` -> `messageQueue` | `Report` |
| `handlePendingThreadMessages` | `HandlePendingThreadMessages` |
| `~client_ci` | `Exit`, `Destroy` |

Two history variables tell executions apart and stop none. `collided` becomes true when a
thread decides on the connection by what another has changed since, or works on an old
connection while the main thread sets up the next (`Collides` in the actions where this can
happen); `miscounted` when two updates of `connect_threads_running` meet, which the comment
at `leetnet/client.cpp:136` concedes. What holds in all executions is stated without them
(`ReadersAreJoined`, `JoinsAreSound`); what the unlocked flags break is stated with them
(`GameKnows`, `ConnectorsAreWaitedFor`), and the executions in which it breaks are in section 7:
the last part of the module states what the code's comments and assertions promise of them.

Abstractions: appending to `messageQueue` and `tries_left--` are one step each;
`Thread::join` sets `running` in the step that locks the mutex; data packets can arrive as
long as the server has the client; commands of the player stand for everything that makes
the main thread call `disconnect_command` (a format error, too, which is queued for it as
`TM_DoDisconnect`). What becomes of a packet that is processed while another thread resets
the station, and of threads after `delete station`, is undefined in the code and left out:
the steps before are in the model.

### MapChange, MapChangeProofs

The server's `server_next_map`, its count `awaiting_client_readies` of readies to wait for,
and the upload of one file; reliable messages, which `FifoChannel` promises, and frames,
which may be lost or overtake; the client's network thread and main thread.

| Code | Model |
|---|---|
| `send_map_change_message` | `SendMapChange` |
| `processMessage`: ready, file request, ack; `upload_next_file_chunk` | `ProcessReady`, `ProcessRequest`, `ProcessAck`, `UploadNextFileChunk` |
| `process_message` (map change), `process_live_frame_data` | `ReceiveMapChange`, `ReceiveFrame` |
| `process_udp_download_chunk` up to and from `++clientReadiesWaiting` | `ReceiveChunk`, `CountReady` |
| `handlePendingThreadMessages`: `client_connected`, `client_disconnected`, `server_map_command` | `HandleConnected`, `HandleDisconnected`, `HandleMapChange` |
| `check_download` | `CheckDownload` |
| `send_client_ready` and `--clientReadiesWaiting` in `loop` | `SendReady`, `ReadySent` |

`clientReadiesWaiting` is incremented by the network thread under `frameMutex` and
decremented by the main thread without it, although `clientbase.h:44` puts it under that
mutex. `increment` and `decrement` hold the value that an update under way has read; `raced`
becomes true when the two meet. The properties of the passing run are about executions in
which they have not; the model contains the others, too, and `NoReadyIsLost`, which makes no
exception, fails in them (section 7).

A file has `Chunks` chunks; contents, checksums and the look-up of the file on the server
are left out. `disk` is emptied of a map when its file is opened for writing, as the code
does, so an interrupted download leaves no map that would be taken for complete.

### FlagGame, World, WorldProofs

`FlagGame` is what the players know: a flag is at its base, on the ground or with one
person, and flags and scores change by taking, dropping, returning, capturing, points
for carrying, and new games. `World` is the code, in which a flag knows the number of its
carrier and of two previous ones, a player knows what kind of flag he has, rockets,
deathbringer explosions and infections know the number of who caused them, and numbers
are given to others when players leave, move or swap. `ImplementsFlagGame` maps a
carrier's number to the person behind it. `WorldProofs` proves it for all instances (section 6).

| Code | Model |
|---|---|
| messages between two frames | `Join`, `Leave`, `ChangeTeams`, `DropFlag`, `Suicide`, `MapExit`, `MapVote`, `ForceMap`, `Reload` |
| `simulate_and_broadcast_frame`, end of the plaque | `BeginFrame` |
| a frame of the plaque; telling and checking votes after each frame | `PlaqueFrame`, `AnnounceVotes` |
| `simulateFrame` up to the players' turns, physics callbacks | `stage = "physics"`: `DeathbringerEffect` .. `Respawn` |
| `simulatePlayerPostPhysics` in random order | `stage = "players"`: `ShootRocket`, `TouchFlag`, `ReturnOwnFlag`, `TryCapture` |
| points for carrying wild flags, one after another | `CarryWildFlag` (`CarryingPoint`) |
| `check time limit` | `EndFrame` (`TimeCheck`) |
| `move_player`, `swap_players`, `removePlayer`, `killPlayer`, `ctf_game_restart`, `check_map_exit`, `server_next_map`, `reset_settings` | the operators of these names |

As in `ServerPlayers` the functions are operators from a world to the set of worlds it may
become. Distances, health and waiting times are free choices: whatever they could allow
may happen. `counted` is the wild flag that the loop over them has come to; each carried one may have been
carried long enough for a point, and the game may end by it before the others are looked at.
`who` and `carried_by` are history: the person behind a number.

Votes are kept by the number of a map in the list, and counted by `check_map_exit`, which
joins, departures and moves of players lead to by different ways. A reload gives any list
of the maps that there may be (`Lists`, never empty: without maps the server ends), with
the same rules. A map that cannot be loaded is not in the list after the reload that
follows. Without votes the next map is any: the votes against maps are left out.
`forcemap` takes the map that some player, who is the administrator, votes for.

## 4. Runs

| Run | Module, configuration | Distinct states | Shows |
|---|---|---|---|
| `rudp` | `MCRudp` | 941,423 | the properties of `Rudp`, its inductive invariant (with the types), and that it implements `FifoChannel` |
| `rudp_slots` | `MCRudpSlots` | 51,280 | the loops and counters of the ack loop are right |
| `leet_server` | `MCLeetServer`, `MCLeetServer.cfg` | 665,889 | safety of slots, locks and joins, up to the end of `stop`, and the inductive invariant |
| `leet_players` | `MCLeetServer`, `MCLeetPlayers.cfg` | 15,811 | players match slots, and slots are given back (liveness) |
| `server_players` | `MCServerPlayers`, `MCServerPlayers.cfg` | 85,921 | tables and counters agree; changes of teams keep the balance |
| `server_bots` | `MCServerPlayers`, `MCServerBots.cfg` | 11,133 | accepted clients fit; bots settle (liveness) |
| `world` | `MCWorld`, `MCWorld.cfg` | 182,958 | flags, statistics, credit for kills and assists, ends of games, votes; `World` implements `FlagGame` |
| `map_change` | `MapChange`, `MCMapChange.cfg` | 823,362 | whoever the server lets into the game has its map; downloads go on; the server's wait ends (liveness); the inductive invariant |
| `leet_client` | `LeetClient`, `MCLeetClient.cfg` | 1,331,803 | readers are neither forgotten nor joined twice; the destructor waits for the connectors; the game knows whether it is connected; the inductive invariant |
| `leet_zombie` | `MCLeetServer`, `MCLeetZombie.cfg` | to the violation | finding 1 of section 7 |
| `leet_old_end`, `leet_stop_reader` | `LeetClient`, `MCLeetOldEnd.cfg`, `MCLeetStopReader.cfg` | to the violation | findings 2 and 3 |

The passing runs explore all reachable states of their instances. Bounds, and why
they are enough:

* `rudp`: `MAXMSG = MAX_INCOMING_MESSAGES = 2`, the tightest relation the assumption
  allows, so the window fills, wraps (`Index` repeats from the third message) and is
  exactly as large as it must be. `MAX_PACKET_SIZE = 20` with messages of 2 and 14
  bytes: two small messages fit together, a big one only alone, and the queue is
  used for either reason. Three writes and three packets one way, one of each the
  other way: an ack can be old, repeated, or newer than the packets that matter. The
  proofs then drop all bounds.
* `rudp_slots`: three slots, five writes, three packets, any ack: an ack can free one,
  two or three slots, and the inner loop refills slots before and after the outer one.
* `leet_server`: one slot, two addresses, two sessions, so that a slot changes hands;
  all pairs of threads compete for it. The disconnector sends 2 packets instead of
  10: counting down is the same. More slots add no interaction but the choice of the
  first vacant one: threads of different slots share only `threadLockMutex`, the
  reservation mutex and `num_clients`.
* `leet_players`: one address, as liveness is checked without symmetry.
* `server_players`: two teams of two, three humans, up to two bots: enough for moves,
  trades, bot swaps, an uneven 2-0, a bot making room, and restarts that shuffle. The
  difference of two that `server_think_after_broadcast` acts on occurs; a difference of four,
  after which one frame is not enough, needs teams of four: `ThinkUsesBots` is proved for those.
* `server_bots`: two places, three humans and two bots, so that reservations alone
  fill the server.
* `world`: three people in four places, eight sets of rules that between them have every
  kind of flag, locked flags, own flags to carry, reverse captures, carrying points (two of them
  in one frame, with two wild flags), time
  limits, extra time, sudden death, a time in which only all can vote for another map,
  and maps that come and go. `OneAtATime` keeps weapons to the first of them
  and to states without moved flags and scores, as flags and weapons touch only through
  deaths: two weapons between two players, or one among three. `FewPlayers` allows two
  people at a time where own flags or two wild ones can be carried or maps voted for: balancing teams moves one of
  two. `VotesAside`
  keeps votes to the last two sets of rules, where nobody does anything else: votes and
  the game meet in joins, departures, moves and ends of games, which stay.
  `VoteAnnounceInterval = 2` frames, as long as the time in which only all can win, so a
  vote can be told in any frame before its end. `MaxClock` is the frame after which nothing depends on the clock.
  `maxplayers < MAX_PLAYERS`, as `KillsAreCredited` needs the last number to be nobody's.
* `map_change`: three maps of which the client has one, files of two chunks, three map
  changes, two sessions: two downloads can wait behind an active one, the same map can
  be wanted twice, and a reconnection can meet an unfinished transfer. The proofs drop
  these bounds.
* `leet_client`: two commands of the player, at any moment of each other (`connect_command`
  disconnects first), of which at most two connect: two attempts, all of whose pairs of threads
  meet, or one attempt that is cancelled or ended with the program. More tries repeat the same step.

`CHECK_DEADLOCK FALSE` everywhere: the bounded counters end each run, `stop` ends the
server, and a failed assertion ends the program.

### Fairness

* `LeetServer` (`Fairness`): threads run; a thread that waits for a mutex gets it if it
  is free again and again (strong fairness, as pthread mutexes have no queue but no
  holder returns at once); the master's loop runs `server_think` between datagrams
  forever, hence strong fairness of `ThinkFree`; time passes. Nothing is assumed of
  clients or the network. `SlotsAreReclaimed` assumes `ByesEnd`: each bye of a client
  that the server has disconnected restarts its countdown (`server.cpp:994`), so a
  client that goes on sending them keeps its slot; this is in the formula, where it
  can be seen. `leet_players` has `MayStop = FALSE` and `HandshakesCanTimeOut = FALSE`:
  without them the executions of `SlotIsCleanForNewPlayer` and `StopReturns` (section 7) break
  its properties.
* `ServerPlayers` (`FairSpec`): the bot thread loops forever. `BotsSettle` assumes that
  players stop joining and leaving of their own accord (`PlayersSettle`); removals by
  the server go on.

* `MapChange`: the server goes on handling messages, the client's two threads go on
  (weak fairness of `Server`, `NetworkThread`, `MainThread`), and the player leaves the
  menus at some time (`SendReady`: the loop sends the last ready only then). Reliable
  messages arrive, by `FifoChannel` and a network that is not dead; frames need not.
* `LeetClient`: each thread goes on when it can (weak fairness of its steps together).
  Nothing is assumed of the player, the server or the network.

## 5. Properties

* `AckedIsReceived`, `WindowHasRoom`: a packet is acked as a whole, even if a message of
  it was dropped as out of the window; what keeps messages from being lost is only
  that the sender has no more unacked ones than the window holds.
* `SlotsHoldTheWindow`: an old duplicate never occupies a slot of a later lap.
* `QueueWaitsForAcks`: only an ack moves the queue, so a message in it needs an unacked
  one before it.
* `SentIsEarlier`: the assertion of `msgrec::send`, although the packet id is taken
  before the mutex is.
* `DatagramBounded`: `can_add_reliable` does not count the new record's header, so the
  bound is `MAX_PACKET_SIZE` plus one header, or a lone message.
* `CountersMatchSlots`, `LoopReleasesAcked`: see `RudpSlots`.
* `SlaveKeepsItsSlot`: no slot is freed or given away under a slave at work.
* `SlotsAreNotShared`: no slot serves a network client and a bot.
* `NoCircularWait`: in every set of threads there is one that waits for none of the others,
  over all mutexes and joins.
* `PlayersMatchSlots`, `SlotsAreReclaimed`: the game's player of a slot is the slot's
  client; slots come back.
* `CountsMatchPlayers`: `ctop`, `player`, `player_count` and `bot_count`, after any nesting of
  joins, departures, moves, swaps and shuffles.
* `AcceptedClientsFit`: a place promised in `clientHello` can be given in `client_connected`.
* `ChangesKeepBalance`: no change of teams or restart makes teams less even.
* `ThinkUsesBots`: after a frame a team that is two players larger has no bots, or the frame
  has made the teams more even, although the code counts teams while it changes them. A frame
  moves one bot, so with four players against none and bots among them it takes two frames.
* `BotsSettle`: bots reach the wanted number, although a bot that was thrown out blocks
  its own replacement until the bot thread has erased it.

* `ReadersAreJoined`, `JoinsAreSound`: a reader that has not ended is the one that the next
  end of the connection joins, or is being joined, or has detached itself; whoever joins it
  is alone in that, has told it to quit, and no new attempt takes the order back. Both in
  every interleaving.
* `GameKnows`: unless threads have collided, game and connection agree at rest, whichever side
  and thread ended it, and nothing is left of it.
* `ConnectorsAreWaitedFor`: unless two updates of their number have met, no connector is left
  when the station is deleted.
* `ReadiesAreCounted`: each map change that the server counts is in exactly one place: on
  the way, in the thread queue, a download, a waiting ready, or a ready under way.
* `PlayersHaveTheMap`: when the count is zero, the client has loaded the server's map.
* `NobodyMisbehaves`: no side does what the other throws it out for.
* `DownloadGoesOn`, `PlayersGetIn`: no download is stuck, no player waited for forever.
* `CarriersMatchFlags`, `ImplementsFlagGame`: the flags' and the players' records of who
  carries what agree, in whatever order captures, deaths, moves and restarts nest.
* `KillsAreCredited`, `AssistantsHelped`: a number stored in a rocket, an explosion, an
  infection or a flag means the same person later, or nobody.
* `PlaqueIsQuiet`, `GamesEnd`: nothing of the last game goes on during the plaque; games
  end although the clock is compared for equality.
* `VotesDecide`: the counts of `maprot` are those of the players' votes, which are numbers
  in the list, through moves, reloads and new maps; and a majority never waits, but for the
  end of the time in which all must agree, unless that frame was missed.

## 6. Proofs

### Transport

`RudpProofs` proves, for every `Station`, `Message`, `Size`, `MAXMSG`,
`MAX_INCOMING_MESSAGES`, `MAX_PACKET_SIZE`, and without use of the bounds `MaxWrites` and
`MaxPackets`:

| Theorem | |
|---|---|
| `TypeCorrect` | `Spec => []TypeOK` |
| `NoMessageIsLost` | `Spec => []AckedIsReceived` |
| `NothingIsDropped` | `Spec => []WindowHasRoom` |
| `NothingIsStranded` | `Spec => []QueueWaitsForAcks` |
| `AssertionHolds` | `Spec => []SentIsEarlier` |
| `NothingIsStale` | `Spec => []SlotsHoldTheWindow` |
| `DatagramsAreBounded` | `Spec => []DatagramBounded` |
| `Refinement` | `Spec => ImplementsFifoChannel` |

Assumptions: `StationAssumption` (each station is its peer's peer), `MessageAssumption`
(the empty slot is not a message), `SizeAssumption` (sizes are natural numbers),
`CapacityAssumption`, of which the part that matters
is `MAXMSG <= MAX_INCOMING_MESSAGES`, which the constants of `rudp.cpp` satisfy: both
are 64 (`rudp.cpp:53` and `57`).

The argument. None of the properties is inductive. That a freed message was
received (`AckedIsReceived`) depends on what an ack on the network proves, which
depends on what was in the packet it names, which depends on the order in which
messages were first sent. `IInv` says each of these:

* `WrittenInv`: messages with ids, then the queue, are what was written;
* `SlotsInv`: the unacked ids are the latest ones without gap and were first sent in
  order - so the oldest unacked message bounds the distance to all others by `MAXMSG`;
* `PacketsInv`: a packet holds every message that had been sent by then and still waits;
* `AcksInv`: an ack, at rest, in a header or in a packet, proves that what was first sent
  no later than the packet it names has been received;
* `ReceiverInv`: what was read is a prefix of what was written.

`NextPreservesIInv` has one lemma per action and in it one step per conjunct that the
action touches. The arithmetic that a window of `MAX_INCOMING_MESSAGES` consecutive ids
maps to different slots is `IndexInjective`; `FillsToCapacity` says that the queue never
fills more than `MAXMSG` slots. `RoomInWindow` derives `WindowHasRoom` from `IInv`, and
`Refinement` maps `WriteReliable` to `ChanWrite`, `ReadReliable` to `ChanRead` and everything
else to a stutter.

`DatagramsAreBounded` is about `Bytes`, a sum over the slots in use. The library's theorems on
induction take an operator as a parameter, and the sum is a fold of the community modules, so
`RudpOutgoingProofs` builds what it needs with sets instead: `SubsetInduction` says that a set
of subsets of a finite set that has the empty set and, with a subset, each of its extensions
by one element, has all; it follows from the least element of a set of natural numbers
(`LeastNumber`). With the set of subsets for which a fold "is a tally" it gives that sums are
natural numbers, that equal terms give equal sums, and that one term more or less is that
much more or less (`BytesNat`, `BytesOfSame`, `BytesOfMore`, `BytesWithout`). The rest of
the argument is short: room is checked before each slot is filled, so the last one goes beyond
`MAX_PACKET_SIZE` by less than one record header (`AddedStaysBounded`, `FilledStaysBounded`), and
a slot less keeps the bound, although the exception for a lone message does not follow from
the bound alone (`FewerStayBounded`).

`RudpSlotsProofs` proves, for every number of slots, size of packets and set of messages:

| Theorem | |
|---|---|
| `Invariance` | `Spec => []IInv` |
| `CountersAreRight` | `Spec => []CountersMatchSlots` |
| `LoopIsReleaseAcked` | `Spec => []LoopReleasesAcked` |

Assumptions: `SlotAssumption` (there is a slot), `MessageAssumption`, `SizeAssumption`. The
counters are those of the used slots by `BytesOfMore` and `BytesWithout`, once no id
is in two slots (`IdsInv`), and no id is used again since ids only grow. For the loops,
`Moved` says what an ack can have made of the slots so far: some acked ones are freed, and as
many messages as fitted, in their order, have moved from the queue to slots. `LoopInv` says
where the loops are: below `loop.i` no slot is acked but not yet freed, and between two runs of
the inner loop nothing more fits or nothing was freed. `FreeSlot` and `FillSlot` keep `Moved`
(`MovedFrees`, `MovedAdds`), and at the end it is the step of `Rudp` (`MovedAll`).

### Map changes

`MapChangeProofs` proves, for every set of maps and of installed ones,
every length of a file and without use of `MaxChanges` and `MaxSessions`:

| Theorem | |
|---|---|
| `Invariance` | `Spec => []IInv` |
| `ReadiesAreCountedAlways` | `Spec => []ReadiesAreCounted` |
| `PlayersHaveTheMapAlways` | `Spec => []PlayersHaveTheMap` |
| `NobodyMisbehavesEver` | `Spec => []NobodyMisbehaves` |
| `DownloadsGoOn` | `Spec => []DownloadGoesOn` |

Assumptions: `MapsAssumption` (`None` is neither a map nor a number), `BoundsAssumption`
(a file has a chunk).

The argument. `ReadiesAreCounted` is a sum over five places, which each action moves one
unit along; what it lacks to be inductive is that nothing of an old session is left when
a new one starts. `SessionInv` says that, for each combination of the server's and the
client's view of the connection: an ended session leaves no message and at most the two
notices of it in the thread queue, a client that knows of no connection has no download, the
one that is just connecting owes exactly what is on the way to it. `CounterInv` says that a
value read by an update under way is still the counter's, unless the updates have met.
`PlayersHaveTheMap` then needs `LatestInv`: the last map change on the way names the map that
is played, and when none is on the way the client has that map or has it among its
downloads; with the sum at zero it has no download, so it has the map. The counting of
messages of a type in a sequence is a cardinality, and `CountConcat`, `CountTake` and
`CountTail` are its laws; `LatestSuffix`, `LatestRemove` and `LatestAppend` say when the
latest map change stays the latest. There is one lemma per action; the actions that
touch none of the five places share `QuietStep`.

The other two theorems are about one transfer. `TransferInv` says that the server has one exactly if
one chunk or ack is under way, that an active download either has its request under way
or is the one that the transfer serves, as far as the client has saved it and the chunk on its way;
otherwise the transfer is complete. The request of the next download follows the last ack of the
file before (`Before`), so the server has ended the one when it is asked for the next. So each message is one that
its receiver expects, and there always is one. `FrameInv` is the frames' part: no frame is in flight to
a client that has not loaded the map, and none behind a map change.

### Client slots and threads

`LeetServerProofs` proves, for every `MAX_CLIENTS`, set of addresses, number of packets of a
bye and number of sessions, with and without `stop` and timeouts of handshakes:

| Theorem | |
|---|---|
| `Invariance` | `Spec => []IInv` |
| `SlavesKeepTheirSlots` | `Spec => []SlaveKeepsItsSlot` |
| `SlotsAreNeverShared` | `Spec => []SlotsAreNotShared` |
| `ThreadsNeverWaitInCircles` | `Spec => []NoCircularWait` |

Assumptions: `SlotAssumption`, `ThreadAssumption` and `ValueAssumption` (there is a slot; the
threads that are not slaves are three different ones and none of them a number; `None` and
`Local` are nothing else), `BoundAssumption`.

The argument. The flags of a slot are read and written without a lock, so neither property of
the slots follows from the flags alone. `StationsInv` says who holds which mutex, from where the
threads are: a slave has its `station_mutex` except where it waits for a signal, and the master
has it while it frees that slot. Hence the master frees only slots whose slaves are waiting.
`VacancyInv` says that what the master has found vacant stays so until it is set up: bots take
slots only under `clientReservationMutex`, and nobody else makes a vacant slot used. With
`GameLockInv`, which says who can hold `threadLockMutex` from one step to the next (whoever
disconnects a player, or the bot thread while it looks for a slot), the waits are ordered: who
holds the game's mutex waits for nobody, unless it is the bot thread, which waits at most for the
master that sets up a slot; and that master waits at most for the slave of a vacant slot, which
is in no callback and so waits for nobody. There is one lemma per group of actions of a thread;
`SlaveStep` and `MasterStep` say what all of a thread's steps leave alone.

For the link to the game it proves:

| Theorem | |
|---|---|
| `PlayersInvariance` | `Spec => [](IInv /\ BotsInv /\ PlayersInv)` |
| `PlayersMatchTheirSlots` | `Spec => [](Quiet => PlayersMatchSlots)` |
| `SlotsAreClean` | `Spec => [](Quiet => SlotIsCleanForNewPlayer)` |

`Quiet` is `~MayStop /\ ~HandshakesCanTimeOut`, which says of the constants that nobody calls
`stop` and that no handshake takes as long as the drop timeout. It cannot be left out:
`leet_zombie` is the execution in which the timeout breaks the property (section 7). `SlotInv`
says, for each place of a slot's slave, what the flags of the slot and the game's player can be.
The difficult part is a disconnection, which runs without a lock: between the callback and
`server_disconnected = true` nothing may happen to the slot that needs the one without the other.
`Disconnects`, for the master and for who kicks, says that the slot is still taken then;
`FreesInv` that the master frees only slots whose clients are marked as disconnected; `KickInv` that
the two disconnections that can run at the same time are of different slots; `BotsInv` that the bot
thread holds `threadLockMutex` while it takes a slot. `ClientsKept` and `QuietPacketsKeepPlayers`
say which steps leave the players alone.

### Who is in the game

`ServerPlayersProofs` proves, for every even number of places, any clients and bots and all
settings:

| Theorem | |
|---|---|
| `Invariance` | `Spec => []IInv` |
| `CountsAgree` | `Spec => []CountsMatchPlayers` |
| `AcceptedFit` | `Spec => []AcceptedClientsFit` |
| `BalanceIsKept` | `Spec => ChangesKeepBalance` |
| `BotsAreUsed` | `Spec => ThinkUsesBots` |

Assumptions: `MaxPlayersAssumption` (an even number of places, two at least, as
`Server::start` asserts), `ClientAssumption` (a client is no bot's connection, and `None` is
neither a client nor a player), `SettingsAssumption`.

The argument. `IInv` adds to the properties why a client that was accepted finds a place:
each has a reservation, a reservation does not expire while somebody was accepted, and humans
and reservations together are no more than the places (`ReservationsInv`); so when the game is full a
bot is there to make room. A bot that has not said yet that it is one counts as a human, in
the code as in the invariant. It needs the counters to be right, and they are changed together with
the tables by functions that call each other; most of the proof is therefore about values `g` and not
about steps. `Rearranged(g, h)` says that `h` has the players of `g` in other places, that tables and
counters agree in it, and that the teams are no less even. `MoveRearranges` and
`SwapRearranges` show it for the two functions that move anybody, and everything else that moves
players is made of these: `ChangeTeamsRearranges`, `BalanceTeamsRearranges`,
`ShuffleTeamsRearranges`, `RestartRearranges`, `ThoughtRearranges`. `LeaveLeaves`, `RemoveBotRemoves`,
`EnterEnters` and `ConnectedConnects` then add what joining and leaving change.

The code does these things in loops, which the model writes as folds of the community modules over
sequences (`InOrder`), in all orders that `rand()` may choose. A fold is a recursive
function on the finite sets of places of the sequence. The library's theorems on such functions take an
operator as a parameter, so they are shown here with sets: `RunExists` says that there is a function
that steps from `s \ {Max(s)}` to `s` as given, `RunsAgree` that there is only one, and `RunStays` that what
holds at the empty set and is kept by each step holds for all. From these, `ChangesInOrder`,
`MovesInOrder`, `SwapsInOrder`, `RemovalsRemove` and `ThoughtsInOrder` follow for the five loops. In
`RemovalsRemove` what is kept counts the steps: after `n` removals there are `n` bots less, so
`remove_bot` never looks for one in vain.

`ThinkUsesBots` needs more of the loop in `server_think_after_broadcast`, which counts each player
just before his own change of teams: whoever moves to a place that comes later is counted twice, and
whoever moves to an earlier one once, in the team he has left. `Trusted` says why that does no harm. As
long as the teams differ by two or more, a change of teams either makes them more even, and then the
frame has done its part, or is a trade, which leaves the same places taken (`ChangeEvensOrTrades`);
after trades alone the counts are right for the places seen so far (`TurnIsTrusted`,
`ThoughtsAreTrusted`, with `RunStays` for a set that depends on how far the loop has come). With right
counts the larger team is found, and a bot of it always gets across: `team_change_time` is reset for it,
and the other team has a free place (`MoveBotEvens`).

### The client's connection

`LeetClientProofs` proves, for every number of attempts, of tries and of disconnections, and
for every interleaving:

| Theorem | |
|---|---|
| `Invariance` | `Spec => []IInv` |
| `EveryReaderIsJoined` | `Spec => []ReadersAreJoined` |
| `EveryJoinIsSound` | `Spec => []JoinsAreSound` |
| `ConnectorsEndFirst` | `Spec => []ConnectorsAreWaitedFor` |

Assumptions: `BoundsAssumption` (the bounds are numbers), `NobodyAssumption` (nobody is not a
thread). Nothing can be said of the flags at a point where another thread may have changed
them, so the invariant rests on the little that does not change under a thread. `MutexInv`:
the holder of `readerThreadManipulationMutex` is exactly the thread in the middle of ending
a connection, hence alone in it (`OneThreadHolds`). `ReaderInv`: a reader that has not
detached itself is the one `running` stands for, or its joiner holds the mutex; so
`start_connect`, which starts a reader only with the mutex locked and `running` false, does so
when nobody joins (`NobodyJoins`, `StartReaderKeeps`) and cannot clear a quit flag that
somebody waits on. `AttemptInv`: the threads of an attempt start once, after all that the
previous ones left. `DisconnectorInv`: the disconnector lives inside `disconnect()`. `CountInv`:
as long as no two updates have met, at most one thread is between reading and writing
`connect_threads_running`, and the number is that of the connectors. Most actions touch
nothing of this and share one lemma (`QuietKeeps`); the steps of ending a connection are
proved for any thread at once (`EndingKeepsTheMutex`, `EndingKeepsTheReaders`), and the others have a lemma each.

### The game

`WorldProofs` proves, for any number of places, flags, rockets and persons, and all settings:

| Theorem | |
|---|---|
| `Invariance` | `Spec => []IInv` |
| `TypesAreKept` | `Spec => []TypeOK` |
| `CarriersAgree` | `Spec => []CarriersMatchFlags` |
| `CreditIsGiven` | `Spec => []KillsAreCredited` |
| `PlaqueStaysQuiet` | `Spec => []PlaqueIsQuiet` |
| `NamesAreTraced` | `Spec => []Traced(W)` |
| `AssistantsAreRight` | `Spec => []AssistantsHelped` |
| `EndsAreNoticed` | `Spec => []Punctual(W)` |
| `GamesAreEnded` | `Spec => []GamesEnd` |
| `VotesAreCounted` | `Spec => [](failed = "none" => Polled(W))` |
| `VotesAreHeard` | `Spec => []VotesDecide` |
| `Refinement` | `Spec => ImplementsFlagGame` |

Assumptions: `PlayersAssumption` (an even number of places, two at least, and no more than
`MAX_PLAYERS`, which is less than 99: it is 32, `commont.h:312`, and `forcemap` gives its map 99
votes to make it win, `server.cpp:1320`), `SettingsAssumption` (the values that the settings may have; the maps that
there may be are finitely many, one at least), `BoundsAssumption`, `NamesAssumption` (names are not
taken for each other).

The argument. `IInv` is at the end of `World`. `Held` is `CarriersMatchFlags` said of the flags:
each flag that is carried has a living carrier whose statistics say the kind of flag he has, no one
carries two, and whoever is said to have one is the carrier of one. `Distinct`, that nobody plays
in two places, is what `move_player` and `swap_players` need to leave every person with what was
his, and what the refinement needs to say that he who takes a flag has no other. `Owned` is
`KillsAreCredited` with the numbers still in use, `Calm` is `PlaqueIsQuiet`. With the types go
the length of the list of maps, and that the current map is one of the list, by which
`server_next_map` finds the next. TLC finds no violation of `IInv` on the instance of `world`
when it is added to `MCWorld.cfg`.

An action is a chain of functions from worlds to worlds, and each of them is shown once to be of
one of a few kinds, which are kept when another follows. `Follows(w, v)`: players have moved,
died or left, and flags have at most fallen; so it is with deaths, `removePlayer`, `move_player`,
`swap_players`, balancing and shuffles. `Same(w, v)`: only votes, maps and the clock
differ; `Renewed(v)`: nothing is left of the last game; `GoesOn` is one of these, as
`check_map_exit` and the telling of votes may or may not lead to a next map. `Home(w, v, F, C)`:
the flags of `F` are at their bases and the players of `C` carry nothing, as after captures
and returns. `Ends(w, v)` is what the actions are shown to do: `v` is good, and from `w` to `v`
the game makes at most one of its moves (`Plays`). So the theorem about the invariant and the one about
`FlagGame` come from the same lemmas: `StepsAreGames` only says which of `Take`, `Drop`, `Return`,
`Capture`, `Point` and `NewGame`, or none, the move is. That a whole shuffle, or a death with what it
leads to, is one `Drop` is because `Lower` is transitive.

`AssistantsHelped` is about a step and the names a flag had before it, so it needs to be known where
these names come from: `Traced`, at the end of `World`, which TLC finds true too. A previous
carrier is somebody who has carried the flag (`by`, history) and still plays, as whoever leaves or
moves is forgotten by `resetCarrierData`. That looks only at the flags of the enemy and at the wild
ones, so names stay in flags of the leaver's own team, which he has only carried under
`carry_own_team_flag`: `Named` has this exception, and so has the property. `Follows`, `Same` and
`Home` keep `Traced`, and `Plays` goes with it in `Ends`.

`GamesEnd` bounds the clock by all periods of extra time there may be; what each frame keeps is
`Punctual`, at the end of `World`, which TLC finds true too: no score has reached the limit with
the lead that wins, and with two players and more, the clock has not passed the end of the
present period, unless the game is tied in sudden death. It is about all stages, and not
about those in which the end is tested only, since scores change in the middle of a frame, and the number of
players at any time: `Several(v) => Several(w)`, that no action but a join makes two players of one,
goes with `Follows`, `Same` and `Home`, and a join is the first of a game with two, which
starts it anew, or meets two. The comparisons for equality of `TimeCheck` hold because the clock goes up by one
(`NextFramePasses`), and is then at most one above a bound below which it was: `Clocked` is what
holds between the test of a frame and its increment (`TimeCheckClocks`, `NextFramePunctual`).
A captured flag or a score is followed by the test of the limit in the same step (`AfterScoreEnds`).

`VotesDecide` is about the time between frames, when the code has counted; what every step keeps is
`Polled`, at the end of `World`, which TLC finds true too: every vote is for a map of the list and every
map has as many as there are voters for it (`Counted`), and a majority waits at most for the end
of the time in which others can stop it, unless that was missed (`Heard`). It is kept only as long as no
`nAssert` has failed, so what a function does is `Tells(w, z)`: if `z` has not failed, `w` has not
either, and `Polled` is kept. Most functions only move people with their votes (`Resumes`, which
`Keeps` implies), and a count of votes by places is then equal to the one before because it is a count of
persons: `Distinct` makes the map from places to persons one to one (`AsManyPeople`,
`ReseatedVote`), and the votes in favour of an exit are as many as before. `check_map_exit`
counts anew and either has no majority that may decide or goes to the next map (`Answers`), where
nobody wants an exit (`Quiet`). After `reset_settings` the votes of those whose maps are gone are
counted for no map although they have one, until they are cleared, and the next map may move these
players in between: `Tallied(w, L, I)` is `Counted` but for the persons of `L` and the maps of `I`, and is kept by
`Resumes` since it names persons, not places. That the code looks for them by places is why the
proof needs `failed = "none"`: without the failure, the places have the same persons as before
(`ResetSettingsRecounts`). `I` is for the map of `forcemap`, whose 99 votes are not a count; it is
the only winner (`ForcedWins`, from `MAX_PLAYERS < 99`), and the votes for the winner are cleared
with those of its voters. The end of a frame first answers a majority whose time has come, and then moves the
clock (`AnnounceVotesAwaits`, `NextFramePolls`).

The loops of balancing, shuffling and counting are folds, treated as in `ServerPlayersProofs`
(`RunExists`, `RunsAgree`, `RunStays`).

### Only model-checked

The liveness properties (`SlotsAreReclaimed`, `BotsSettle`, `PlayersGetIn`), which are
out of the prover's reach, as `ENABLED` is; and `GameKnows`, whose
invariant would have to say for each place of each thread what the flags mean there as long
as nothing has collided. Every other invariant and action property of a passing run, and both
refinements, are proved.

## 7. Findings

Each is an interleaving that TLC finds, with the line of the code that it
contradicts. The first three have runs of their own.

1. **A player nobody removes** (`leet_zombie`). The drop timeout of `server_think` meets
   the client's first data packet. The slave is past its test of
   `server_disconnected` (`leetnet/server.cpp:1047`); the master reads `connected_knows`
   as false (338) and does not call the disconnected callback; the slave then sets it
   and calls the connected callback. The game has a player whose end it is never told
   of, and the next client of the slot fails `nAssert(!clientConnection[client_id])`
   (`servnet.cpp:3585`).
2. **The end of the last connection ends the next** (`leet_old_end`). The reader sets the status
   (`leetnet/client.cpp:592`) before it reports the end (421). The player connects in between:
   `disconnect` finds nothing to do, the messages are handled "so that the potential disconnection
   message doesn't screw up the new connection" (`clientbase.cpp:361`), and the message comes after
   that.
3. **The reader and its joiner wait for each other** (`leet_stop_reader`). A rejection is handled
   while another thread ends the attempt, which holds `readerThreadManipulationMutex` and joins
   the reader; the reader's `stop_connect`, which "also quits reader thread" (648), waits for the
   mutex (499).

The other violated properties are stated in the modules, too. To see the execution, add the
property to the configuration given:

| Property | Configuration | What happens | Contradicts |
|---|---|---|---|
| `StopReturns` of `LeetServer` | `MCLeetPlayers.cfg`, `MayStop` and `HandshakesCanTimeOut` true, in place of its properties | The master tests `server_stopped`, then allocates a slot and sets `quitflag = false` (`leetnet/server.cpp:751`) after `stop` has set it (283). The slave never ends, and `stop` joins it (301). | `leetnet/server.cpp:1182`, "isso deve garantir que nao tem mais nenhuma thread maluca" |
| `BotsAreAccepted` of `ServerPlayers` | `MCServerBots.cfg` | `init_bots` counts connected humans only, `clientHello` reserved places as well (`servnet.cpp:3330`): the hello of a new bot is rejected. `AcceptedClientsFit` shows that only a bot may find no place. | `localconnection.cpp:55`, `nAssert(res.accepted)` |
| `NoReadyIsLost` of `MapChange` | `MCMapChange.cfg` | `++clientReadiesWaiting` of the network thread (`guiclient.cpp:699`) meets `--clientReadiesWaiting` of the main thread (2795), which holds no mutex: an update is lost. | `clientbase.h:44` |
| `DetachedReadersQuit` of `LeetClient` | `MCLeetClient.cfg` | A reader that ends its connection itself detaches itself and is no longer `running`; the next `start_connect` does not wait for it and clears `quit_reader_thread` (`leetnet/client.cpp:476`) before it has looked. It reads on, from the new connection's socket. | 570 and 648, "stop connect - also quits reader thread" |
| `ConnectedHasSocket` | `MCLeetClient.cfg` | An acceptance is reported (627) and then the status set (630); the last timeout, or a disconnection, in between resets the station, and the client ends up connected all the same. | 494, "disconnected state -- THIS MUST BE THE FIRST THING" |
| `Cancelled` | `MCLeetClient.cfg` | An acceptance between the tests of `disconnect` (213 and 227) makes both false. The attempt goes on, `want_connect` is false, and no later command stops it. | 230, "just stop trying. if it gets accepted, we will reply again telling to disconnect" |
| `ThreadsAreJoined` | `MCLeetClient.cfg` | The destructor's `disconnect()` does nothing if the reader has just cleared the status: the station is deleted before its reader ends. | `thread.h:36`, `nAssert(!running)` |
| `DisconnectEnds` (a `PROPERTY`) | `MCLeetClient.cfg` | The player's command holds `frameMutex` and waits for the end of the reader, which waits for `frameMutex` (`clientbase.cpp:1570`). | `clientbase.cpp:247`, "disconnect the client here" |

Met on the way, and not stated as findings because no text of the repository says
otherwise, or because their outcome is undefined: a reader that has detached itself and is
still resetting the station when the destructor deletes it; `connection_update`, which appends
to `messageQueue` without `frameMutex` (`clientbase.h:109` asks for it), so that two threads may change
the queue at a time; a "disconnected" that overtakes its "accepted", which the game does not
take for an end (`clientbase.cpp:344`) and leaves the player at "Trying to connect..."; a reader
that a lost cancellation leaves behind, for which the next `start_connect` waits in its loop
(`leetnet/client.cpp:466`) with `frameMutex` locked; a tied game in sudden death with a time limit but no extra time, which goes on
until somebody scores; ends of time that are missed in frames with a lone player, which
is why `GamesEnd` is about two players and more. In votes:

* `reset_settings` forgets the votes for maps that are no longer there by the places that
  the voters had, after `server_next_map` may have moved them (`server.cpp:876`): another
  player's vote is cleared, and the moved player keeps a number that the list may not
  have, with which the next `check_map_exit` writes outside of the list. `World` ends such an
  execution with `failed = "oldVotes"`.
* When the time is over in which only all can vote for another map, the votes are checked
  only if none were told shortly before (`server.cpp:1608`, 1629); otherwise a majority
  waits until somebody votes or leaves. `missed` records it.

## 8. Not modelled

The map of `PROJECT.json` covers about 8 % of the program's 51,000 lines. Most of the
rest (GUI client, graphics, menus, antialiasing, sounds, robots, map generator, tools,
parsers) is presentation, arithmetic and input and output without a protocol; what is
left of the protocol code is listed here.

* Physics, rockets' flight, robots' steering: floating point. `World` leaves their outcome
  open.
* Presentation (drawing, menus, sounds, input, languages), map generator, tools, relay,
  configuration files and their parsers: sequential, and without state that others rely on.
* The master-server jobs, the admin shell and the web site thread: they poll a quit flag
  and talk to sockets; no state of the game depends on them.
* Votes in `ServerPlayers` and `MapChange`, where the next map is a free choice, and votes
  against maps.
* Powerups other than the deathbringer: counters of one player that nothing else names.
* The wrap of 32 bit ids, lag status, ping, raw packets and the port search.
* The message queues of local connections and the client's delayed sending
  (`packetDelay`, which increases the lag on purpose).
* Components marked as partly modelled or not modelled in `PROJECT.json` say in their notes
  what is left out.
