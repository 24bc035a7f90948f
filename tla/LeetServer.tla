------------------------------- MODULE LeetServer -------------------------------
(* leetnet/server.cpp: the client slots of server_ci and the threads that share   *)
(* them.                                                                          *)
(*                                                                                *)
(*   master     reads datagrams, gives each to the slot of its sender or to a new *)
(*              slot, frees the slots whose countdown is over, times clients out  *)
(*   i \in Slot the slave of slot i: handles the packets of its client            *)
(*   user       the game thread: kicks players; finally stops the server          *)
(*   bots       the bot thread: takes slots for local clients and returns them    *)
(*                                                                                *)
(* and one temporary disconnector thread per slot.  A step is what a thread does  *)
(* between two points where another one can see or change what it works on: the   *)
(* fields of client[] are read and written without a lock by most threads.        *)
(* Packets come from any address, in any order; times are arbitrary.              *)
EXTENDS Integers, FiniteSets, FiniteSetsExt

CONSTANTS MAX_CLIENTS, Address, None, Local, master, user, bots,
          DiscPackets,         \* disconnect packets that the disconnector sends (10)
          MaxSessions,         \* bound: slots allocated
          MayStop,             \* whether the game thread may call stop
          HandshakesCanTimeOut \* whether a slot may time out before its player exists

Slot == 0 .. (MAX_CLIENTS - 1)
Thread == Slot \cup {master, user, bots}
Packet == {"hello", "data", "bye"} \* 0/1, a regular packet, 0/2

ASSUME SlotAssumption == MAX_CLIENTS \in Nat \ {0}
ASSUME ThreadAssumption ==
  /\ Cardinality({master, user, bots}) = 3
  /\ {master, user, bots, None} \cap Slot = {} /\ None \notin {master, user, bots}
ASSUME BoundAssumption == DiscPackets \in Nat \ {0} /\ MaxSessions \in Nat
ASSUME ValueAssumption == None \notin Address \cup Packet /\ Local \notin Nat

VARIABLES
  client,         \* the client_t of each slot
  num_clients, server_stopped,
  at,             \* where each thread is
  on,             \* the slot that master and user work on
  mail,           \* the datagram master has read
  job,            \* the packet each slave is handling
  copy,           \* the num_clients each slave has read
  disc,           \* disconnector of each slot: "none", "run", "ended"
  station_mutex, clientReservationMutex, threadLockMutex, \* holders
  signalled,      \* station_cond_hasdata has been signalled to the waiting slave
  clientConnection, \* the game's: 0, the session it was made for, or Local
  session,        \* history: the session that each slot serves
  sessions,       \* history: number of slots allocated
  failed          \* the nAssert that ended the program

threadVars == <<at, on, mail, job, copy, disc>>
lockVars == <<station_mutex, clientReservationMutex, threadLockMutex, signalled>>
gameVars == <<clientConnection, session, sessions>>
vars == <<client, num_clients, server_stopped, threadVars, lockVars, gameVars, failed>>

Goto(t, pc) == at' = [at EXCEPT ![t] = pc]
Free(mutex) == mutex = None

Disconnecting(i) == client[i].told_disconnect \/ client[i].server_disconnected

(* droptime: "unset" is 0.0, which is always over.                                *)
CountdownOver(i) == client[i].droptime # "running"

Init ==
  /\ client = [i \in Slot |->
       [used |-> FALSE, disabled |-> FALSE, addr |-> None, connected |-> FALSE,
        connected_knows |-> FALSE, told_disconnect |-> FALSE,
        server_disconnected |-> FALSE, droptime |-> "unset", discleft |-> 0,
        discthread |-> FALSE, quitflag |-> FALSE, packet |-> None]]
  /\ num_clients = 0 /\ server_stopped = FALSE
  /\ at = [t \in Thread |-> IF t \in Slot THEN "start" ELSE "idle"]
  /\ on = [t \in {master, user} |-> 0]
  /\ mail = None
  /\ job = [i \in Slot |-> None] /\ copy = [i \in Slot |-> 0]
  /\ disc = [i \in Slot |-> "none"]
  /\ station_mutex = [i \in Slot |-> None]
  /\ clientReservationMutex = None /\ threadLockMutex = None
  /\ signalled = [i \in Slot |-> FALSE]
  /\ clientConnection = [i \in Slot |-> 0]
  /\ session = [i \in Slot |-> 0] /\ sessions = 0
  /\ failed = "none"

--------------------------------------------------------------------------------
(* disconnect_client(i), run by thread t, which may hold threadLockMutex          *)
(* (reentrant) or not.                                                            *)

SlotOf(t) == IF t \in Slot THEN t ELSE on[t]

(* The callback takes the lock unless fromUserThread; stop sets that without      *)
(* holding it.                                                                    *)
DisconnectCallback(t, i) ==
  /\ at[t] = "dc_callback" /\ i = SlotOf(t)
  /\ t = master /\ client[i].connected_knows => Free(threadLockMutex)
  /\ clientConnection' = [clientConnection EXCEPT
       ![i] = IF client[i].connected_knows THEN 0 ELSE @]
  /\ Goto(t, "dc_flag")
  /\ UNCHANGED <<client, num_clients, server_stopped, on, mail, job, copy, disc, lockVars,
                 session, sessions, failed>>

DisconnectFlag(t, i) ==
  /\ at[t] = "dc_flag" /\ i = SlotOf(t)
  /\ client' = [client EXCEPT ![i].server_disconnected = TRUE]
  /\ Goto(t, "dc_spawn")
  /\ UNCHANGED <<num_clients, server_stopped, on, mail, job, copy, disc, lockVars, gameVars,
                 failed>>

(* The countdown starts; a client that knows that it is connected is told, by a   *)
(* disconnector thread.                                                           *)
DisconnectSpawn(t, i) ==
  /\ at[t] = "dc_spawn" /\ i = SlotOf(t)
  /\ IF client[i].connected_knows
     THEN /\ failed' = IF client[i].discthread THEN "Thread::start" ELSE "none"
          /\ client' = [client EXCEPT ![i].droptime = "running",
                          ![i].discleft = DiscPackets, ![i].discthread = TRUE]
          /\ disc' = [disc EXCEPT ![i] = "run"]
     ELSE /\ client' = [client EXCEPT ![i].droptime = "running"]
          /\ UNCHANGED <<disc, failed>>
  /\ Goto(t, CASE t \in Slot -> "loop"
               [] t = master -> "idle"
               [] t = user   -> IF threadLockMutex = user THEN "idle" ELSE "stop_next")
  /\ threadLockMutex' = IF threadLockMutex = t THEN None ELSE threadLockMutex
  /\ UNCHANGED <<num_clients, server_stopped, on, mail, job, copy, station_mutex,
                 clientReservationMutex, signalled, gameVars>>

(* Mutant: goes on although no packets are left to send.                          *)
SendDisconnectUncounted(i) ==
  /\ disc[i] = "run"
  /\ IF ~client[i].used \/ client[i].told_disconnect
     THEN disc' = [disc EXCEPT ![i] = "ended"] /\ UNCHANGED client
     ELSE client' = [client EXCEPT ![i].discleft = @ - 1] /\ UNCHANGED disc
  /\ UNCHANGED <<num_clients, server_stopped, at, on, mail, job, copy, lockVars, gameVars,
                 failed>>

(* try_send_disconnect.                                                           *)
SendDisconnect(i) ==
  /\ disc[i] = "run"
  /\ IF ~client[i].used \/ client[i].told_disconnect \/ client[i].discleft <= 0
     THEN /\ disc' = [disc EXCEPT ![i] = "ended"]
          /\ UNCHANGED client
     ELSE /\ client' = [client EXCEPT ![i].discleft = @ - 1]
          /\ disc' = [disc EXCEPT ![i] = IF client[i].discleft = 1 THEN "ended" ELSE @]
  /\ UNCHANGED <<num_clients, server_stopped, at, on, mail, job, copy, lockVars, gameVars,
                 failed>>

--------------------------------------------------------------------------------
(* free_slave(i), run by thread t, which holds station_mutex of i.                *)

JoinDisconnector(t, i) ==
  /\ at[t] = "join" /\ i = SlotOf(t)
  /\ IF client[i].discthread
     THEN /\ client' = [client EXCEPT ![i].discleft = 0]
          /\ Goto(t, "joining")
     ELSE Goto(t, "free") /\ UNCHANGED client
  /\ UNCHANGED <<num_clients, server_stopped, on, mail, job, copy, disc, lockVars,
                 gameVars, failed>>

DisconnectorJoined(t, i) ==
  /\ at[t] = "joining" /\ i = SlotOf(t) /\ disc[i] = "ended"
  /\ client' = [client EXCEPT ![i].discthread = FALSE]
  /\ disc' = [disc EXCEPT ![i] = "none"]
  /\ Goto(t, "free")
  /\ UNCHANGED <<num_clients, server_stopped, on, mail, job, copy, lockVars, gameVars,
                 failed>>

FreeSlot(t, i) ==
  /\ at[t] = "free" /\ i = SlotOf(t)
  /\ client' = [client EXCEPT ![i].used = FALSE, ![i].packet = None]
  /\ IF t = master
     THEN /\ num_clients' = num_clients - 1
          /\ station_mutex' = [station_mutex EXCEPT ![i] = None]
          /\ Goto(t, "idle")
          /\ UNCHANGED copy
     ELSE /\ copy' = [copy EXCEPT ![i] = num_clients]
          /\ Goto(t, "count")
          /\ UNCHANGED <<num_clients, station_mutex>>
  /\ UNCHANGED <<server_stopped, on, mail, job, disc, clientReservationMutex,
                 threadLockMutex, signalled, gameVars, failed>>

(* The slave's num_clients-- is not atomic with what other threads do to it.      *)
CountFreed(i) ==
  /\ at[i] = "count"
  /\ num_clients' = copy[i] - 1
  /\ Goto(i, "loop")
  /\ UNCHANGED <<client, server_stopped, on, mail, job, copy, disc, lockVars, gameVars,
                 failed>>

--------------------------------------------------------------------------------
(* The master thread.                                                             *)

(* Mutant: waits for clients to confirm that they are disconnected.               *)
ThinkFreeIfTold(i) ==
  /\ at[master] = "idle"
  /\ client[i].used /\ client[i].told_disconnect /\ CountdownOver(i)
  /\ Goto(master, "lock") /\ on' = [on EXCEPT ![master] = i]
  /\ UNCHANGED <<client, num_clients, server_stopped, mail, job, copy, disc, lockVars,
                 gameVars, failed>>

(* server_think: the countdown of slot i is over.  What it found may change until *)
(* it has the lock.                                                               *)
ThinkFree(i) ==
  /\ at[master] = "idle"
  /\ client[i].used /\ Disconnecting(i) /\ CountdownOver(i)
  /\ Goto(master, "lock") /\ on' = [on EXCEPT ![master] = i]
  /\ UNCHANGED <<client, num_clients, server_stopped, mail, job, copy, disc, lockVars,
                 gameVars, failed>>

(* Mutant: frees without waiting for the slave.                                   *)
FreeWithoutLock ==
  /\ at[master] = "lock"
  /\ Goto(master, "join")
  /\ UNCHANGED <<client, num_clients, server_stopped, on, mail, job, copy, disc,
                 station_mutex, clientReservationMutex, threadLockMutex, signalled,
                 gameVars, failed>>

LockToFree ==
  /\ at[master] = "lock" /\ Free(station_mutex[on[master]])
  /\ station_mutex' = [station_mutex EXCEPT ![on[master]] = master]
  /\ Goto(master, "join")
  /\ UNCHANGED <<client, num_clients, server_stopped, on, mail, job, copy, disc,
                 clientReservationMutex, threadLockMutex, signalled, gameVars, failed>>

(* server_think: nothing has come from the client of slot i for droptimeout.      *)
ThinkTimeout(i) ==
  /\ at[master] = "idle"
  /\ client[i].used /\ ~Disconnecting(i)
  /\ HandshakesCanTimeOut \/ clientConnection[i] # 0
  /\ Goto(master, "dc_callback") /\ on' = [on EXCEPT ![master] = i]
  /\ UNCHANGED <<client, num_clients, server_stopped, mail, job, copy, disc, lockVars,
                 gameVars, failed>>

StopMaster ==
  /\ at[master] = "idle" /\ server_stopped
  /\ Goto(master, "done")
  /\ UNCHANGED <<client, num_clients, server_stopped, on, mail, job, copy, disc, lockVars,
                 gameVars, failed>>

(* process_incoming_datagram: the slot of the sender, or a new one for a hello.   *)
(* Others are ignored, also when the server is full.                              *)
ReceiveKnown(a, p, i) ==
  /\ at[master] = "idle" /\ ~server_stopped
  /\ client[i].used /\ client[i].addr = a
  /\ mail' = [addr |-> a, packet |-> p]
  /\ Goto(master, "deliver") /\ on' = [on EXCEPT ![master] = i]
  /\ UNCHANGED <<client, num_clients, server_stopped, job, copy, disc, lockVars, gameVars,
                 failed>>

ReceiveNew(a) ==
  /\ at[master] = "idle" /\ ~server_stopped
  /\ \A i \in Slot : ~(client[i].used /\ client[i].addr = a)
  /\ num_clients < MAX_CLIENTS
  /\ sessions < MaxSessions
  /\ mail' = [addr |-> a, packet |-> "hello"]
  /\ Goto(master, "reserve")
  /\ UNCHANGED <<client, num_clients, server_stopped, on, job, copy, disc, lockVars,
                 gameVars, failed>>

Deliver ==
  /\ at[master] = "deliver" /\ Free(station_mutex[on[master]])
  /\ client' = [client EXCEPT ![on[master]].packet = mail.packet]
  /\ signalled' = [signalled EXCEPT ![on[master]] = (at[on[master]] = "wait")]
  /\ mail' = None
  /\ Goto(master, "idle")
  /\ UNCHANGED <<num_clients, server_stopped, on, job, copy, disc, station_mutex,
                 clientReservationMutex, threadLockMutex, gameVars, failed>>

Unused == {i \in Slot : ~client[i].used} \* mutant: reserved slots are given away

Vacant == {i \in Slot : ~client[i].used /\ ~client[i].disabled}

(* The first vacant slot, searched under clientReservationMutex.                  *)
FindSlot ==
  /\ at[master] = "reserve" /\ Free(clientReservationMutex)
  /\ IF Vacant = {}
     THEN /\ Goto(master, "idle") /\ mail' = None
          /\ UNCHANGED <<on, clientReservationMutex>>
     ELSE /\ clientReservationMutex' = master
          /\ on' = [on EXCEPT ![master] = Min(Vacant)]
          /\ Goto(master, "alloc")
          /\ UNCHANGED mail
  /\ UNCHANGED <<client, num_clients, server_stopped, job, copy, disc, station_mutex,
                 threadLockMutex, signalled, gameVars, failed>>

(* The slot is set up for its new client under station_mutex.                     *)
AllocateSlot(i) ==
  /\ at[master] = "alloc" /\ i = on[master] /\ Free(station_mutex[i])
  /\ client' = [client EXCEPT ![i] = [@ EXCEPT
       !.used = TRUE, !.addr = mail.addr, !.packet = mail.packet, !.connected = FALSE,
       !.connected_knows = FALSE, !.told_disconnect = FALSE,
       !.server_disconnected = FALSE, !.droptime = "unset", !.discleft = 0,
       !.quitflag = FALSE]]
  /\ signalled' = [signalled EXCEPT ![i] = (at[i] = "wait")]
  /\ num_clients' = num_clients + 1
  /\ clientReservationMutex' = None
  /\ session' = [session EXCEPT ![i] = sessions + 1]
  /\ sessions' = sessions + 1
  /\ mail' = None
  /\ Goto(master, "idle")
  /\ UNCHANGED <<server_stopped, on, job, copy, disc, station_mutex, threadLockMutex,
                 clientConnection, failed>>

(* set_remote_address fails: the slot is reset and given up.                      *)
CannotAllocateSlot(i) ==
  /\ at[master] = "alloc" /\ i = on[master] /\ Free(station_mutex[i])
  /\ client' = [client EXCEPT ![i] = [@ EXCEPT
       !.addr = mail.addr, !.connected = FALSE, !.connected_knows = FALSE,
       !.told_disconnect = FALSE, !.server_disconnected = FALSE, !.droptime = "unset",
       !.discleft = 0, !.quitflag = FALSE, !.packet = None]]
  /\ clientReservationMutex' = None
  /\ mail' = None
  /\ Goto(master, "idle")
  /\ UNCHANGED <<num_clients, server_stopped, on, job, copy, disc, station_mutex,
                 threadLockMutex, signalled, gameVars, failed>>

--------------------------------------------------------------------------------
(* Slave i: waits without the mutex of its station, works with it.                *)

SlaveStarts(i) ==
  /\ at[i] = "start" /\ Free(station_mutex[i])
  /\ Goto(i, IF client[i].quitflag THEN "done" ELSE "wait")
  /\ UNCHANGED <<client, num_clients, server_stopped, on, mail, job, copy, disc, lockVars,
                 gameVars, failed>>

SlaveWakes(i) ==
  /\ at[i] = "wait" /\ signalled[i] /\ Free(station_mutex[i])
  /\ signalled' = [signalled EXCEPT ![i] = FALSE]
  /\ station_mutex' = [station_mutex EXCEPT ![i] = i]
  /\ IF client[i].used /\ client[i].packet # None
     THEN /\ job' = [job EXCEPT ![i] = client[i].packet]
          /\ client' = [client EXCEPT ![i].packet = None]
          /\ Goto(i, "work")
     ELSE /\ Goto(i, "loop")
          /\ UNCHANGED <<client, job>>
  /\ UNCHANGED <<num_clients, server_stopped, on, mail, copy, disc,
                 clientReservationMutex, threadLockMutex, gameVars, failed>>

(* Mutant: a late hello of a connected client is handled.                         *)
ProcessAnyHello(i) ==
  /\ at[i] = "work" /\ job[i] = "hello"
  /\ Goto(i, IF Disconnecting(i) THEN "loop" ELSE "hello")
  /\ UNCHANGED <<client, num_clients, server_stopped, on, mail, job, copy, disc, lockVars,
                 gameVars, failed>>

(* "hello" is handled until the client knows that it is connected.                *)
ProcessHello(i) ==
  /\ at[i] = "work" /\ job[i] = "hello"
  /\ Goto(i, IF client[i].connected_knows \/ Disconnecting(i) THEN "loop" ELSE "hello")
  /\ UNCHANGED <<client, num_clients, server_stopped, on, mail, job, copy, disc, lockVars,
                 gameVars, failed>>

(* helloCallback; a client that the game rejects loses its slot.                  *)
HelloCallback(i) ==
  /\ at[i] = "hello" /\ Free(threadLockMutex)
  /\ \/ /\ client' = [client EXCEPT ![i].connected = TRUE]
        /\ Goto(i, "loop")
     \/ /\ Goto(i, IF client[i].used THEN "join" ELSE "loop")
        /\ UNCHANGED client
  /\ UNCHANGED <<num_clients, server_stopped, on, mail, job, copy, disc, lockVars,
                 gameVars, failed>>

(* "bye" answers the server's own disconnect packets, or starts a disconnection.  *)
ProcessBye(i) ==
  /\ at[i] = "work" /\ job[i] = "bye"
  /\ client' = [client EXCEPT ![i].told_disconnect = TRUE,
       ![i].droptime = IF client[i].server_disconnected THEN "running" ELSE @]
  /\ Goto(i, IF Disconnecting(i) THEN "loop" ELSE "bye")
  /\ UNCHANGED <<num_clients, server_stopped, on, mail, job, copy, disc, lockVars,
                 gameVars, failed>>

ByeCallback(i) ==
  /\ at[i] = "bye"
  /\ client[i].connected_knows => Free(threadLockMutex)
  /\ clientConnection' = [clientConnection EXCEPT
       ![i] = IF client[i].connected_knows THEN 0 ELSE @]
  /\ client' = [client EXCEPT ![i].droptime = "running"]
  /\ Goto(i, "loop")
  /\ UNCHANGED <<num_clients, server_stopped, on, mail, job, copy, disc, lockVars, session,
                 sessions, failed>>

(* Data are taken from connected clients that are not being disconnected.  What   *)
(* the slave found may change before it acts on it.                               *)
ProcessData(i) ==
  /\ at[i] = "work" /\ job[i] = "data"
  /\ Goto(i, IF ~client[i].connected \/ Disconnecting(i) THEN "loop"
             ELSE IF client[i].connected_knows THEN "data" ELSE "know")
  /\ UNCHANGED <<client, num_clients, server_stopped, on, mail, job, copy, disc, lockVars,
                 gameVars, failed>>

(* The first data packet shows that the client knows that it is connected.        *)
KnowConnected(i) ==
  /\ at[i] = "know"
  /\ client' = [client EXCEPT ![i].connected_knows = TRUE]
  /\ Goto(i, "connect")
  /\ UNCHANGED <<num_clients, server_stopped, on, mail, job, copy, disc, lockVars,
                 gameVars, failed>>

ConnectedCallback(i) ==
  /\ at[i] = "connect" /\ Free(threadLockMutex)
  /\ failed' = IF clientConnection[i] # 0 THEN "!clientConnection" ELSE "none"
  /\ clientConnection' = [clientConnection EXCEPT ![i] = session[i]]
  /\ Goto(i, "data")
  /\ UNCHANGED <<client, num_clients, server_stopped, on, mail, job, copy, disc, lockVars,
                 session, sessions>>

(* dataCallback; the game may find that the player misbehaves and kick it.        *)
DataCallback(i) ==
  /\ at[i] = "data" /\ Free(threadLockMutex)
  /\ \/ Goto(i, "loop") /\ UNCHANGED threadLockMutex
     \/ /\ clientConnection[i] # 0
        /\ threadLockMutex' = i
        /\ Goto(i, "dc_callback")
  /\ UNCHANGED <<client, num_clients, server_stopped, on, mail, job, copy, disc,
                 station_mutex, clientReservationMutex, signalled, gameVars, failed>>

SlaveLoops(i) ==
  /\ at[i] = "loop"
  /\ station_mutex' = [station_mutex EXCEPT ![i] = None]
  /\ job' = [job EXCEPT ![i] = None]
  /\ Goto(i, IF client[i].quitflag THEN "done" ELSE "wait")
  /\ UNCHANGED <<client, num_clients, server_stopped, on, mail, copy, disc,
                 clientReservationMutex, threadLockMutex, signalled, gameVars, failed>>

--------------------------------------------------------------------------------
(* The game thread.                                                               *)

(* disconnectPlayer: kicks, idle kicks.                                           *)
Kick(i) ==
  /\ at[user] = "idle" /\ Free(threadLockMutex)
  /\ clientConnection[i] \notin {0, Local}
  /\ threadLockMutex' = user
  /\ on' = [on EXCEPT ![user] = i]
  /\ Goto(user, "dc_callback")
  /\ UNCHANGED <<client, num_clients, server_stopped, mail, job, copy, disc,
                 station_mutex, clientReservationMutex, signalled, gameVars, failed>>

(* The same for a local client, which has no part in the slot.                    *)
KickLocal(i) ==
  /\ at[user] = "idle" /\ Free(threadLockMutex)
  /\ clientConnection[i] = Local
  /\ clientConnection' = [clientConnection EXCEPT ![i] = 0]
  /\ UNCHANGED <<client, num_clients, server_stopped, threadVars, lockVars, session,
                 sessions, failed>>

(* Mutant: stops the server with the game locked.                                 *)
StopBeginsLocked ==
  /\ MayStop /\ at[user] = "idle" /\ Free(threadLockMutex)
  /\ threadLockMutex' = user
  /\ Goto(user, "stop") /\ on' = [on EXCEPT ![user] = 0]
  /\ UNCHANGED <<client, num_clients, server_stopped, mail, job, copy, disc, station_mutex,
                 clientReservationMutex, signalled, gameVars, failed>>

(* stop.                                                                          *)
StopBegins ==
  /\ MayStop /\ at[user] = "idle"
  /\ Goto(user, "stop") /\ on' = [on EXCEPT ![user] = 0]
  /\ UNCHANGED <<client, num_clients, server_stopped, mail, job, copy, disc, lockVars,
                 gameVars, failed>>

(* Disconnects the clients one after another, then raises server_stopped.         *)
StopDisconnects ==
  LET i == on[user] IN
  /\ at[user] = "stop"
  /\ IF i \in Slot
     THEN /\ Goto(user, IF client[i].used /\ client[i].connected /\ ~Disconnecting(i)
                        THEN "dc_callback" ELSE "stop_next")
          /\ UNCHANGED <<server_stopped, on>>
     ELSE /\ server_stopped' = TRUE
          /\ Goto(user, "signal") /\ on' = [on EXCEPT ![user] = 0]
  /\ UNCHANGED <<client, num_clients, mail, job, copy, disc, lockVars, gameVars, failed>>

StopNext ==
  /\ at[user] = "stop_next"
  /\ Goto(user, "stop") /\ on' = [on EXCEPT ![user] = @ + 1]
  /\ UNCHANGED <<client, num_clients, server_stopped, mail, job, copy, disc, lockVars,
                 gameVars, failed>>

(* Tells the slaves to quit, then waits for the master.                           *)
StopFlags ==
  LET i == on[user] IN
  /\ at[user] = "signal"
  /\ IF i \in Slot
     THEN /\ client' = [client EXCEPT ![i].quitflag = TRUE]
          /\ Goto(user, "slap")
          /\ UNCHANGED on
     ELSE /\ at[master] = "done"
          /\ Goto(user, "join") /\ on' = [on EXCEPT ![user] = 0]
          /\ UNCHANGED client
  /\ UNCHANGED <<num_clients, server_stopped, mail, job, copy, disc, lockVars, gameVars,
                 failed>>

StopSignals ==
  LET i == on[user] IN
  /\ at[user] = "slap" /\ Free(station_mutex[i])
  /\ signalled' = [signalled EXCEPT ![i] = (at[i] = "wait")]
  /\ Goto(user, "signal") /\ on' = [on EXCEPT ![user] = @ + 1]
  /\ UNCHANGED <<client, num_clients, server_stopped, mail, job, copy, disc,
                 station_mutex, clientReservationMutex, threadLockMutex, gameVars, failed>>

(* Joins each slave and then its disconnector.                                    *)
StopJoins ==
  LET i == on[user] IN
  /\ at[user] = "join"
  /\ IF i \in Slot
     THEN /\ at[i] = "done"
          /\ client[i].discthread => disc[i] = "ended"
          /\ client' = [client EXCEPT ![i].discthread = FALSE, ![i].packet = None]
          /\ on' = [on EXCEPT ![user] = @ + 1]
          /\ UNCHANGED at
     ELSE Goto(user, "stopped") /\ UNCHANGED <<client, on>>
  /\ UNCHANGED <<num_clients, server_stopped, mail, job, copy, disc, lockVars, gameVars,
                 failed>>

--------------------------------------------------------------------------------
(* The bot thread: newLocalConnection, with threadLockMutex, and ~LocalConnection *)
(* without it.                                                                    *)
BotsLock ==
  /\ at[bots] = "idle" /\ Free(threadLockMutex)
  /\ threadLockMutex' = bots
  /\ Goto(bots, "reserve")
  /\ UNCHANGED <<client, num_clients, server_stopped, on, mail, job, copy, disc,
                 station_mutex, clientReservationMutex, signalled, gameVars, failed>>

ReserveClientId ==
  /\ at[bots] = "reserve" /\ Free(clientReservationMutex)
  /\ IF Vacant = {}
     THEN UNCHANGED <<client, clientConnection, failed>>
     ELSE LET i == Min(Vacant) IN
          /\ client' = [client EXCEPT ![i].disabled = TRUE]
          /\ failed' = IF clientConnection[i] # 0 THEN "!clientConnection" ELSE "none"
          /\ clientConnection' = [clientConnection EXCEPT ![i] = Local]
  /\ threadLockMutex' = None
  /\ Goto(bots, "idle")
  /\ UNCHANGED <<num_clients, server_stopped, on, mail, job, copy, disc, station_mutex,
                 clientReservationMutex, signalled, session, sessions>>

ReturnClientId(i) ==
  /\ at[bots] = "idle" /\ Free(threadLockMutex) /\ Free(clientReservationMutex)
  /\ client[i].disabled
  /\ client' = [client EXCEPT ![i].disabled = FALSE]
  /\ clientConnection' = [clientConnection EXCEPT ![i] = 0]
  /\ UNCHANGED <<num_clients, server_stopped, threadVars, lockVars, session, sessions,
                 failed>>

--------------------------------------------------------------------------------
CountdownEnds(i) ==
  /\ client[i].droptime = "running"
  /\ client' = [client EXCEPT ![i].droptime = "passed"]
  /\ UNCHANGED <<num_clients, server_stopped, threadVars, lockVars, gameVars, failed>>

Disconnect(t, i) ==
  DisconnectCallback(t, i) \/ DisconnectFlag(t, i) \/ DisconnectSpawn(t, i)

Slave(i) ==
  \/ SlaveStarts(i) \/ SlaveWakes(i) \/ SlaveLoops(i)
  \/ ProcessHello(i) \/ HelloCallback(i)
  \/ ProcessBye(i) \/ ByeCallback(i)
  \/ ProcessData(i) \/ KnowConnected(i) \/ ConnectedCallback(i) \/ DataCallback(i)
  \/ Disconnect(i, i)
  \/ JoinDisconnector(i, i) \/ DisconnectorJoined(i, i)
  \/ FreeSlot(i, i) \/ CountFreed(i)

Think == \E i \in Slot : ThinkFree(i) \/ ThinkTimeout(i)

Receive == \E a \in Address :
  ReceiveNew(a) \/ \E p \in Packet, i \in Slot : ReceiveKnown(a, p, i)

(* What the master does once it has begun to.                                     *)
MasterWork ==
  \/ LockToFree \/ Deliver \/ FindSlot \/ StopMaster
  \/ \E i \in Slot : \/ AllocateSlot(i) \/ CannotAllocateSlot(i) \/ Disconnect(master, i)
                     \/ JoinDisconnector(master, i) \/ DisconnectorJoined(master, i)
                     \/ FreeSlot(master, i)

UserWork ==
  \/ StopDisconnects \/ StopNext \/ StopFlags \/ StopSignals \/ StopJoins
  \/ \E i \in Slot : Disconnect(user, i)

Bots == BotsLock \/ ReserveClientId \/ \E i \in Slot : ReturnClientId(i)

Next ==
  /\ failed = "none"
  /\ \/ Think \/ Receive \/ MasterWork \/ UserWork \/ Bots \/ StopBegins
     \/ \E i \in Slot : Slave(i) \/ SendDisconnect(i) \/ CountdownEnds(i)
                       \/ Kick(i) \/ KickLocal(i)

Spec == Init /\ [][Next]_vars

(* Fairness: every thread runs, and gets a mutex that is free again and again; the *)
(* master's loop runs server_think forever, and time passes.                      *)
Fairness ==
  /\ SF_vars(failed = "none" /\ MasterWork)
  /\ WF_vars(failed = "none" /\ UserWork)
  /\ \A i \in Slot : /\ SF_vars(failed = "none" /\ ThinkFree(i))
                     /\ SF_vars(failed = "none" /\ Slave(i))
                     /\ WF_vars(failed = "none" /\ SendDisconnect(i))
                     /\ WF_vars(failed = "none" /\ CountdownEnds(i))
  /\ SF_vars(failed = "none" /\ ReserveClientId)

FairSpec == Spec /\ Fairness

--------------------------------------------------------------------------------
(* Properties.                                                                    *)

DcStates == {"dc_callback", "dc_flag", "dc_spawn"}
FreeStates == {"join", "joining", "free"}
WaitStates == {"start", "wait", "done"}
SlaveStates == WaitStates \cup DcStates \cup FreeStates \cup
  {"work", "hello", "bye", "know", "connect", "data", "count", "loop"}
MasterStates == DcStates \cup FreeStates \cup {"idle", "lock", "deliver", "reserve", "alloc", "done"}
UserStates == DcStates \cup {"idle", "stop", "stop_next", "signal", "slap", "join", "stopped"}
ThreadStates == SlaveStates \cup MasterStates \cup UserStates

Client ==
  [used : BOOLEAN, disabled : BOOLEAN, addr : Address \cup {None}, connected : BOOLEAN,
   connected_knows : BOOLEAN, told_disconnect : BOOLEAN, server_disconnected : BOOLEAN,
   droptime : {"unset", "running", "passed"}, discleft : 0 .. DiscPackets,
   discthread : BOOLEAN, quitflag : BOOLEAN, packet : Packet \cup {None}]

Mail == [addr : Address, packet : Packet]

(* Type invariant.                                                                *)
TypeOK ==
  /\ client \in [Slot -> Client]
  /\ num_clients \in Int /\ server_stopped \in BOOLEAN
  /\ at \in [Thread -> ThreadStates] /\ on \in [{master, user} -> 0 .. MAX_CLIENTS]
  /\ mail \in {None} \cup Mail
  /\ job \in [Slot -> Packet \cup {None}] /\ copy \in [Slot -> Int]
  /\ disc \in [Slot -> {"none", "run", "ended"}]
  /\ station_mutex \in [Slot -> Thread \cup {None}]
  /\ clientReservationMutex \in {master, None} /\ threadLockMutex \in Thread \cup {None}
  /\ signalled \in [Slot -> BOOLEAN]
  /\ clientConnection \in [Slot -> 0 .. MaxSessions \cup {Local}]
  /\ sessions \in 0 .. MaxSessions /\ session \in [Slot -> 0 .. MaxSessions]

(* No slot is freed, or given to another client, under a slave that handles a     *)
(* packet: it works on the session whose packet it took until it frees the slot   *)
(* itself.                                                                        *)
SlaveKeepsItsSlot == \A i \in Slot : at[i] \notin {"start", "wait", "loop", "done"} =>
  /\ station_mutex[i] = i
  /\ client[i].used <=> at[i] # "count"

(* A slot never serves a network client and a local client at once, though the    *)
(* master and the bot thread both look for vacant slots.                          *)
SlotsAreNotShared == \A i \in Slot : ~(client[i].used /\ client[i].disabled)

(* The inductive invariant.  Where each thread may be, and which slot it is at;     *)
(* a bound on sessions.                                                             *)
ThreadsInv ==
  /\ \A i \in Slot : at[i] \in SlaveStates
  /\ at[master] \in MasterStates /\ on[master] \in Slot
  /\ at[master] \in {"deliver", "reserve", "alloc"} => mail \in Mail
  /\ at[master] \in {"reserve", "alloc"} => sessions < MaxSessions
  /\ at[user] \in UserStates
  /\ at[user] \in DcStates \cup {"stop_next", "slap"} => on[user] \in Slot
  /\ at[bots] \in {"idle", "reserve"}

(* Who holds the mutexes of the network threads, from where each thread is.         *)
StationsInv ==
  /\ \A i \in Slot :
       /\ station_mutex[i] \in {None, i, master}
       /\ station_mutex[i] = i <=> at[i] \notin WaitStates
       /\ station_mutex[i] = master <=> at[master] \in FreeStates /\ on[master] = i
  /\ clientReservationMutex = master <=> at[master] = "alloc"

(* threadLockMutex is kept between steps only by who disconnects a player, and by   *)
(* the bot thread that looks for a slot.                                            *)
GameLockInv ==
  \/ threadLockMutex = None
  \/ threadLockMutex \in Slot \cup {user} /\ at[threadLockMutex] \in DcStates
  \/ threadLockMutex = bots /\ at[bots] = "reserve"

(* What the master has found under clientReservationMutex stays vacant.             *)
VacancyInv == at[master] = "alloc" =>
  ~client[on[master]].used /\ ~client[on[master]].disabled

IInv == TypeOK /\ ThreadsInv /\ StationsInv /\ GameLockInv /\ VacancyInv
        /\ SlaveKeepsItsSlot /\ SlotsAreNotShared

(* Thread t waits for thread h, to release a mutex or to end.                     *)
WaitsFor(t, h) ==
  \/ t \in Slot /\ at[t] \in {"start", "wait"} /\ h = station_mutex[t]
  \/ t = master /\ at[t] \in {"lock", "deliver", "alloc"} /\ h = station_mutex[on[t]]
  \/ t = user /\ at[t] = "slap" /\ h = station_mutex[on[t]]
  \/ t \in {master, bots} /\ at[t] = "reserve" /\ h = clientReservationMutex
  \/ t \in Slot /\ at[t] \in {"hello", "bye", "connect", "data"} /\ h = threadLockMutex
  \/ t = master /\ at[t] = "dc_callback" /\ h = threadLockMutex
  \/ t \in {user, bots} /\ at[t] = "idle" /\ h = threadLockMutex
  \/ t = user /\ at[t] = "signal" /\ on[t] \notin Slot /\ h = master
  \/ t = user /\ at[t] = "join" /\ on[t] \in Slot /\ h = on[t]

(* The three levels of mutexes and the joins never make threads wait for each     *)
(* other in a circle.                                                             *)
NoCircularWait == \A S \in (SUBSET Thread) \ {{}} :
  \E t \in S : \A h \in S : ~WaitsFor(t, h)

(* A player of the game belongs to the client that has the slot, and to one that  *)
(* has completed the handshake; it is gone by the time the slot is freed.         *)
PlayersMatchSlots == \A i \in Slot : clientConnection[i] \notin {0, Local} =>
  client[i].used /\ client[i].connected_knows /\ clientConnection[i] = session[i]

(* The inductive invariant for it, where neither stop nor the timeout of a          *)
(* handshake is to be feared.  Of a slot: its player is there from the callback of *)
(* the first data packet to that of the disconnection, and the client says "bye"   *)
(* once while it has a player.                                                      *)
Quiet == ~MayStop /\ ~HandshakesCanTimeOut

SlotInv(i) ==
  /\ clientConnection[i] = Local => client[i].disabled
  /\ clientConnection[i] \notin {0, Local} =>
       /\ client[i].used /\ client[i].connected_knows /\ clientConnection[i] = session[i]
       /\ ~client[i].server_disconnected /\ (client[i].told_disconnect => at[i] = "bye")
  /\ at[i] = "connect" =>
       clientConnection[i] = 0 /\ client[i].connected_knows /\ ~Disconnecting(i)
  /\ at[i] \in {"hello", "know"} \cup FreeStates => ~client[i].connected_knows /\ ~Disconnecting(i)
  /\ at[i] \in DcStates => threadLockMutex = i /\ client[i].connected_knows
  /\ at[i] = "dc_flag" => clientConnection[i] = 0

(* Of the slot that thread t disconnects: it is taken until the client is marked as *)
(* disconnected.                                                                    *)
Disconnects(t) == at[t] \in {"dc_callback", "dc_flag"} =>
  /\ client[on[t]].used /\ client[on[t]].connected_knows /\ at[on[t]] # "connect"
  /\ at[t] = "dc_flag" => clientConnection[on[t]] = 0

(* Of the slot that the master frees, and of the one whose player is kicked, which  *)
(* are different ones until the player is gone and the client is marked.            *)
FreesInv == at[master] \in {"lock"} \cup FreeStates => Disconnecting(on[master])

KickInv ==
  /\ at[user] \in {"idle"} \cup DcStates
  /\ at[user] \in DcStates => threadLockMutex = user
  /\ at[user] \in {"dc_callback", "dc_flag"} =>
       /\ ~client[on[user]].server_disconnected
       /\ client[on[user]].told_disconnect => at[on[user]] = "bye"
       /\ at[master] = "dc_flag" => on[master] # on[user]

BotsInv == at[bots] = "reserve" => threadLockMutex = bots

PlayersInv == Quiet => /\ \A i \in Slot : SlotInv(i)
                       /\ Disconnects(master) /\ Disconnects(user)
                       /\ FreesInv /\ KickInv

(* A disconnected client does not keep its slot forever, whatever else it sends,  *)
(* unless it goes on sending "bye": each one starts the countdown anew.           *)
ByesEnd == <>[][\A i \in Slot : ~ProcessBye(i)]_vars
SlotsAreReclaimed == ByesEnd => \A i \in Slot :
  client[i].used /\ Disconnecting(i) ~> ~client[i].used \/ failed # "none"

(* nAssert(!clientConnection[client_id]) of leetnet_client_connected and of       *)
(* newLocalConnection: the player of a slot's last client is gone when the next   *)
(* one connects.                                                                  *)
SlotIsCleanForNewPlayer == failed # "!clientConnection"

(* stop() returns, once it has asked all threads to end.                          *)
StopReturns == at[user] = "signal" ~> at[user] = "stopped" \/ failed # "none"
================================================================================
