---------------------------- MODULE LeetServerProofs ----------------------------
(* Proofs about LeetServer for any numbers of slots, clients and sessions.        *)
EXTENDS LeetServer, FiniteSetTheorems, WellFoundedInduction, TLAPS

--------------------------------------------------------------------------------
(* The threads, and the slots they look for.                                      *)

LEMMA Threads ==
  /\ master # user /\ master # bots /\ user # bots
  /\ \A i \in Slot : i \notin {master, user, bots}
  /\ None \notin Thread /\ Slot \subseteq Thread /\ {master, user, bots} \subseteq Thread
<1>1. ASSUME NEW a, NEW b
      PROVE  Cardinality({a, b}) # 3
  <2>1. IsFiniteSet({a}) /\ Cardinality({a}) = 1 /\ {a, b} = {a} \cup {b}
    BY FS_Singleton
  <2>2. Cardinality({a} \cup {b}) \in {1, 2}
    BY <2>1, FS_AddElement
  <2> QED
    BY <2>1, <2>2
<1>2. /\ master = user => {master, user, bots} = {master, bots}
      /\ master = bots => {master, user, bots} = {master, user}
      /\ user = bots => {master, user, bots} = {master, user}
  OBVIOUS
<1>3. master # user /\ master # bots /\ user # bots
  BY <1>1, <1>2, ThreadAssumption
<1> QED
  BY <1>3, ThreadAssumption, Zenon DEF Thread

LEMMA MinOfSlots ==
  ASSUME NEW S \in SUBSET Slot, S # {}
  PROVE  Min(S) \in S
<1> DEFINE R == {p \in Nat \X Nat : p[1] < p[2]}
<1>1. IsWellFoundedOn(R, Nat)
  BY NatLessThanWellFounded, Zenon DEF OpToRel
<1>2. S \subseteq Nat
  BY SlotAssumption DEF Slot
<1>3. PICK x \in S : \A y \in S : <<y, x>> \notin R
  BY <1>1, <1>2, WFMin, Zenon
<1>4. ASSUME NEW y \in S PROVE x <= y
  <2>1. x \in Nat /\ y \in Nat
    BY <1>2
  <2>2. y < x => <<y, x>> \in R
    BY <2>1
  <2>3. ~(y < x)
    BY <1>3, <2>2, Zenon
  <2> QED
    BY <2>1, <2>3
<1> QED
  BY <1>4 DEF Min

(* A thread moves, the others stay where they are.                                *)
LEMMA Moved ==
  ASSUME TypeOK, NEW t \in Thread, NEW pc \in ThreadStates, Goto(t, pc)
  PROVE  /\ at' \in [Thread -> ThreadStates] /\ at'[t] = pc
         /\ \A u \in Thread : u # t => at'[u] = at[u]
BY DEF TypeOK, Goto

--------------------------------------------------------------------------------
(* Steps that neither take nor release a mutex of the network threads.            *)

Kept == \A i \in Slot : /\ client'[i].used = client[i].used
                        /\ client'[i].disabled = client[i].disabled

SlaveMoves(i) ==
  \/ at'[i] = at[i]
  \/ at[i] \in WaitStates /\ at'[i] \in WaitStates
  \/ at[i] \notin WaitStates \cup {"loop", "count"} /\ at'[i] \notin WaitStates \cup {"count"}
  \/ at[i] = "count" /\ at'[i] = "loop"

MasterMoves ==
  \/ at'[master] = at[master] /\ on'[master] = on[master]
  \/ at[master] \in FreeStates /\ at'[master] \in FreeStates /\ on'[master] = on[master]
  \/ {at[master], at'[master]} \cap (FreeStates \cup {"alloc"}) = {}

LEMMA QuietStep ==
  ASSUME IInv, TypeOK', ThreadsInv', GameLockInv', Kept,
         \A i \in Slot : SlaveMoves(i), MasterMoves,
         UNCHANGED <<station_mutex, clientReservationMutex>>
  PROVE  IInv'
<1>1. StationsInv'
  <2>1. \A i \in Slot : at'[i] \notin WaitStates <=> at[i] \notin WaitStates
    BY DEF SlaveMoves, WaitStates
  <2>2. at'[master] = "alloc" <=> at[master] = "alloc"
    BY DEF MasterMoves, FreeStates
  <2>3. \A i \in Slot : at'[master] \in FreeStates /\ on'[master] = i
                        <=> at[master] \in FreeStates /\ on[master] = i
    BY DEF MasterMoves
  <2> QED
    BY <2>1, <2>2, <2>3 DEF IInv, StationsInv
<1>2. VacancyInv'
  <2>1. at'[master] = "alloc" => at[master] = "alloc" /\ on'[master] = on[master]
    BY DEF MasterMoves, FreeStates
  <2>2. on[master] \in Slot
    BY DEF IInv, ThreadsInv
  <2> QED
    BY <2>1, <2>2 DEF IInv, VacancyInv, Kept
<1>3. SlaveKeepsItsSlot'
  <2> SUFFICES ASSUME NEW i \in Slot, at'[i] \notin {"start", "wait", "loop", "done"}
               PROVE  station_mutex'[i] = i /\ (client'[i].used <=> at'[i] # "count")
    BY DEF SlaveKeepsItsSlot
  <2>1. at[i] \notin {"start", "wait", "loop", "done"} /\ (at'[i] = "count" <=> at[i] = "count")
    BY DEF SlaveMoves, WaitStates
  <2> QED
    BY <2>1 DEF IInv, SlaveKeepsItsSlot, Kept
<1>4. SlotsAreNotShared'
  BY DEF IInv, SlotsAreNotShared, Kept
<1> QED
  BY <1>1, <1>2, <1>3, <1>4 DEF IInv

(* A slave moves within the work on a packet, or before it begins to.             *)
LEMMA SlaveStep ==
  ASSUME IInv, NEW i \in Slot, NEW pc \in SlaveStates, Goto(i, pc), TypeOK', Kept,
         \/ at[i] \notin WaitStates \cup {"loop", "count"} /\ pc \notin WaitStates \cup {"count"}
         \/ at[i] = "count" /\ pc = "loop"
         \/ at[i] \in WaitStates /\ pc \in WaitStates,
         \/ threadLockMutex' = None
         \/ threadLockMutex' = threadLockMutex /\ (at[i] \in DcStates => pc \in DcStates)
         \/ threadLockMutex' = threadLockMutex /\ threadLockMutex # i
         \/ threadLockMutex' = i /\ pc \in DcStates,
         UNCHANGED <<on, station_mutex, clientReservationMutex, mail, sessions>>
  PROVE  IInv'
<1>1. /\ at'[i] = pc /\ \A t \in Thread : t # i => at'[t] = at[t]
      /\ i \in Thread /\ i \notin {master, user, bots}
  BY Moved, Threads DEF IInv, ThreadStates
<1>2. /\ at'[master] = at[master] /\ at'[user] = at[user] /\ at'[bots] = at[bots]
      /\ \A j \in Slot : j # i => at'[j] = at[j]
  BY <1>1, Threads
<1>3. ThreadsInv'
  BY <1>1, <1>2 DEF IInv, ThreadsInv
<1>4. GameLockInv'
  BY <1>1, <1>2, Threads DEF IInv, GameLockInv
<1>5. \A j \in Slot : SlaveMoves(j)
  BY <1>1, <1>2 DEF SlaveMoves
<1>6. MasterMoves
  BY <1>2 DEF MasterMoves
<1> QED
  BY <1>3, <1>4, <1>5, <1>6, QuietStep

(* The master moves, but not to where it holds a mutex, nor away from there.      *)
LEMMA MasterStep ==
  ASSUME IInv, NEW pc \in MasterStates, Goto(master, pc), TypeOK', Kept,
         \/ {at[master], pc} \cap (FreeStates \cup {"alloc"}) = {}
         \/ {at[master], pc} \subseteq FreeStates /\ UNCHANGED on,
         on'[master] \in Slot, on'[user] = on[user],
         pc \in {"deliver", "reserve"} => mail' \in Mail,
         pc = "reserve" => sessions < MaxSessions,
         UNCHANGED <<station_mutex, clientReservationMutex, threadLockMutex, sessions>>
  PROVE  IInv'
<1>1. /\ at'[master] = pc /\ \A t \in Thread : t # master => at'[t] = at[t]
  BY Moved, Threads DEF IInv, ThreadStates
<1>2. /\ at'[user] = at[user] /\ at'[bots] = at[bots]
      /\ \A j \in Slot : at'[j] = at[j]
  BY <1>1, Threads
<1>3. ThreadsInv'
  BY <1>1, <1>2 DEF IInv, ThreadsInv, FreeStates
<1>4. GameLockInv'
  BY <1>1, <1>2, Threads DEF IInv, GameLockInv
<1>5. \A j \in Slot : SlaveMoves(j)
  BY <1>2 DEF SlaveMoves
<1>6. MasterMoves
  BY <1>1 DEF MasterMoves
<1> QED
  BY <1>3, <1>4, <1>5, <1>6, QuietStep

(* The game thread moves.                                                         *)
LEMMA UserStep ==
  ASSUME IInv, NEW pc \in UserStates, Goto(user, pc), TypeOK', Kept,
         on'[master] = on[master],
         pc \in DcStates \cup {"stop_next", "slap"} => on'[user] \in Slot,
         \/ threadLockMutex' = None
         \/ threadLockMutex' = threadLockMutex /\ (at[user] \in DcStates => pc \in DcStates)
         \/ threadLockMutex' = threadLockMutex /\ threadLockMutex # user
         \/ threadLockMutex' = user /\ pc \in DcStates,
         UNCHANGED <<station_mutex, clientReservationMutex, mail, sessions>>
  PROVE  IInv'
<1>1. /\ at'[user] = pc /\ \A t \in Thread : t # user => at'[t] = at[t]
  BY Moved, Threads DEF IInv, ThreadStates
<1>2. /\ at'[master] = at[master] /\ at'[bots] = at[bots]
      /\ \A j \in Slot : at'[j] = at[j]
  BY <1>1, Threads
<1>3. ThreadsInv'
  BY <1>1, <1>2 DEF IInv, ThreadsInv
<1>4. GameLockInv'
  BY <1>1, <1>2, Threads DEF IInv, GameLockInv
<1>5. \A j \in Slot : SlaveMoves(j)
  BY <1>2 DEF SlaveMoves
<1>6. MasterMoves
  BY <1>2 DEF MasterMoves
<1> QED
  BY <1>3, <1>4, <1>5, <1>6, QuietStep

(* No thread moves.                                                               *)
LEMMA StillStep ==
  ASSUME IInv, TypeOK', Kept,
         UNCHANGED <<at, on, mail, sessions, station_mutex, clientReservationMutex, threadLockMutex>>
  PROVE  IInv'
<1>1. ThreadsInv' /\ GameLockInv'
  BY DEF IInv, ThreadsInv, GameLockInv
<1>2. MasterMoves /\ \A j \in Slot : SlaveMoves(j)
  BY DEF MasterMoves, SlaveMoves
<1> QED
  BY <1>1, <1>2, QuietStep

(* A step changes fields of a client's slot, but not whether it is taken.         *)
LEMMA SlotWritten ==
  ASSUME TypeOK, NEW i \in Slot, NEW c \in Client,
         c.used = client[i].used, c.disabled = client[i].disabled,
         client' = [client EXCEPT ![i] = c]
  PROVE  client' \in [Slot -> Client] /\ Kept
BY DEF TypeOK, Kept

LEMMA SlotsUntouched ==
  ASSUME TypeOK, UNCHANGED client
  PROVE  client' \in [Slot -> Client] /\ Kept
BY DEF TypeOK, Kept

--------------------------------------------------------------------------------
(* disconnect_client, which slaves, the master and the game thread run.           *)

(* Whoever disconnects moves on with it, to pc, and keeps the game locked if he    *)
(* has locked it.                                                                  *)
LEMMA DisconnectMovesStep ==
  ASSUME IInv, NEW t \in Thread, NEW i \in Slot, t \in {i, master, user}, i = SlotOf(t),
         at[t] \in DcStates, NEW pc \in DcStates, Goto(t, pc), TypeOK', Kept,
         UNCHANGED <<on, mail, sessions, station_mutex, clientReservationMutex, threadLockMutex>>
  PROVE  IInv'
<1>1. CASE t = i
  BY <1>1, SlaveStep DEF SlaveStates, DcStates, WaitStates
<1>2. CASE t = master
  BY <1>2, MasterStep DEF MasterStates, DcStates, FreeStates, IInv, ThreadsInv
<1>3. CASE t = user
  BY <1>3, UserStep DEF UserStates, DcStates, IInv, ThreadsInv
<1> QED
  BY <1>1, <1>2, <1>3

LEMMA DisconnectCallbackStep ==
  ASSUME IInv, NEW t \in Thread, NEW i \in Slot, t \in {i, master, user}, DisconnectCallback(t, i)
  PROVE  IInv'
<1>1. TypeOK /\ TypeOK' /\ Kept
  <2>1. TypeOK
    BY DEF IInv
  <2>2. at' \in [Thread -> ThreadStates]
    BY <2>1, Moved DEF DisconnectCallback, ThreadStates, MasterStates, DcStates
  <2>3. clientConnection' \in [Slot -> 0 .. MaxSessions \cup {Local}]
    BY <2>1, BoundAssumption DEF DisconnectCallback, TypeOK
  <2> QED
    BY <2>1, <2>2, <2>3 DEF DisconnectCallback, TypeOK, Kept, lockVars
<1> QED
  BY <1>1, DisconnectMovesStep DEF DisconnectCallback, DcStates, lockVars

LEMMA DisconnectFlagStep ==
  ASSUME IInv, NEW t \in Thread, NEW i \in Slot, t \in {i, master, user}, DisconnectFlag(t, i)
  PROVE  IInv'
<1> DEFINE c == [client[i] EXCEPT !.server_disconnected = TRUE]
<1>1. TypeOK /\ TypeOK' /\ Kept
  <2>1. TypeOK /\ client[i] \in Client
    BY DEF IInv, TypeOK
  <2>2. at' \in [Thread -> ThreadStates]
    BY <2>1, Moved DEF DisconnectFlag, ThreadStates, MasterStates, DcStates
  <2>3. c \in Client /\ c.used = client[i].used /\ c.disabled = client[i].disabled
    BY <2>1 DEF Client
  <2>4. client' = [client EXCEPT ![i] = c]
    BY DEF DisconnectFlag
  <2>5. client' \in [Slot -> Client] /\ Kept
    BY <2>1, <2>3, <2>4, SlotWritten
  <2> QED
    BY <2>1, <2>2, <2>5 DEF DisconnectFlag, TypeOK, lockVars, gameVars
<1> QED
  BY <1>1, DisconnectMovesStep DEF DisconnectFlag, DcStates, lockVars, gameVars

LEMMA DisconnectSpawnStep ==
  ASSUME IInv, NEW t \in Thread, NEW i \in Slot, t \in {i, master, user}, DisconnectSpawn(t, i)
  PROVE  IInv'
<1> DEFINE c == IF client[i].connected_knows
                THEN [client[i] EXCEPT !.droptime = "running", !.discleft = DiscPackets,
                                       !.discthread = TRUE]
                ELSE [client[i] EXCEPT !.droptime = "running"]
<1>0. TypeOK /\ ThreadsInv /\ GameLockInv /\ client[i] \in Client
  BY DEF IInv, TypeOK
<1>1. /\ at[t] = "dc_spawn" /\ i = SlotOf(t)
      /\ UNCHANGED <<num_clients, server_stopped, on, mail, job, copy, station_mutex,
                     clientReservationMutex, signalled, clientConnection, session, sessions>>
      /\ threadLockMutex' = IF threadLockMutex = t THEN None ELSE threadLockMutex
      /\ disc' \in {disc, [disc EXCEPT ![i] = "run"]}
      /\ client' = [client EXCEPT ![i] = c]
  <2>1. client' = [client EXCEPT ![i] = c]
    BY DEF DisconnectSpawn
  <2> QED
    BY <2>1 DEF DisconnectSpawn, gameVars
<1>2. /\ t = i => Goto(t, "loop")
      /\ t = master => Goto(t, "idle")
      /\ t = user => Goto(t, IF threadLockMutex = user THEN "idle" ELSE "stop_next")
  BY Threads DEF DisconnectSpawn
<1>3. c \in Client /\ c.used = client[i].used /\ c.disabled = client[i].disabled
  <2>1. DiscPackets \in 0 .. DiscPackets
    BY BoundAssumption
  <2>2. CASE client[i].connected_knows
    BY <1>0, <2>1, <2>2 DEF Client
  <2>3. CASE ~client[i].connected_knows
    BY <1>0, <2>3 DEF Client
  <2> QED
    BY <2>2, <2>3
<1>4. client' \in [Slot -> Client] /\ Kept
  BY <1>0, <1>1, <1>3, SlotWritten
<1> HIDE DEF c
<1>5. TypeOK'
  <2>1. at' \in [Thread -> ThreadStates]
    BY <1>0, <1>2, Moved DEF ThreadStates, SlaveStates, MasterStates, UserStates
  <2>2. disc' \in [Slot -> {"none", "run", "ended"}]
    BY <1>0, <1>1 DEF TypeOK
  <2> QED
    BY <1>0, <1>1, <1>4, <2>1, <2>2 DEF TypeOK
<1>6. CASE t = i
  BY <1>1, <1>2, <1>4, <1>5, <1>6, Threads, SlaveStep DEF SlaveStates, WaitStates
<1>7. CASE t = master
  <2>1. threadLockMutex # master
    BY <1>0, Threads DEF GameLockInv
  <2> QED
    BY <1>0, <1>1, <1>2, <1>4, <1>5, <1>7, <2>1, MasterStep DEF MasterStates, FreeStates, ThreadsInv
<1>8. CASE t = user
  BY <1>0, <1>1, <1>2, <1>4, <1>5, <1>8, UserStep DEF UserStates, DcStates, ThreadsInv
<1> QED
  BY <1>6, <1>7, <1>8

LEMMA SendDisconnectStep ==
  ASSUME IInv, NEW i \in Slot, SendDisconnect(i)
  PROVE  IInv'
<1> DEFINE c == [client[i] EXCEPT !.discleft = @ - 1]
<1>1. TypeOK /\ client[i] \in Client
  BY DEF IInv, TypeOK
<1>2. client' \in [Slot -> Client] /\ Kept
  <2>1. CASE UNCHANGED client
    BY <1>1, <2>1, SlotsUntouched
  <2>2. CASE client[i].discleft > 0 /\ client' = [client EXCEPT ![i] = c]
    <3>1. client[i].discleft - 1 \in 0 .. DiscPackets
      BY <1>1, <2>2, BoundAssumption DEF Client
    <3>2. c \in Client /\ c.used = client[i].used /\ c.disabled = client[i].disabled
      BY <1>1, <3>1 DEF Client
    <3> QED
      BY <1>1, <2>2, <3>2, SlotWritten
  <2>3. client[i].discleft \in Int
    BY <1>1 DEF Client
  <2> QED
    BY <2>1, <2>2, <2>3 DEF SendDisconnect
<1>3. disc' \in [Slot -> {"none", "run", "ended"}]
  BY <1>1 DEF SendDisconnect, TypeOK
<1>4. TypeOK'
  BY <1>1, <1>2, <1>3 DEF SendDisconnect, TypeOK, lockVars, gameVars
<1> QED
  BY <1>2, <1>4, StillStep DEF SendDisconnect, lockVars, gameVars

--------------------------------------------------------------------------------
(* free_slave, which the master and the slave itself run.                         *)

LEMMA JoinStep ==
  ASSUME IInv, NEW t \in Thread, NEW i \in Slot, t \in {i, master},
         JoinDisconnector(t, i) \/ DisconnectorJoined(t, i)
  PROVE  IInv'
<1> DEFINE c == IF at[t] = "join" THEN [client[i] EXCEPT !.discleft = 0]
                ELSE [client[i] EXCEPT !.discthread = FALSE]
<1>1. /\ TypeOK /\ ThreadsInv /\ GameLockInv /\ client[i] \in Client /\ i = SlotOf(t)
      /\ UNCHANGED <<num_clients, server_stopped, on, mail, job, copy, lockVars, gameVars>>
      /\ at[t] \in {"join", "joining"}
  BY DEF IInv, TypeOK, JoinDisconnector, DisconnectorJoined
<1>2. PICK pc \in {"joining", "free"} : Goto(t, pc)
  BY DEF JoinDisconnector, DisconnectorJoined
<1>3. client' \in [Slot -> Client] /\ Kept
  <2>1. 0 \in 0 .. DiscPackets
    BY BoundAssumption
  <2>2. c \in Client /\ c.used = client[i].used /\ c.disabled = client[i].disabled
    <3>1. CASE at[t] = "join"
      BY <1>1, <2>1, <3>1 DEF Client
    <3>2. CASE at[t] # "join"
      BY <1>1, <3>2 DEF Client
    <3> QED
      BY <3>1, <3>2
  <2>3. UNCHANGED client \/ client' = [client EXCEPT ![i] = c]
    BY DEF JoinDisconnector, DisconnectorJoined
  <2> HIDE DEF c
  <2> QED
    BY <1>1, <2>2, <2>3, SlotWritten, SlotsUntouched
<1>4. TypeOK'
  <2>1. at' \in [Thread -> ThreadStates]
    BY <1>1, <1>2, Moved DEF ThreadStates, MasterStates, FreeStates
  <2>2. disc' \in [Slot -> {"none", "run", "ended"}]
    BY <1>1 DEF JoinDisconnector, DisconnectorJoined, TypeOK
  <2> QED
    BY <1>1, <1>3, <2>1, <2>2 DEF TypeOK, lockVars, gameVars
<1>5. CASE t = i
  BY <1>1, <1>2, <1>3, <1>4, <1>5, SlaveStep DEF SlaveStates, FreeStates, WaitStates, DcStates, lockVars, gameVars
<1>6. CASE t = master
  <2>1. pc \in MasterStates /\ {at[master], pc} \subseteq FreeStates
    BY <1>1, <1>6 DEF MasterStates, FreeStates
  <2>2. pc \notin {"deliver", "reserve"} /\ on[master] \in Slot
    BY <1>1 DEF ThreadsInv
  <2> QED
    BY <1>1, <1>2, <1>3, <1>4, <1>6, <2>1, <2>2, MasterStep DEF lockVars, gameVars
<1> QED
  BY <1>5, <1>6

(* The slave frees its slot while it holds its mutex, and goes on to count.       *)
LEMMA SlaveFreesStep ==
  ASSUME IInv, NEW i \in Slot, FreeSlot(i, i)
  PROVE  IInv'
<1> DEFINE c == [client[i] EXCEPT !.used = FALSE, !.packet = None]
<1>1. /\ TypeOK /\ ThreadsInv /\ client[i] \in Client
      /\ at[i] = "free" /\ Goto(i, "count") /\ client' = [client EXCEPT ![i] = c]
      /\ copy' = [copy EXCEPT ![i] = num_clients]
      /\ UNCHANGED <<num_clients, server_stopped, on, mail, job, disc, lockVars, gameVars>>
  BY Threads DEF IInv, TypeOK, FreeSlot, lockVars
<1>2. c \in Client /\ c.used = FALSE /\ c.disabled = client[i].disabled
  BY <1>1 DEF Client
<1>3. /\ client' \in [Slot -> Client]
      /\ ~client'[i].used /\ client'[i].disabled = client[i].disabled
      /\ \A j \in Slot : j # i => client'[j] = client[j]
  BY <1>1, <1>2 DEF TypeOK
<1>4. /\ at' \in [Thread -> ThreadStates] /\ at'[i] = "count"
      /\ \A t \in Thread : t # i => at'[t] = at[t]
  BY <1>1, Threads, Moved DEF ThreadStates, SlaveStates
<1> HIDE DEF c
<1>5. TypeOK'
  <2>1. copy' \in [Slot -> Int]
    BY <1>1 DEF TypeOK
  <2> QED
    BY <1>1, <1>3, <1>4, <2>1 DEF TypeOK, lockVars, gameVars
<1>6. /\ at'[master] = at[master] /\ at'[user] = at[user] /\ at'[bots] = at[bots]
      /\ \A j \in Slot : j # i => at'[j] = at[j]
  BY <1>4, Threads
<1>7. ThreadsInv'
  BY <1>1, <1>4, <1>6 DEF ThreadsInv, SlaveStates, gameVars
<1>8. StationsInv'
  BY <1>1, <1>4, <1>6 DEF IInv, StationsInv, WaitStates, lockVars
<1>9. GameLockInv'
  BY <1>1, <1>4, <1>6, Threads DEF IInv, GameLockInv, DcStates, lockVars
<1>10. VacancyInv'
  BY <1>1, <1>3, <1>6 DEF IInv, VacancyInv, ThreadsInv
<1>11. SlaveKeepsItsSlot'
  BY <1>1, <1>3, <1>4, <1>6 DEF IInv, SlaveKeepsItsSlot, lockVars
<1>12. SlotsAreNotShared'
  BY <1>3 DEF IInv, SlotsAreNotShared
<1> QED
  BY <1>5, <1>7, <1>8, <1>9, <1>10, <1>11, <1>12 DEF IInv

(* The master frees a slot whose mutex it holds: its slave waits.                 *)
LEMMA MasterFreesStep ==
  ASSUME IInv, NEW i \in Slot, FreeSlot(master, i)
  PROVE  IInv'
<1> DEFINE c == [client[i] EXCEPT !.used = FALSE, !.packet = None]
<1>1. /\ TypeOK /\ ThreadsInv /\ StationsInv /\ client[i] \in Client /\ i = on[master]
      /\ at[master] = "free" /\ Goto(master, "idle") /\ client' = [client EXCEPT ![i] = c]
      /\ num_clients' = num_clients - 1
      /\ station_mutex' = [station_mutex EXCEPT ![i] = None]
      /\ UNCHANGED <<server_stopped, on, mail, job, copy, disc, clientReservationMutex,
                     threadLockMutex, signalled, gameVars>>
  BY Threads DEF IInv, TypeOK, FreeSlot, SlotOf
<1>2. c \in Client /\ c.used = FALSE /\ c.disabled = client[i].disabled
  BY <1>1 DEF Client
<1>3. /\ client' \in [Slot -> Client]
      /\ ~client'[i].used /\ client'[i].disabled = client[i].disabled
      /\ \A j \in Slot : j # i => client'[j] = client[j]
  BY <1>1, <1>2 DEF TypeOK
<1>4. /\ at' \in [Thread -> ThreadStates] /\ at'[master] = "idle"
      /\ \A t \in Thread : t # master => at'[t] = at[t]
  BY <1>1, Threads, Moved DEF ThreadStates, MasterStates
<1>5. /\ station_mutex' \in [Slot -> Thread \cup {None}] /\ station_mutex'[i] = None
      /\ \A j \in Slot : j # i => station_mutex'[j] = station_mutex[j]
  BY <1>1 DEF TypeOK
<1> HIDE DEF c
<1>6. TypeOK'
  BY <1>1, <1>3, <1>4, <1>5 DEF TypeOK, gameVars
<1>7. /\ at'[user] = at[user] /\ at'[bots] = at[bots]
      /\ \A j \in Slot : at'[j] = at[j]
  BY <1>4, Threads
<1>8. ThreadsInv'
  BY <1>1, <1>4, <1>7, Threads DEF ThreadsInv, MasterStates, gameVars
<1>9. station_mutex[i] = master /\ at[i] \in WaitStates
  BY <1>1, Threads DEF StationsInv, FreeStates
<1>10. StationsInv'
  BY <1>1, <1>4, <1>5, <1>7, <1>9, Threads DEF StationsInv, FreeStates
<1>11. GameLockInv'
  BY <1>1, <1>4, <1>7, Threads DEF IInv, GameLockInv
<1>12. VacancyInv'
  BY <1>4 DEF VacancyInv
<1>13. SlaveKeepsItsSlot'
  BY <1>1, <1>3, <1>5, <1>7, <1>9 DEF IInv, SlaveKeepsItsSlot, WaitStates
<1>14. SlotsAreNotShared'
  BY <1>3 DEF IInv, SlotsAreNotShared
<1> QED
  BY <1>6, <1>8, <1>10, <1>11, <1>12, <1>13, <1>14 DEF IInv

LEMMA CountFreedStep ==
  ASSUME IInv, NEW i \in Slot, CountFreed(i)
  PROVE  IInv'
<1>1. TypeOK /\ TypeOK' /\ Kept
  <2>1. TypeOK /\ copy[i] - 1 \in Int
    BY DEF IInv, TypeOK
  <2>2. at' \in [Thread -> ThreadStates]
    BY <2>1, Threads, Moved DEF CountFreed, ThreadStates, SlaveStates
  <2> QED
    BY <2>1, <2>2 DEF CountFreed, TypeOK, Kept, lockVars, gameVars
<1> QED
  BY <1>1, SlaveStep DEF CountFreed, SlaveStates, DcStates, lockVars, gameVars

--------------------------------------------------------------------------------
(* The master.                                                                    *)

(* The master begins or ends something without a mutex.                           *)
LEMMA MasterQuietStep ==
  ASSUME IInv,
         \/ \E i \in Slot : ThinkFree(i) \/ ThinkTimeout(i)
         \/ \E a \in Address : ReceiveNew(a) \/ \E p \in Packet, i \in Slot : ReceiveKnown(a, p, i)
         \/ StopMaster
  PROVE  IInv'
<1>1. /\ TypeOK /\ ThreadsInv /\ at[master] = "idle"
      /\ UNCHANGED <<client, num_clients, server_stopped, job, copy, disc, lockVars, gameVars>>
  BY DEF IInv, ThinkFree, ThinkTimeout, ReceiveNew, ReceiveKnown, StopMaster
<1>2. PICK pc \in {"lock", "dc_callback", "reserve", "deliver", "done"} :
        /\ Goto(master, pc)
        /\ on' \in [{master, user} -> 0 .. MAX_CLIENTS]
        /\ on'[master] \in Slot /\ on'[user] = on[user]
        /\ mail' \in {None} \cup Mail
        /\ pc \in {"deliver", "reserve"} => mail' \in Mail
        /\ pc = "reserve" => sessions < MaxSessions
  <2>0. \A i \in Slot : LET o == [on EXCEPT ![master] = i] IN
          /\ o \in [{master, user} -> 0 .. MAX_CLIENTS] /\ o[master] = i /\ o[user] = on[user]
    BY <1>1, Threads, SlotAssumption DEF TypeOK, Slot
  <2>1. ASSUME NEW i \in Slot, ThinkFree(i)
        PROVE  on' = [on EXCEPT ![master] = i] /\ Goto(master, "lock") /\ UNCHANGED mail
    BY <2>1 DEF ThinkFree
  <2>2. ASSUME NEW i \in Slot, ThinkTimeout(i)
        PROVE  on' = [on EXCEPT ![master] = i] /\ Goto(master, "dc_callback") /\ UNCHANGED mail
    BY <2>2 DEF ThinkTimeout
  <2>3. ASSUME NEW a \in Address, NEW p \in Packet, NEW i \in Slot, ReceiveKnown(a, p, i)
        PROVE  /\ on' = [on EXCEPT ![master] = i] /\ Goto(master, "deliver")
               /\ mail' \in Mail
    <3>1. mail' = [addr |-> a, packet |-> p]
      BY <2>3 DEF ReceiveKnown
    <3> QED
      BY <2>3, <3>1 DEF ReceiveKnown, Mail
  <2>4. ASSUME NEW a \in Address, ReceiveNew(a)
        PROVE  /\ UNCHANGED on /\ Goto(master, "reserve") /\ sessions < MaxSessions
               /\ mail' \in Mail
    <3>1. mail' = [addr |-> a, packet |-> "hello"] /\ "hello" \in Packet
      BY <2>4 DEF ReceiveNew, Packet
    <3> QED
      BY <2>4, <3>1 DEF ReceiveNew, Mail
  <2>5. ASSUME StopMaster
        PROVE  UNCHANGED <<on, mail>> /\ Goto(master, "done")
    BY <2>5 DEF StopMaster
  <2> QED
    BY <1>1, <2>0, <2>1, <2>2, <2>3, <2>4, <2>5 DEF TypeOK, ThreadsInv
<1>3. TypeOK'
  <2>1. at' \in [Thread -> ThreadStates]
    BY <1>1, <1>2, Threads, Moved DEF ThreadStates, MasterStates, DcStates
  <2> QED
    BY <1>1, <1>2, <2>1 DEF TypeOK, lockVars, gameVars
<1>4. Kept
  BY <1>1 DEF Kept
<1> QED
  BY <1>1, <1>2, <1>3, <1>4, MasterStep DEF MasterStates, DcStates, FreeStates, lockVars, gameVars

LEMMA LockToFreeStep ==
  ASSUME IInv, LockToFree
  PROVE  IInv'
<1> DEFINE i == on[master]
<1>1. /\ TypeOK /\ ThreadsInv /\ StationsInv /\ i \in Slot
      /\ at[master] = "lock" /\ Goto(master, "join")
      /\ station_mutex[i] = None /\ station_mutex' = [station_mutex EXCEPT ![i] = master]
      /\ UNCHANGED <<client, num_clients, server_stopped, on, mail, job, copy, disc,
                     clientReservationMutex, threadLockMutex, signalled, gameVars>>
  BY DEF IInv, ThreadsInv, LockToFree, Free
<1>2. /\ at' \in [Thread -> ThreadStates] /\ at'[master] = "join"
      /\ at'[user] = at[user] /\ at'[bots] = at[bots] /\ \A j \in Slot : at'[j] = at[j]
  BY <1>1, Threads, Moved DEF ThreadStates, MasterStates, FreeStates
<1>3. /\ station_mutex' \in [Slot -> Thread \cup {None}] /\ station_mutex'[i] = master
      /\ \A j \in Slot : j # i => station_mutex'[j] = station_mutex[j]
  BY <1>1, Threads DEF TypeOK
<1>4. TypeOK'
  BY <1>1, <1>2, <1>3 DEF TypeOK, gameVars
<1>5. ThreadsInv'
  BY <1>1, <1>2 DEF ThreadsInv, MasterStates, FreeStates
<1>6. at[i] \in WaitStates
  BY <1>1, Threads DEF StationsInv
<1>7. StationsInv'
  BY <1>1, <1>2, <1>3, <1>6, Threads DEF StationsInv, FreeStates
<1>8. GameLockInv'
  BY <1>1, <1>2, Threads DEF IInv, GameLockInv
<1>9. VacancyInv'
  BY <1>2 DEF VacancyInv
<1>10. SlaveKeepsItsSlot'
  BY <1>1, <1>2, <1>3, <1>6 DEF IInv, SlaveKeepsItsSlot, WaitStates
<1>11. SlotsAreNotShared'
  BY <1>1 DEF IInv, SlotsAreNotShared
<1> QED
  BY <1>4, <1>5, <1>7, <1>8, <1>9, <1>10, <1>11 DEF IInv

LEMMA DeliverStep ==
  ASSUME IInv, Deliver
  PROVE  IInv'
<1> DEFINE i == on[master]  c == [client[i] EXCEPT !.packet = mail.packet]
<1>1. /\ TypeOK /\ ThreadsInv /\ i \in Slot /\ client[i] \in Client
      /\ at[master] = "deliver" /\ Goto(master, "idle") /\ mail' = None
      /\ client' = [client EXCEPT ![i] = c]
      /\ signalled' = [signalled EXCEPT ![i] = (at[i] = "wait")]
      /\ UNCHANGED <<num_clients, server_stopped, on, job, copy, disc, station_mutex,
                     clientReservationMutex, threadLockMutex, gameVars>>
  BY DEF IInv, TypeOK, ThreadsInv, Deliver
<1>2. mail.packet \in Packet
  BY <1>1 DEF ThreadsInv, Mail
<1>3. c \in Client /\ c.used = client[i].used /\ c.disabled = client[i].disabled
  BY <1>1, <1>2 DEF Client
<1>4. client' \in [Slot -> Client] /\ Kept
  BY <1>1, <1>3, SlotWritten
<1> HIDE DEF c
<1>5. TypeOK'
  <2>1. at' \in [Thread -> ThreadStates]
    BY <1>1, Threads, Moved DEF ThreadStates, MasterStates
  <2>2. signalled' \in [Slot -> BOOLEAN]
    BY <1>1 DEF TypeOK
  <2> QED
    BY <1>1, <1>4, <2>1, <2>2 DEF TypeOK, gameVars
<1> QED
  BY <1>1, <1>4, <1>5, MasterStep DEF MasterStates, FreeStates, gameVars

(* The slot that is found is vacant, and the bot thread cannot take it meanwhile.  *)
LEMMA FindSlotStep ==
  ASSUME IInv, FindSlot
  PROVE  IInv'
<1>1. /\ TypeOK /\ ThreadsInv /\ StationsInv /\ at[master] = "reserve"
      /\ clientReservationMutex = None
      /\ UNCHANGED <<client, num_clients, server_stopped, job, copy, disc, station_mutex,
                     threadLockMutex, signalled, gameVars>>
  BY DEF IInv, FindSlot, Free
<1>2. CASE Vacant = {}
  <2>1. Goto(master, "idle") /\ mail' = None /\ UNCHANGED <<on, clientReservationMutex>>
    BY <1>2 DEF FindSlot
  <2>2. TypeOK'
    <3>1. at' \in [Thread -> ThreadStates]
      BY <1>1, <2>1, Threads, Moved DEF ThreadStates, MasterStates
    <3> QED
      BY <1>1, <2>1, <3>1 DEF TypeOK, gameVars
  <2>3. Kept
    BY <1>1 DEF Kept
  <2> QED
    BY <1>1, <2>1, <2>2, <2>3, MasterStep DEF MasterStates, FreeStates, ThreadsInv, gameVars
<1>3. CASE Vacant # {}
  <2> DEFINE i == Min(Vacant)
  <2>1. /\ clientReservationMutex' = master /\ on' = [on EXCEPT ![master] = i]
        /\ Goto(master, "alloc") /\ UNCHANGED mail
    BY <1>3 DEF FindSlot
  <2>2. i \in Slot /\ ~client[i].used /\ ~client[i].disabled
    <3>1. Vacant \in SUBSET Slot
      BY DEF Vacant
    <3>2. i \in Vacant
      BY <1>3, <3>1, MinOfSlots
    <3> QED
      BY <3>2 DEF Vacant
  <2> HIDE DEF i
  <2>3. /\ at' \in [Thread -> ThreadStates] /\ at'[master] = "alloc"
        /\ at'[user] = at[user] /\ at'[bots] = at[bots] /\ \A j \in Slot : at'[j] = at[j]
    BY <1>1, <2>1, Threads, Moved DEF ThreadStates, MasterStates
  <2>4. /\ on' \in [{master, user} -> 0 .. MAX_CLIENTS] /\ on'[master] = i /\ on'[user] = on[user]
    BY <1>1, <2>1, <2>2, Threads, SlotAssumption DEF TypeOK, Slot
  <2>5. TypeOK'
    BY <1>1, <2>1, <2>3, <2>4 DEF TypeOK, gameVars
  <2>6. ThreadsInv'
    BY <1>1, <2>1, <2>2, <2>3, <2>4 DEF ThreadsInv, MasterStates, gameVars
  <2>7. StationsInv'
    BY <1>1, <2>1, <2>3, <2>4 DEF StationsInv, FreeStates
  <2>8. GameLockInv'
    BY <1>1, <2>3, Threads DEF IInv, GameLockInv
  <2>9. VacancyInv'
    BY <1>1, <2>2, <2>4 DEF VacancyInv
  <2>10. SlaveKeepsItsSlot' /\ SlotsAreNotShared'
    BY <1>1, <2>3 DEF IInv, SlaveKeepsItsSlot, SlotsAreNotShared
  <2> QED
    BY <2>5, <2>6, <2>7, <2>8, <2>9, <2>10 DEF IInv
<1> QED
  BY <1>2, <1>3

(* The slot is still vacant when it is set up, and its slave waits.               *)
LEMMA AllocateStep ==
  ASSUME IInv, NEW i \in Slot, AllocateSlot(i)
  PROVE  IInv'
<1> DEFINE c == [client[i] EXCEPT
       !.used = TRUE, !.addr = mail.addr, !.packet = mail.packet, !.connected = FALSE,
       !.connected_knows = FALSE, !.told_disconnect = FALSE,
       !.server_disconnected = FALSE, !.droptime = "unset", !.discleft = 0,
       !.quitflag = FALSE]
<1>1. /\ TypeOK /\ ThreadsInv /\ StationsInv /\ VacancyInv /\ client[i] \in Client
      /\ at[master] = "alloc" /\ i = on[master] /\ station_mutex[i] = None
  BY DEF IInv, TypeOK, AllocateSlot, Free
<1>2. /\ client' = [client EXCEPT ![i] = c]
      /\ Goto(master, "idle") /\ mail' = None /\ clientReservationMutex' = None
      /\ signalled' = [signalled EXCEPT ![i] = (at[i] = "wait")]
      /\ num_clients' = num_clients + 1
      /\ session' = [session EXCEPT ![i] = sessions + 1] /\ sessions' = sessions + 1
      /\ UNCHANGED <<server_stopped, on, job, copy, disc, station_mutex, threadLockMutex,
                     clientConnection>>
  BY DEF AllocateSlot
<1>3. c \in Client /\ c.disabled = client[i].disabled
  <2>1. mail.addr \in Address /\ mail.packet \in Packet /\ 0 \in 0 .. DiscPackets
    BY <1>1, BoundAssumption DEF ThreadsInv, Mail
  <2> DEFINE c1 == [client[i] EXCEPT !.used = TRUE, !.addr = mail.addr,
                                     !.packet = mail.packet, !.connected = FALSE]
             c2 == [c1 EXCEPT !.connected_knows = FALSE, !.told_disconnect = FALSE,
                              !.server_disconnected = FALSE]
             c3 == [c2 EXCEPT !.droptime = "unset", !.discleft = 0, !.quitflag = FALSE]
  <2>2. c1 \in Client /\ c1.disabled = client[i].disabled
    BY <1>1, <2>1 DEF Client
  <2>3. c2 \in Client /\ c2.disabled = c1.disabled
    <3> HIDE DEF c1
    <3> QED
      BY <2>2 DEF Client
  <2>4. c3 \in Client /\ c3.disabled = c2.disabled
    <3> HIDE DEF c2
    <3> QED
      BY <2>1, <2>3 DEF Client
  <2>5. c = c3
    OBVIOUS
  <2> QED
    BY <2>2, <2>3, <2>4, <2>5
<1>4. /\ client' \in [Slot -> Client] /\ client'[i].disabled = client[i].disabled
      /\ \A j \in Slot : j # i => client'[j] = client[j]
  BY <1>1, <1>2, <1>3 DEF TypeOK
<1> HIDE DEF c
<1>5. /\ at' \in [Thread -> ThreadStates] /\ at'[master] = "idle"
      /\ at'[user] = at[user] /\ at'[bots] = at[bots] /\ \A j \in Slot : at'[j] = at[j]
  BY <1>1, <1>2, Threads, Moved DEF ThreadStates, MasterStates
<1>6. TypeOK'
  <2>1. signalled' \in [Slot -> BOOLEAN] /\ num_clients' \in Int
    BY <1>1, <1>2 DEF TypeOK
  <2>2. sessions' \in 0 .. MaxSessions
    BY <1>1, <1>2, BoundAssumption DEF TypeOK, ThreadsInv
  <2>3. session' \in [Slot -> 0 .. MaxSessions]
    BY <1>1, <1>2, <2>2 DEF TypeOK
  <2> QED
    BY <1>1, <1>2, <1>4, <1>5, <2>1, <2>2, <2>3 DEF TypeOK
<1>7. ThreadsInv'
  BY <1>1, <1>2, <1>5 DEF ThreadsInv, MasterStates
<1>8. StationsInv'
  BY <1>1, <1>2, <1>5, Threads DEF StationsInv, FreeStates
<1>9. GameLockInv'
  BY <1>2, <1>5, Threads DEF IInv, GameLockInv
<1>10. VacancyInv'
  BY <1>5 DEF VacancyInv
<1>11. at[i] \in WaitStates
  BY <1>1, Threads DEF StationsInv
<1>12. SlaveKeepsItsSlot'
  BY <1>2, <1>4, <1>5, <1>11 DEF IInv, SlaveKeepsItsSlot, WaitStates
<1>13. SlotsAreNotShared'
  BY <1>1, <1>4 DEF IInv, SlotsAreNotShared, VacancyInv
<1> QED
  BY <1>6, <1>7, <1>8, <1>9, <1>10, <1>12, <1>13 DEF IInv

(* The slot is as vacant as it was when it is given up.                           *)
LEMMA CannotAllocateStep ==
  ASSUME IInv, NEW i \in Slot, CannotAllocateSlot(i)
  PROVE  IInv'
<1> DEFINE c == [client[i] EXCEPT
       !.addr = mail.addr, !.connected = FALSE, !.connected_knows = FALSE,
       !.told_disconnect = FALSE, !.server_disconnected = FALSE, !.droptime = "unset",
       !.discleft = 0, !.quitflag = FALSE, !.packet = None]
<1>1. /\ TypeOK /\ ThreadsInv /\ StationsInv /\ client[i] \in Client
      /\ at[master] = "alloc" /\ station_mutex[i] = None
  BY DEF IInv, TypeOK, CannotAllocateSlot, Free
<1>2. /\ client' = [client EXCEPT ![i] = c]
      /\ Goto(master, "idle") /\ mail' = None /\ clientReservationMutex' = None
      /\ UNCHANGED <<num_clients, server_stopped, on, job, copy, disc, station_mutex,
                     threadLockMutex, signalled, gameVars>>
  BY DEF CannotAllocateSlot
<1>3. c \in Client /\ c.used = client[i].used /\ c.disabled = client[i].disabled
  <2>1. mail.addr \in Address /\ 0 \in 0 .. DiscPackets
    BY <1>1, BoundAssumption DEF ThreadsInv, Mail
  <2> DEFINE c1 == [client[i] EXCEPT !.addr = mail.addr, !.connected = FALSE,
                                     !.connected_knows = FALSE, !.told_disconnect = FALSE]
             c2 == [c1 EXCEPT !.server_disconnected = FALSE, !.droptime = "unset",
                              !.discleft = 0, !.quitflag = FALSE, !.packet = None]
  <2>2. c1 \in Client /\ c1.used = client[i].used /\ c1.disabled = client[i].disabled
    BY <1>1, <2>1 DEF Client
  <2>3. c2 \in Client /\ c2.used = c1.used /\ c2.disabled = c1.disabled
    <3> HIDE DEF c1
    <3> QED
      BY <2>1, <2>2 DEF Client
  <2>4. c = c2
    OBVIOUS
  <2> QED
    BY <2>2, <2>3, <2>4
<1>4. client' \in [Slot -> Client] /\ Kept
  BY <1>1, <1>2, <1>3, SlotWritten
<1> HIDE DEF c
<1>5. /\ at' \in [Thread -> ThreadStates] /\ at'[master] = "idle"
      /\ at'[user] = at[user] /\ at'[bots] = at[bots] /\ \A j \in Slot : at'[j] = at[j]
  BY <1>1, <1>2, Threads, Moved DEF ThreadStates, MasterStates
<1>6. TypeOK'
  BY <1>1, <1>2, <1>4, <1>5 DEF TypeOK, gameVars
<1>7. ThreadsInv'
  BY <1>1, <1>2, <1>5 DEF ThreadsInv, MasterStates
<1>8. StationsInv'
  BY <1>1, <1>2, <1>5, Threads DEF StationsInv, FreeStates
<1>9. GameLockInv'
  BY <1>2, <1>5, Threads DEF IInv, GameLockInv
<1>10. VacancyInv'
  BY <1>5 DEF VacancyInv
<1>11. SlaveKeepsItsSlot' /\ SlotsAreNotShared'
  BY <1>2, <1>4, <1>5 DEF IInv, Kept, SlaveKeepsItsSlot, SlotsAreNotShared
<1> QED
  BY <1>6, <1>7, <1>8, <1>9, <1>10, <1>11 DEF IInv

--------------------------------------------------------------------------------
(* The slaves.                                                                    *)

(* A slave that works on a packet goes on, writing its slot (as c) and what is the *)
(* game's of it, and perhaps keeps the game locked.                                *)
LEMMA WorkStep ==
  ASSUME IInv, NEW i \in Slot, NEW pc \in SlaveStates, Goto(i, pc),
         \/ at[i] \notin WaitStates \cup {"loop", "count"} /\ pc \notin WaitStates \cup {"count"}
         \/ at[i] \in WaitStates /\ pc \in WaitStates,
         at[i] \notin DcStates,
         NEW c \in Client, c.used = client[i].used, c.disabled = client[i].disabled,
         UNCHANGED client \/ client' = [client EXCEPT ![i] = c],
         clientConnection' \in [Slot -> 0 .. MaxSessions \cup {Local}],
         \/ threadLockMutex' = threadLockMutex
         \/ threadLockMutex' = i /\ pc \in DcStates,
         UNCHANGED <<num_clients, server_stopped, on, mail, job, copy, disc, station_mutex,
                     clientReservationMutex, signalled, session, sessions>>
  PROVE  IInv'
<1>1. TypeOK /\ i \in Thread
  BY Threads DEF IInv
<1>2. client' \in [Slot -> Client] /\ Kept
  BY <1>1, SlotWritten, SlotsUntouched
<1>3. at' \in [Thread -> ThreadStates]
  BY <1>1, Moved DEF ThreadStates
<1>4. TypeOK'
  BY <1>1, <1>2, <1>3 DEF TypeOK
<1> QED
  BY <1>2, <1>4, SlaveStep

LEMMA SlaveStartsStep ==
  ASSUME IInv, NEW i \in Slot, SlaveStarts(i)
  PROVE  IInv'
<1>1. PICK pc \in {"done", "wait"} : Goto(i, pc)
  BY DEF SlaveStarts
<1>2. client[i] \in Client /\ clientConnection \in [Slot -> 0 .. MaxSessions \cup {Local}]
  BY DEF IInv, TypeOK
<1>3. /\ at[i] = "start" /\ pc \in SlaveStates
      /\ UNCHANGED <<client, num_clients, server_stopped, on, mail, job, copy, disc, lockVars,
                     gameVars>>
  BY DEF SlaveStarts, SlaveStates, WaitStates
<1> QED
  BY <1>1, <1>2, <1>3, WorkStep DEF WaitStates, DcStates, lockVars, gameVars

LEMMA ProcessStep ==
  ASSUME IInv, NEW i \in Slot, ProcessHello(i) \/ ProcessBye(i) \/ ProcessData(i) \/ KnowConnected(i)
  PROVE  IInv'
<1> DEFINE bye  == [client[i] EXCEPT !.told_disconnect = TRUE,
                      !.droptime = IF client[i].server_disconnected THEN "running" ELSE @]
           know == [client[i] EXCEPT !.connected_knows = TRUE]
<1>1. /\ TypeOK /\ client[i] \in Client
      /\ clientConnection \in [Slot -> 0 .. MaxSessions \cup {Local}]
  BY DEF IInv, TypeOK
<1>2. /\ at[i] \in {"work", "know"}
      /\ UNCHANGED <<num_clients, server_stopped, on, mail, job, copy, disc, lockVars, gameVars>>
  BY DEF ProcessHello, ProcessBye, ProcessData, KnowConnected
<1>3. PICK pc \in {"loop", "hello", "bye", "know", "data", "connect"} : Goto(i, pc)
  BY DEF ProcessHello, ProcessBye, ProcessData, KnowConnected
<1>4. \A c \in {client[i], bye, know} :
        c \in Client /\ c.used = client[i].used /\ c.disabled = client[i].disabled
  <2>1. bye \in Client /\ bye.used = client[i].used /\ bye.disabled = client[i].disabled
    BY <1>1 DEF Client
  <2>2. know \in Client /\ know.used = client[i].used /\ know.disabled = client[i].disabled
    BY <1>1 DEF Client
  <2> QED
    BY <1>1, <2>1, <2>2
<1>5. PICK c \in {client[i], bye, know} : UNCHANGED client \/ client' = [client EXCEPT ![i] = c]
  BY DEF ProcessHello, ProcessBye, ProcessData, KnowConnected
<1> HIDE DEF bye, know
<1>6. pc \in SlaveStates /\ pc \notin WaitStates \cup {"count"}
  BY DEF SlaveStates, WaitStates
<1>7. at[i] \notin WaitStates \cup DcStates \cup {"loop", "count"}
  BY <1>2 DEF WaitStates, DcStates
<1> QED
  BY <1>1, <1>2, <1>3, <1>4, <1>5, <1>6, <1>7, WorkStep DEF lockVars, gameVars

LEMMA CallbackStep ==
  ASSUME IInv, NEW i \in Slot,
         HelloCallback(i) \/ ByeCallback(i) \/ ConnectedCallback(i) \/ DataCallback(i)
  PROVE  IInv'
<1> DEFINE hello == [client[i] EXCEPT !.connected = TRUE]
           bye   == [client[i] EXCEPT !.droptime = "running"]
<1>1. TypeOK /\ client[i] \in Client
  BY DEF IInv, TypeOK
<1>2. /\ at[i] \in {"hello", "bye", "connect", "data"}
      /\ UNCHANGED <<num_clients, server_stopped, on, mail, job, copy, disc, station_mutex,
                     clientReservationMutex, signalled, session, sessions>>
  BY DEF HelloCallback, ByeCallback, ConnectedCallback, DataCallback, lockVars, gameVars
<1>3. PICK pc \in {"loop", "join", "data", "dc_callback"} :
        /\ Goto(i, pc)
        /\ threadLockMutex' = threadLockMutex \/ (threadLockMutex' = i /\ pc = "dc_callback")
  <2>1. HelloCallback(i) => (Goto(i, "loop") \/ Goto(i, "join")) /\ threadLockMutex' = threadLockMutex
    BY DEF HelloCallback, lockVars
  <2>2. ByeCallback(i) => Goto(i, "loop") /\ threadLockMutex' = threadLockMutex
    BY DEF ByeCallback, lockVars
  <2>3. ConnectedCallback(i) => Goto(i, "data") /\ threadLockMutex' = threadLockMutex
    BY DEF ConnectedCallback, lockVars
  <2>4. DataCallback(i) => \/ Goto(i, "loop") /\ threadLockMutex' = threadLockMutex
                           \/ Goto(i, "dc_callback") /\ threadLockMutex' = i
    BY DEF DataCallback
  <2> QED
    BY <2>1, <2>2, <2>3, <2>4
<1>4. \A c \in {client[i], hello, bye} :
        c \in Client /\ c.used = client[i].used /\ c.disabled = client[i].disabled
  <2>1. hello \in Client /\ hello.used = client[i].used /\ hello.disabled = client[i].disabled
    BY <1>1 DEF Client
  <2>2. bye \in Client /\ bye.used = client[i].used /\ bye.disabled = client[i].disabled
    BY <1>1 DEF Client
  <2> QED
    BY <1>1, <2>1, <2>2
<1>5. PICK c \in {client[i], hello, bye} : UNCHANGED client \/ client' = [client EXCEPT ![i] = c]
  BY DEF HelloCallback, ByeCallback, ConnectedCallback, DataCallback
<1> HIDE DEF hello, bye
<1>6. clientConnection' \in [Slot -> 0 .. MaxSessions \cup {Local}]
  <2>1. PICK n \in 0 .. MaxSessions :
          UNCHANGED clientConnection \/ clientConnection' = [clientConnection EXCEPT ![i] = n]
    <3>1. 0 \in 0 .. MaxSessions /\ session[i] \in 0 .. MaxSessions
      BY <1>1, BoundAssumption DEF TypeOK
    <3>2. ByeCallback(i) => \/ clientConnection' = [clientConnection EXCEPT ![i] = 0]
                            \/ clientConnection' = [clientConnection EXCEPT ![i] = clientConnection[i]]
      BY DEF ByeCallback
    <3>3. clientConnection = [clientConnection EXCEPT ![i] = clientConnection[i]]
      BY <1>1 DEF TypeOK
    <3> QED
      BY <3>1, <3>2, <3>3 DEF HelloCallback, ConnectedCallback, DataCallback, gameVars
  <2> QED
    BY <1>1, <2>1 DEF TypeOK
<1>7. pc \in SlaveStates /\ pc \notin WaitStates \cup {"count"}
  BY DEF SlaveStates, WaitStates, FreeStates, DcStates
<1>8. at[i] \notin WaitStates \cup DcStates \cup {"loop", "count"}
  BY <1>2 DEF WaitStates, DcStates
<1> QED
  BY <1>2, <1>3, <1>4, <1>5, <1>6, <1>7, <1>8, WorkStep DEF DcStates

(* A slave takes the mutex of its station with a packet for a client that has the  *)
(* slot, or goes round its loop.                                                   *)
LEMMA SlaveWakesStep ==
  ASSUME IInv, NEW i \in Slot, SlaveWakes(i)
  PROVE  IInv'
<1> DEFINE c == [client[i] EXCEPT !.packet = None]
<1>1. /\ TypeOK /\ ThreadsInv /\ StationsInv /\ client[i] \in Client
      /\ at[i] = "wait" /\ station_mutex[i] = None
      /\ signalled' = [signalled EXCEPT ![i] = FALSE]
      /\ station_mutex' = [station_mutex EXCEPT ![i] = i]
      /\ UNCHANGED <<num_clients, server_stopped, on, mail, copy, disc,
                     clientReservationMutex, threadLockMutex, gameVars>>
  BY DEF IInv, TypeOK, SlaveWakes, Free
<1>2. PICK pc \in {"work", "loop"} : Goto(i, pc) /\ (pc = "work" => client[i].used)
  BY DEF SlaveWakes
<1>3. client' \in [Slot -> Client] /\ Kept
  <2>1. c \in Client /\ c.used = client[i].used /\ c.disabled = client[i].disabled
    BY <1>1 DEF Client
  <2>2. UNCHANGED client \/ client' = [client EXCEPT ![i] = c]
    BY DEF SlaveWakes
  <2> HIDE DEF c
  <2> QED
    BY <1>1, <2>1, <2>2, SlotWritten, SlotsUntouched
<1>4. /\ at' \in [Thread -> ThreadStates] /\ at'[i] = pc
      /\ at'[master] = at[master] /\ at'[user] = at[user] /\ at'[bots] = at[bots]
      /\ \A j \in Slot : j # i => at'[j] = at[j]
  BY <1>1, <1>2, Threads, Moved DEF ThreadStates, SlaveStates
<1>5. /\ station_mutex' \in [Slot -> Thread \cup {None}] /\ station_mutex'[i] = i
      /\ \A j \in Slot : j # i => station_mutex'[j] = station_mutex[j]
  BY <1>1, Threads DEF TypeOK
<1>6. TypeOK'
  <2>1. job' \in [Slot -> Packet \cup {None}]
    BY <1>1 DEF SlaveWakes, TypeOK, Client
  <2>2. signalled' \in [Slot -> BOOLEAN]
    BY <1>1 DEF TypeOK
  <2> QED
    BY <1>1, <1>3, <1>4, <1>5, <2>1, <2>2 DEF TypeOK, gameVars
<1>7. ThreadsInv'
  BY <1>1, <1>4 DEF ThreadsInv, SlaveStates, gameVars
<1>8. StationsInv'
  BY <1>1, <1>4, <1>5, Threads DEF StationsInv, WaitStates
<1>9. GameLockInv'
  BY <1>1, <1>4, Threads DEF IInv, GameLockInv, DcStates
<1>10. VacancyInv'
  BY <1>1, <1>3, <1>4 DEF IInv, VacancyInv, ThreadsInv, Kept
<1>11. SlaveKeepsItsSlot'
  BY <1>1, <1>2, <1>3, <1>4, <1>5 DEF IInv, SlaveKeepsItsSlot, Kept
<1>12. SlotsAreNotShared'
  BY <1>3 DEF IInv, SlotsAreNotShared, Kept
<1> QED
  BY <1>6, <1>7, <1>8, <1>9, <1>10, <1>11, <1>12 DEF IInv

LEMMA SlaveLoopsStep ==
  ASSUME IInv, NEW i \in Slot, SlaveLoops(i)
  PROVE  IInv'
<1>1. /\ TypeOK /\ ThreadsInv /\ StationsInv /\ at[i] = "loop"
      /\ station_mutex' = [station_mutex EXCEPT ![i] = None]
      /\ job' = [job EXCEPT ![i] = None]
      /\ UNCHANGED <<client, num_clients, server_stopped, on, mail, copy, disc,
                     clientReservationMutex, threadLockMutex, signalled, gameVars>>
  BY DEF IInv, SlaveLoops
<1>2. PICK pc \in {"done", "wait"} : Goto(i, pc)
  BY DEF SlaveLoops
<1>3. /\ at' \in [Thread -> ThreadStates] /\ at'[i] = pc
      /\ at'[master] = at[master] /\ at'[user] = at[user] /\ at'[bots] = at[bots]
      /\ \A j \in Slot : j # i => at'[j] = at[j]
  BY <1>1, <1>2, Threads, Moved DEF ThreadStates, SlaveStates, WaitStates
<1>4. /\ station_mutex' \in [Slot -> Thread \cup {None}] /\ station_mutex'[i] = None
      /\ \A j \in Slot : j # i => station_mutex'[j] = station_mutex[j]
  BY <1>1 DEF TypeOK
<1>5. TypeOK'
  <2>1. job' \in [Slot -> Packet \cup {None}]
    BY <1>1 DEF TypeOK
  <2> QED
    BY <1>1, <1>3, <1>4, <2>1 DEF TypeOK, gameVars
<1>6. ThreadsInv'
  BY <1>1, <1>3 DEF ThreadsInv, SlaveStates, WaitStates, gameVars
<1>7. StationsInv'
  <2>1. station_mutex[i] = i
    BY <1>1 DEF StationsInv, WaitStates
  <2> QED
    BY <1>1, <1>3, <1>4, <2>1, Threads DEF StationsInv, WaitStates
<1>8. GameLockInv'
  BY <1>1, <1>3, Threads DEF IInv, GameLockInv, DcStates
<1>9. VacancyInv'
  BY <1>1, <1>3 DEF IInv, VacancyInv
<1>10. SlaveKeepsItsSlot'
  BY <1>1, <1>3, <1>4 DEF IInv, SlaveKeepsItsSlot
<1>11. SlotsAreNotShared'
  BY <1>1 DEF IInv, SlotsAreNotShared
<1> QED
  BY <1>5, <1>6, <1>7, <1>8, <1>9, <1>10, <1>11 DEF IInv

--------------------------------------------------------------------------------
(* The game thread.                                                               *)

LEMMA OnUser ==
  ASSUME TypeOK, NEW n \in 0 .. MAX_CLIENTS
  PROVE  LET o == [on EXCEPT ![user] = n] IN
         /\ o \in [{master, user} -> 0 .. MAX_CLIENTS]
         /\ o[user] = n /\ o[master] = on[master]
BY Threads DEF TypeOK

LEMMA KickStep ==
  ASSUME IInv, NEW i \in Slot, Kick(i)
  PROVE  IInv'
<1>1. /\ TypeOK /\ Goto(user, "dc_callback") /\ threadLockMutex' = user
      /\ on' = [on EXCEPT ![user] = i] /\ i \in 0 .. MAX_CLIENTS
      /\ UNCHANGED <<client, num_clients, server_stopped, mail, job, copy, disc,
                     station_mutex, clientReservationMutex, signalled, gameVars>>
  BY SlotAssumption DEF IInv, Kick, Slot
<1>2. on' \in [{master, user} -> 0 .. MAX_CLIENTS] /\ on'[user] = i /\ on'[master] = on[master]
  BY <1>1, OnUser
<1>3. TypeOK'
  <2>1. at' \in [Thread -> ThreadStates]
    BY <1>1, Threads, Moved DEF ThreadStates, UserStates, DcStates
  <2> QED
    BY <1>1, <1>2, <2>1, Threads DEF TypeOK, gameVars
<1>4. Kept
  BY <1>1 DEF Kept
<1> QED
  BY <1>1, <1>2, <1>3, <1>4, UserStep DEF UserStates, DcStates, gameVars

LEMMA KickLocalStep ==
  ASSUME IInv, NEW i \in Slot, KickLocal(i)
  PROVE  IInv'
<1>1. clientConnection' \in [Slot -> 0 .. MaxSessions \cup {Local}]
  BY BoundAssumption DEF IInv, TypeOK, KickLocal
<1>2. TypeOK' /\ Kept
  BY <1>1 DEF IInv, TypeOK, KickLocal, Kept, threadVars, lockVars
<1> QED
  BY <1>2, StillStep DEF KickLocal, threadVars, lockVars

(* stop looks at a slot, and goes to the next one, while the game is not locked.   *)
LEMMA StopStep ==
  ASSUME IInv, StopBegins \/ StopDisconnects \/ StopNext
  PROVE  IInv'
<1>1. /\ TypeOK /\ ThreadsInv /\ GameLockInv /\ at[user] \in {"idle", "stop", "stop_next"}
      /\ UNCHANGED <<client, num_clients, mail, job, copy, disc, lockVars, gameVars>>
  BY DEF IInv, StopBegins, StopDisconnects, StopNext
<1>2. PICK pc \in {"stop", "dc_callback", "stop_next", "signal"} :
        /\ Goto(user, pc)
        /\ on' \in [{master, user} -> 0 .. MAX_CLIENTS] /\ on'[master] = on[master]
        /\ pc \in DcStates \cup {"stop_next", "slap"} => on'[user] \in Slot
        /\ server_stopped' \in BOOLEAN
  <2>1. 0 \in 0 .. MAX_CLIENTS /\ \A i \in Slot : i + 1 \in 0 .. MAX_CLIENTS
    BY SlotAssumption DEF Slot
  <2>2. CASE StopBegins
    BY <1>1, <2>1, <2>2, OnUser DEF StopBegins, TypeOK, DcStates
  <2>3. CASE StopNext
    <3>1. at[user] = "stop_next" /\ on[user] \in Slot
      BY <1>1, <2>3 DEF StopNext, ThreadsInv
    <3> QED
      BY <1>1, <2>1, <2>3, <3>1, OnUser DEF StopNext, TypeOK, DcStates
  <2>4. CASE StopDisconnects /\ on[user] \in Slot
    BY <1>1, <2>4 DEF StopDisconnects, TypeOK, DcStates
  <2>5. CASE StopDisconnects /\ on[user] \notin Slot
    BY <1>1, <2>1, <2>5, OnUser DEF StopDisconnects, TypeOK, DcStates
  <2> QED
    BY <2>2, <2>3, <2>4, <2>5
<1>3. TypeOK'
  <2>1. at' \in [Thread -> ThreadStates]
    BY <1>1, <1>2, Threads, Moved DEF ThreadStates, UserStates, DcStates
  <2> QED
    BY <1>1, <1>2, <2>1 DEF TypeOK, lockVars, gameVars
<1>4. Kept
  BY <1>1 DEF Kept
<1>5. threadLockMutex # user
  BY <1>1, Threads DEF GameLockInv, DcStates
<1> QED
  BY <1>1, <1>2, <1>3, <1>4, <1>5, UserStep DEF UserStates, DcStates, lockVars, gameVars

(* stop tells the slaves to quit and joins them.                                  *)
LEMMA StopThreadsStep ==
  ASSUME IInv, StopFlags \/ StopSignals \/ StopJoins
  PROVE  IInv'
<1> DEFINE i == on[user]
           quit   == [client[i] EXCEPT !.quitflag = TRUE]
           joined == [client[i] EXCEPT !.discthread = FALSE, !.packet = None]
<1>1. /\ TypeOK /\ ThreadsInv /\ GameLockInv /\ at[user] \in {"signal", "slap", "join"}
      /\ UNCHANGED <<num_clients, server_stopped, mail, job, copy, disc, station_mutex,
                     clientReservationMutex, threadLockMutex, gameVars>>
  BY DEF IInv, StopFlags, StopSignals, StopJoins, lockVars
<1>2. PICK pc \in {"slap", "join", "signal", "stopped"} :
        /\ Goto(user, pc)
        /\ on' \in [{master, user} -> 0 .. MAX_CLIENTS] /\ on'[master] = on[master]
        /\ pc \in DcStates \cup {"stop_next", "slap"} => on'[user] \in Slot
  <2>1. 0 \in 0 .. MAX_CLIENTS /\ \A j \in Slot : j + 1 \in 0 .. MAX_CLIENTS
    BY SlotAssumption DEF Slot
  <2>2. CASE StopFlags
    BY <1>1, <2>1, <2>2, OnUser DEF StopFlags, TypeOK, DcStates
  <2>3. CASE StopSignals
    <3>1. i \in Slot
      BY <1>1, <2>3 DEF StopSignals, ThreadsInv
    <3> QED
      BY <1>1, <2>1, <2>3, <3>1, OnUser DEF StopSignals, TypeOK, DcStates
  <2>4. CASE StopJoins /\ i \in Slot
    <3>1. /\ at' = at /\ on' = [on EXCEPT ![user] = i + 1] /\ at[user] = "join"
      BY <2>4 DEF StopJoins
    <3>2. Goto(user, "join")
      BY <1>1, <3>1, Threads DEF Goto, TypeOK
    <3> QED
      BY <1>1, <2>1, <2>4, <3>1, <3>2, OnUser DEF TypeOK, DcStates
  <2>5. CASE StopJoins /\ i \notin Slot
    BY <1>1, <2>5 DEF StopJoins, TypeOK, DcStates
  <2> QED
    BY <2>2, <2>3, <2>4, <2>5
<1>3. client' \in [Slot -> Client] /\ Kept
  <2>1. CASE UNCHANGED client
    BY <1>1, <2>1, SlotsUntouched
  <2>2. CASE i \in Slot /\ client' = [client EXCEPT ![i] = quit]
    <3>1. client[i] \in Client
      BY <1>1, <2>2 DEF TypeOK
    <3>2. quit \in Client /\ quit.used = client[i].used /\ quit.disabled = client[i].disabled
      BY <3>1 DEF Client
    <3> QED
      BY <1>1, <2>2, <3>2, SlotWritten
  <2>3. CASE i \in Slot /\ client' = [client EXCEPT ![i] = joined]
    <3>1. client[i] \in Client
      BY <1>1, <2>3 DEF TypeOK
    <3>2. joined \in Client /\ joined.used = client[i].used /\ joined.disabled = client[i].disabled
      BY <3>1 DEF Client
    <3> QED
      BY <1>1, <2>3, <3>2, SlotWritten
  <2> QED
    BY <2>1, <2>2, <2>3 DEF StopFlags, StopSignals, StopJoins
<1> HIDE DEF quit, joined
<1>4. TypeOK'
  <2>1. at' \in [Thread -> ThreadStates]
    BY <1>1, <1>2, Threads, Moved DEF ThreadStates, UserStates
  <2>2. signalled' \in [Slot -> BOOLEAN]
    BY <1>1 DEF StopFlags, StopSignals, StopJoins, TypeOK, lockVars
  <2> QED
    BY <1>1, <1>2, <1>3, <2>1, <2>2 DEF TypeOK, gameVars
<1>5. threadLockMutex # user
  BY <1>1, Threads DEF GameLockInv, DcStates
<1> QED
  BY <1>1, <1>2, <1>3, <1>4, <1>5, UserStep DEF UserStates, DcStates, gameVars

--------------------------------------------------------------------------------
(* The bot thread, and time.                                                      *)

LEMMA BotsLockStep ==
  ASSUME IInv, BotsLock
  PROVE  IInv'
<1>1. /\ TypeOK /\ ThreadsInv /\ Goto(bots, "reserve") /\ threadLockMutex' = bots
      /\ UNCHANGED <<client, num_clients, server_stopped, on, mail, job, copy, disc,
                     station_mutex, clientReservationMutex, signalled, gameVars>>
  BY DEF IInv, BotsLock
<1>2. /\ at' \in [Thread -> ThreadStates] /\ at'[bots] = "reserve"
      /\ at'[master] = at[master] /\ at'[user] = at[user] /\ \A j \in Slot : at'[j] = at[j]
  BY <1>1, Threads, Moved DEF ThreadStates, MasterStates
<1>3. TypeOK'
  BY <1>1, <1>2, Threads DEF TypeOK, gameVars
<1>4. ThreadsInv'
  BY <1>1, <1>2 DEF ThreadsInv, gameVars
<1>5. GameLockInv'
  BY <1>1, <1>2 DEF GameLockInv
<1>6. Kept /\ MasterMoves /\ \A j \in Slot : SlaveMoves(j)
  BY <1>1, <1>2 DEF Kept, MasterMoves, SlaveMoves
<1> QED
  BY <1>1, <1>3, <1>4, <1>5, <1>6, QuietStep

(* A slot that is given to a bot is vacant, and not the one the master has found. *)
LEMMA ReserveClientIdStep ==
  ASSUME IInv, ReserveClientId
  PROVE  IInv'
<1>1. /\ TypeOK /\ ThreadsInv /\ StationsInv
      /\ Goto(bots, "idle") /\ threadLockMutex' = None /\ clientReservationMutex = None
      /\ UNCHANGED <<num_clients, server_stopped, on, mail, job, copy, disc, station_mutex,
                     clientReservationMutex, signalled, session, sessions>>
  BY DEF IInv, ReserveClientId, Free
<1>2. /\ at' \in [Thread -> ThreadStates] /\ at'[bots] = "idle"
      /\ at'[master] = at[master] /\ at'[user] = at[user] /\ \A j \in Slot : at'[j] = at[j]
  BY <1>1, Threads, Moved DEF ThreadStates, MasterStates
<1>3. /\ client' \in [Slot -> Client]
      /\ clientConnection' \in [Slot -> 0 .. MaxSessions \cup {Local}]
      /\ \A j \in Slot : /\ client'[j].used = client[j].used
                         /\ client'[j].disabled => client[j].disabled \/ ~client[j].used
  <2>1. CASE Vacant = {}
    BY <1>1, <2>1 DEF ReserveClientId, TypeOK
  <2>2. CASE Vacant # {}
    <3> DEFINE i == Min(Vacant)  c == [client[i] EXCEPT !.disabled = TRUE]
    <3>1. /\ client' = [client EXCEPT ![i] = c]
          /\ clientConnection' = [clientConnection EXCEPT ![i] = Local]
      BY <2>2 DEF ReserveClientId
    <3>2. i \in Slot /\ ~client[i].used
      <4>1. Vacant \in SUBSET Slot
        BY DEF Vacant
      <4>2. i \in Vacant
        BY <2>2, <4>1, MinOfSlots
      <4> QED
        BY <4>2 DEF Vacant
    <3> HIDE DEF i
    <3>3. c \in Client /\ c.used = client[i].used
      <4>1. client[i] \in Client
        BY <1>1, <3>2 DEF TypeOK
      <4> QED
        BY <4>1 DEF Client
    <3> HIDE DEF c
    <3> QED
      BY <1>1, <3>1, <3>2, <3>3 DEF TypeOK
  <2> QED
    BY <2>1, <2>2
<1>4. TypeOK'
  BY <1>1, <1>2, <1>3 DEF TypeOK
<1>5. ThreadsInv'
  BY <1>1, <1>2 DEF ThreadsInv
<1>6. StationsInv'
  BY <1>1, <1>2 DEF StationsInv
<1>7. GameLockInv'
  BY <1>1 DEF GameLockInv
<1>8. VacancyInv'
  <2>1. at[master] # "alloc"
    BY <1>1, Threads DEF StationsInv
  <2> QED
    BY <1>2, <2>1 DEF VacancyInv
<1>9. SlaveKeepsItsSlot'
  BY <1>1, <1>2, <1>3 DEF IInv, SlaveKeepsItsSlot
<1>10. SlotsAreNotShared'
  BY <1>3 DEF IInv, SlotsAreNotShared
<1> QED
  BY <1>4, <1>5, <1>6, <1>7, <1>8, <1>9, <1>10 DEF IInv

LEMMA ReturnClientIdStep ==
  ASSUME IInv, NEW i \in Slot, ReturnClientId(i)
  PROVE  IInv'
<1> DEFINE c == [client[i] EXCEPT !.disabled = FALSE]
<1>1. /\ TypeOK /\ ThreadsInv /\ client[i] \in Client
      /\ client' = [client EXCEPT ![i] = c]
      /\ UNCHANGED <<num_clients, server_stopped, threadVars, lockVars, session, sessions>>
  BY DEF IInv, TypeOK, ReturnClientId
<1>2. c \in Client /\ c.used = client[i].used /\ ~c.disabled
  BY <1>1 DEF Client
<1> HIDE DEF c
<1>3. /\ client' \in [Slot -> Client]
      /\ \A j \in Slot : /\ client'[j].used = client[j].used
                         /\ client'[j].disabled => client[j].disabled
  BY <1>1, <1>2 DEF TypeOK
<1>4. TypeOK'
  <2>1. clientConnection' \in [Slot -> 0 .. MaxSessions \cup {Local}]
    BY <1>1, BoundAssumption DEF ReturnClientId, TypeOK
  <2> QED
    BY <1>1, <1>3, <2>1 DEF TypeOK, threadVars, lockVars
<1>5. ThreadsInv' /\ StationsInv' /\ GameLockInv'
  BY <1>1 DEF IInv, ThreadsInv, StationsInv, GameLockInv, threadVars, lockVars
<1>6. VacancyInv'
  BY <1>1, <1>3 DEF IInv, VacancyInv, ThreadsInv, threadVars
<1>7. SlaveKeepsItsSlot' /\ SlotsAreNotShared'
  BY <1>1, <1>3 DEF IInv, SlaveKeepsItsSlot, SlotsAreNotShared, threadVars, lockVars
<1> QED
  BY <1>4, <1>5, <1>6, <1>7 DEF IInv

LEMMA CountdownEndsStep ==
  ASSUME IInv, NEW i \in Slot, CountdownEnds(i)
  PROVE  IInv'
<1> DEFINE c == [client[i] EXCEPT !.droptime = "passed"]
<1>1. TypeOK /\ client[i] \in Client /\ client' = [client EXCEPT ![i] = c]
  BY DEF IInv, TypeOK, CountdownEnds
<1>2. c \in Client /\ c.used = client[i].used /\ c.disabled = client[i].disabled
  BY <1>1 DEF Client
<1>3. client' \in [Slot -> Client] /\ Kept
  BY <1>1, <1>2, SlotWritten
<1>4. TypeOK'
  BY <1>1, <1>3 DEF CountdownEnds, TypeOK, threadVars, lockVars, gameVars
<1> QED
  BY <1>3, <1>4, StillStep DEF CountdownEnds, threadVars, lockVars, gameVars

--------------------------------------------------------------------------------
(* The theorems.                                                                  *)

LEMMA InitInv ==
  Init => IInv
<1> SUFFICES ASSUME Init PROVE IInv
  OBVIOUS
<1>0. 0 \in Slot /\ 0 \in 0 .. MAX_CLIENTS /\ 0 \in 0 .. DiscPackets /\ 0 \in 0 .. MaxSessions
  BY SlotAssumption, BoundAssumption DEF Slot
<1>1. /\ \A i \in Slot : at[i] = "start"
      /\ at[master] = "idle" /\ at[user] = "idle" /\ at[bots] = "idle"
      /\ on[master] = 0 /\ \A i \in Slot : station_mutex[i] = None
      /\ \A i \in Slot : ~client[i].used /\ ~client[i].disabled
  BY Threads DEF Init
<1>2. TypeOK
  <2>1. client \in [Slot -> Client]
    BY <1>0 DEF Init, Client
  <2>2. at \in [Thread -> ThreadStates]
    BY DEF Init, ThreadStates, SlaveStates, MasterStates, WaitStates
  <2>3. num_clients = 0 /\ server_stopped \in BOOLEAN /\ mail = None
    BY Zenon DEF Init
  <2>4. on \in [{master, user} -> 0 .. MAX_CLIENTS]
    BY <1>0 DEF Init
  <2>5. /\ job \in [Slot -> Packet \cup {None}] /\ copy \in [Slot -> Int]
        /\ disc \in [Slot -> {"none", "run", "ended"}] /\ signalled \in [Slot -> BOOLEAN]
        /\ station_mutex \in [Slot -> Thread \cup {None}]
    BY DEF Init
  <2>6. /\ clientConnection \in [Slot -> 0 .. MaxSessions \cup {Local}]
        /\ session \in [Slot -> 0 .. MaxSessions] /\ sessions \in 0 .. MaxSessions
    BY <1>0 DEF Init
  <2>7. clientReservationMutex = None /\ threadLockMutex = None
    BY DEF Init
  <2> QED
    BY <2>1, <2>2, <2>3, <2>4, <2>5, <2>6, <2>7 DEF TypeOK
<1>3. ThreadsInv
  BY <1>0, <1>1 DEF ThreadsInv, SlaveStates, WaitStates, MasterStates, UserStates, DcStates
<1>4. StationsInv
  BY <1>1, Threads DEF Init, StationsInv, WaitStates, FreeStates
<1>5. GameLockInv /\ VacancyInv
  BY <1>1 DEF Init, GameLockInv, VacancyInv
<1>6. SlaveKeepsItsSlot /\ SlotsAreNotShared
  BY <1>1 DEF SlaveKeepsItsSlot, SlotsAreNotShared
<1> QED
  BY <1>2, <1>3, <1>4, <1>5, <1>6 DEF IInv

LEMMA DisconnectStep ==
  ASSUME IInv, NEW t \in Thread, NEW i \in Slot, t \in {i, master, user}, Disconnect(t, i)
  PROVE  IInv'
BY DisconnectCallbackStep, DisconnectFlagStep, DisconnectSpawnStep DEF Disconnect

LEMMA NextInv ==
  IInv /\ [Next]_vars => IInv'
<1> SUFFICES ASSUME IInv, [Next]_vars PROVE IInv'
  OBVIOUS
<1>1. ASSUME NEW i \in Slot, Slave(i) PROVE IInv'
  <2>1. CASE SlaveStarts(i) \/ SlaveWakes(i) \/ SlaveLoops(i)
    BY <2>1, SlaveStartsStep, SlaveWakesStep, SlaveLoopsStep
  <2>2. CASE ProcessHello(i) \/ ProcessBye(i) \/ ProcessData(i) \/ KnowConnected(i)
    BY <2>2, ProcessStep
  <2>3. CASE HelloCallback(i) \/ ByeCallback(i) \/ ConnectedCallback(i) \/ DataCallback(i)
    BY <2>3, CallbackStep
  <2>4. CASE Disconnect(i, i)
    BY <2>4, Threads, DisconnectStep
  <2>5. CASE JoinDisconnector(i, i) \/ DisconnectorJoined(i, i)
    BY <2>5, Threads, JoinStep
  <2>6. CASE FreeSlot(i, i) \/ CountFreed(i)
    BY <2>6, SlaveFreesStep, CountFreedStep
  <2> QED
    BY <1>1, <2>1, <2>2, <2>3, <2>4, <2>5, <2>6 DEF Slave
<1>2. CASE Think \/ Receive \/ StopMaster
  BY <1>2, MasterQuietStep DEF Think, Receive
<1>3. CASE LockToFree \/ Deliver \/ FindSlot
  BY <1>3, LockToFreeStep, DeliverStep, FindSlotStep
<1>4. ASSUME NEW i \in Slot,
             \/ AllocateSlot(i) \/ CannotAllocateSlot(i) \/ Disconnect(master, i)
             \/ JoinDisconnector(master, i) \/ DisconnectorJoined(master, i)
             \/ FreeSlot(master, i)
      PROVE  IInv'
  BY <1>4, Threads, AllocateStep, CannotAllocateStep, DisconnectStep, JoinStep, MasterFreesStep
<1>5. CASE MasterWork
  BY <1>2, <1>3, <1>4, <1>5 DEF MasterWork
<1>6. CASE UserWork \/ StopBegins
  <2>1. ASSUME NEW i \in Slot, Disconnect(user, i) PROVE IInv'
    BY <2>1, Threads, DisconnectStep
  <2> QED
    BY <1>6, <2>1, StopStep, StopThreadsStep DEF UserWork
<1>7. CASE Bots
  BY <1>7, BotsLockStep, ReserveClientIdStep, ReturnClientIdStep DEF Bots
<1>8. ASSUME NEW i \in Slot, SendDisconnect(i) \/ CountdownEnds(i) \/ Kick(i) \/ KickLocal(i)
      PROVE  IInv'
  BY <1>8, SendDisconnectStep, CountdownEndsStep, KickStep, KickLocalStep
<1>9. CASE UNCHANGED vars
  <2>1. TypeOK' /\ Kept
    BY <1>9 DEF IInv, TypeOK, Kept, vars, threadVars, lockVars, gameVars
  <2> QED
    BY <1>9, <2>1, StillStep DEF vars, threadVars, lockVars, gameVars
<1> QED
  BY <1>1, <1>2, <1>5, <1>6, <1>7, <1>8, <1>9 DEF Next

(* The inductive invariant: where each thread may be, who holds which mutex, and   *)
(* that a slot which the master is about to give away is vacant.                   *)
THEOREM Invariance ==
  Spec => []IInv
<1>1. Init => IInv
  BY InitInv
<1>2. IInv /\ [Next]_vars => IInv'
  BY NextInv
<1> QED
  BY <1>1, <1>2, PTL DEF Spec

(* The slave of a slot works on the session whose packet it has taken until it     *)
(* frees the slot itself (leetnet/server.cpp:1080), for any number of slots.       *)
THEOREM SlavesKeepTheirSlots ==
  Spec => []SlaveKeepsItsSlot
<1>1. IInv => SlaveKeepsItsSlot
  BY DEF IInv
<1> QED
  BY <1>1, Invariance, PTL

(* No slot is given to a network client and a bot.                                *)
THEOREM SlotsAreNeverShared ==
  Spec => []SlotsAreNotShared
<1>1. IInv => SlotsAreNotShared
  BY DEF IInv
<1> QED
  BY <1>1, Invariance, PTL

(* Two things break the circles that the code could be feared to have.  Who keeps  *)
(* the game locked does not wait, but for the bot thread; and when it waits for    *)
(* the master to find a slot, the master waits at most for the slave of a vacant   *)
(* slot, which is not in a callback and waits for nobody.                          *)
LEMMA NobodyWaitsInCircles ==
  IInv => NoCircularWait
<1> SUFFICES ASSUME IInv, NEW S \in SUBSET Thread, S # {},
                    \A t \in S : \E h \in S : WaitsFor(t, h)
             PROVE  FALSE
  BY DEF NoCircularWait
<1>0. /\ TypeOK /\ ThreadsInv /\ StationsInv /\ GameLockInv /\ VacancyInv
      /\ SlaveKeepsItsSlot
      /\ \A t \in S : t \in Slot \/ t = master \/ t = user \/ t = bots
  BY DEF IInv, Thread
(* Who disconnects a player with the game locked waits for nothing.               *)
<1>1. ASSUME NEW t \in S, NEW h \in S, WaitsFor(t, h),
             at[t] \in DcStates \cup FreeStates,
             \/ t \in Slot
             \/ t = user /\ at[t] \in DcStates
      PROVE  FALSE
  BY <1>1, Threads DEF WaitsFor, DcStates, FreeStates
(* A slave that holds the mutex of a vacant slot waits for nobody.                *)
<1>2. ASSUME NEW i \in Slot, i \in S, at[i] \notin WaitStates, ~client[i].used
      PROVE  FALSE
  <2>1. at[i] \in {"loop", "count"}
    BY <1>0, <1>2 DEF SlaveKeepsItsSlot, WaitStates
  <2> QED
    BY <1>2, <2>1, Threads DEF WaitsFor
(* The bot thread does not wait for clientReservationMutex: it would for the      *)
(* master, which would for the slave of a vacant slot.                            *)
<1>3. ASSUME bots \in S PROVE at[bots] # "reserve"
  <2> SUFFICES ASSUME at[bots] = "reserve" PROVE FALSE
    OBVIOUS
  <2>1. PICK h \in S : WaitsFor(bots, h)
    BY <1>3
  <2>2. h = clientReservationMutex
    BY <2>1, Threads DEF WaitsFor
  <2>3. h = master /\ at[master] = "alloc"
    BY <1>0, <2>2, Threads DEF TypeOK, StationsInv
  <2>4. PICK i \in S : WaitsFor(master, i)
    BY <2>3
  <2>5. i = station_mutex[on[master]]
    BY <2>3, <2>4, Threads DEF WaitsFor
  <2>6. i = on[master] /\ i \in Slot /\ at[i] \notin WaitStates
    BY <1>0, <2>3, <2>5, Threads DEF ThreadsInv, StationsInv, FreeStates
  <2>7. ~client[i].used
    BY <1>0, <2>3, <2>6 DEF VacancyInv
  <2> QED
    BY <1>2, <2>6, <2>7
(* So nobody waits for the lock of the game.                                      *)
<1>4. threadLockMutex \notin S
  <2> SUFFICES ASSUME threadLockMutex \in S PROVE FALSE
    OBVIOUS
  <2>1. PICK h \in S : WaitsFor(threadLockMutex, h)
    OBVIOUS
  <2>2. threadLockMutex # None
    BY <1>0, Threads
  <2>3. CASE threadLockMutex \in Slot \cup {user} /\ at[threadLockMutex] \in DcStates
    BY <1>1, <2>1, <2>3
  <2>4. CASE threadLockMutex = bots /\ at[bots] = "reserve"
    BY <1>3, <2>4
  <2> QED
    BY <1>0, <2>2, <2>3, <2>4 DEF GameLockInv
<1>5. bots \notin S
  <2> SUFFICES ASSUME bots \in S PROVE FALSE
    OBVIOUS
  <2>1. PICK h \in S : WaitsFor(bots, h)
    OBVIOUS
  <2>2. h = threadLockMutex
    BY <1>3, <2>1, Threads DEF WaitsFor
  <2> QED
    BY <1>4, <2>2
(* Slaves wait for the master to free their slots, which waits for nothing then.  *)
<1>6. ASSUME NEW i \in Slot, master \in S, station_mutex[i] = master PROVE FALSE
  <2>1. PICK h \in S : WaitsFor(master, h)
    BY <1>6
  <2>2. at[master] \in FreeStates
    BY <1>0, <1>6 DEF StationsInv
  <2> QED
    BY <2>1, <2>2, Threads DEF WaitsFor, FreeStates
<1>7. ASSUME NEW i \in Slot PROVE i \notin S
  <2> SUFFICES ASSUME i \in S PROVE FALSE
    OBVIOUS
  <2>1. PICK h \in S : WaitsFor(i, h)
    OBVIOUS
  <2>2. CASE h = threadLockMutex
    BY <1>4, <2>2
  <2>3. CASE at[i] \in WaitStates /\ h = station_mutex[i]
    <3>1. h = master
      BY <1>0, <2>3, Threads DEF StationsInv
    <3> QED
      BY <1>6, <2>3, <3>1
  <2> QED
    BY <2>1, <2>2, <2>3, Threads DEF WaitsFor, WaitStates
<1>8. ASSUME NEW i \in Slot PROVE station_mutex[i] \notin S
  BY <1>0, <1>6, <1>7, Threads DEF StationsInv
<1>9. master \notin S
  <2> SUFFICES ASSUME master \in S PROVE FALSE
    OBVIOUS
  <2>1. PICK h \in S : WaitsFor(master, h)
    OBVIOUS
  <2>2. h # station_mutex[on[master]] /\ h # threadLockMutex
    BY <1>0, <1>4, <1>8 DEF ThreadsInv
  <2>3. at[master] = "reserve" /\ h = clientReservationMutex
    BY <2>1, <2>2, Threads DEF WaitsFor
  <2> QED
    BY <1>0, <2>3, Threads DEF TypeOK, StationsInv
<1>10. user \notin S
  <2> SUFFICES ASSUME user \in S PROVE FALSE
    OBVIOUS
  <2>1. PICK h \in S : WaitsFor(user, h)
    OBVIOUS
  <2>2. at[user] = "slap" => h # station_mutex[on[user]]
    BY <1>0, <1>8 DEF ThreadsInv
  <2> QED
    BY <1>4, <1>7, <1>9, <2>1, <2>2, Threads DEF WaitsFor
<1> QED
  BY <1>0, <1>5, <1>7, <1>9, <1>10

(* The threads of leetnet/server.cpp never wait for each other in a circle, for any *)
(* number of slots.                                                                 *)
THEOREM ThreadsNeverWaitInCircles ==
  Spec => []NoCircularWait
<1> QED
  BY Invariance, NobodyWaitsInCircles, PTL

--------------------------------------------------------------------------------
(* The players: where the server is not stopped and no handshake times out, they  *)
(* match the slots.                                                               *)
(* What the invariants say of where the threads are and of the slots.             *)
PlayersKnown == IInv /\ BotsInv /\ Quiet /\ PlayersInv

LEMMA Known ==
  ASSUME PlayersKnown
  PROVE  /\ client \in [Slot -> Client]
         /\ clientConnection \in [Slot -> 0 .. MaxSessions \cup {Local}]
         /\ session \in [Slot -> 0 .. MaxSessions] /\ Local \notin Nat
         /\ on[master] \in Slot /\ (at[user] \in DcStates => on[user] \in Slot)
         /\ \A i \in Slot : at[i] \in SlaveStates
         /\ at[master] \in MasterStates /\ at[user] \in {"idle"} \cup DcStates
         /\ at \in [Thread -> ThreadStates] /\ on \in [{master, user} -> 0 .. MAX_CLIENTS]
         /\ StationsInv /\ GameLockInv /\ VacancyInv /\ SlaveKeepsItsSlot /\ SlotsAreNotShared
         /\ \A i \in Slot : SlotInv(i)
         /\ Disconnects(master) /\ Disconnects(user) /\ FreesInv /\ KickInv
BY ValueAssumption DEF PlayersKnown, IInv, TypeOK, ThreadsInv, PlayersInv, KickInv

--------------------------------------------------------------------------------
(* A step that changes nothing of the slots but what their packets and countdowns *)
(* are, moves slaves and the master to where the invariant says nothing more, and *)
(* leaves the game locked to whoever keeps it locked.                             *)

SameStatus(c, d) ==
  /\ c.used = d.used /\ c.disabled = d.disabled
  /\ c.connected_knows = d.connected_knows
  /\ c.told_disconnect = d.told_disconnect
  /\ c.server_disconnected = d.server_disconnected

ClientKept(j) == SameStatus(client'[j], client[j])

SlotKept(j) ==
  /\ ClientKept(j)
  /\ clientConnection'[j] = clientConnection[j] /\ session'[j] = session[j]

SlaveCalm(j) ==
  \/ at'[j] = at[j]
  \/ at[j] # "bye" /\ at'[j] \notin {"hello", "know", "connect"} \cup FreeStates \cup DcStates
  \/ at[j] \in {"hello", "know"} \cup FreeStates /\ at'[j] \in FreeStates

MasterCalm ==
  \/ at'[master] = at[master] /\ on'[master] = on[master]
  \/ at'[master] \notin {"lock", "dc_callback", "dc_flag"} \cup FreeStates
  \/ /\ at[master] \in {"lock"} \cup FreeStates /\ at'[master] \in FreeStates
     /\ on'[master] = on[master]

UserCalm ==
  \/ at'[user] = at[user] /\ on'[user] = on[user]
  \/ at'[user] = "idle"

GameLockKept == \A t \in Slot \cup {user} :
  threadLockMutex = t /\ at'[t] \in DcStates => threadLockMutex' = t

LEMMA CalmStep ==
  ASSUME PlayersKnown, \A j \in Slot : SlotKept(j) /\ SlaveCalm(j),
         MasterCalm, UserCalm, GameLockKept
  PROVE  PlayersInv'
<1>0. /\ \A i \in Slot : SlotInv(i)
      /\ Disconnects(master) /\ Disconnects(user) /\ FreesInv /\ KickInv
      /\ on[master] \in Slot /\ (at[user] \in DcStates => on[user] \in Slot)
  BY Known
<1>1. ASSUME NEW j \in Slot PROVE SlotInv(j)'
  <2>1. SlotInv(j) /\ SlotKept(j) /\ SlaveCalm(j)
    BY <1>0
  <2>2. at'[j] \in DcStates => at'[j] = at[j]
    BY <2>1 DEF SlaveCalm, DcStates, FreeStates
  <2>3. threadLockMutex = j /\ at'[j] \in DcStates => threadLockMutex' = j
    BY DEF GameLockKept
  <2>4. at[j] = "bye" => at'[j] = "bye"
    BY <2>1 DEF SlaveCalm, FreeStates
  <2>5. at'[j] = "connect" => at[j] = "connect"
    BY <2>1 DEF SlaveCalm, FreeStates
  <2>6. at'[j] \in {"hello", "know"} \cup FreeStates => at[j] \in {"hello", "know"} \cup FreeStates
    BY <2>1 DEF SlaveCalm
  <2>7. clientConnection'[j] = Local => client'[j].disabled
    BY <2>1 DEF SlotInv, SlotKept, ClientKept, SameStatus
  <2>8. clientConnection'[j] \notin {0, Local} =>
          /\ client'[j].used /\ client'[j].connected_knows /\ clientConnection'[j] = session'[j]
          /\ ~client'[j].server_disconnected /\ (client'[j].told_disconnect => at'[j] = "bye")
    BY <2>1, <2>4 DEF SlotInv, SlotKept, ClientKept, SameStatus
  <2>9. at'[j] = "connect" =>
          clientConnection'[j] = 0 /\ client'[j].connected_knows /\ ~Disconnecting(j)'
    BY <2>1, <2>5 DEF SlotInv, SlotKept, ClientKept, SameStatus, Disconnecting
  <2>10. at'[j] \in {"hello", "know"} \cup FreeStates => ~client'[j].connected_knows /\ ~Disconnecting(j)'
    BY <2>1, <2>6 DEF SlotInv, SlotKept, ClientKept, SameStatus, Disconnecting
  <2>11. /\ at'[j] \in DcStates => threadLockMutex' = j /\ client'[j].connected_knows
         /\ at'[j] = "dc_flag" => clientConnection'[j] = 0
    BY <2>1, <2>2, <2>3 DEF SlotInv, SlotKept, ClientKept, SameStatus, DcStates
  <2> QED
    BY <2>7, <2>8, <2>9, <2>10, <2>11, Zenon DEF SlotInv
<1>2. Disconnects(master)' /\ FreesInv'
  <2>1. at'[master] \in {"dc_callback", "dc_flag"} =>
          at'[master] = at[master] /\ on'[master] = on[master]
    BY DEF MasterCalm, FreeStates
  <2>2. at'[on[master]] = "connect" => at[on[master]] = "connect"
    BY <1>0 DEF SlaveCalm, FreeStates
  <2>3. SlotKept(on[master])
    BY <1>0
  <2>4. Disconnects(master)'
    BY <1>0, <2>1, <2>2, <2>3 DEF Disconnects, SlotKept, ClientKept, SameStatus
  <2>5. at'[master] \in {"lock"} \cup FreeStates =>
          at[master] \in {"lock"} \cup FreeStates /\ on'[master] = on[master]
    BY DEF MasterCalm
  <2> QED
    BY <1>0, <2>3, <2>4, <2>5 DEF FreesInv, SlotKept, ClientKept, SameStatus, Disconnecting
<1>3. Disconnects(user)' /\ KickInv'
  <2>1. at'[user] \in DcStates => at'[user] = at[user] /\ on'[user] = on[user]
    BY DEF UserCalm, DcStates
  <2>2. at[user] \in DcStates =>
          /\ at'[on[user]] = "connect" => at[on[user]] = "connect"
          /\ at[on[user]] = "bye" => at'[on[user]] = "bye"
          /\ SlotKept(on[user])
    BY <1>0 DEF SlaveCalm, FreeStates
  <2>3. Disconnects(user)'
    BY <1>0, <2>1, <2>2 DEF Disconnects, SlotKept, ClientKept, SameStatus, DcStates
  <2>4. at'[user] \in {"idle"} \cup DcStates
    BY <1>0 DEF KickInv, UserCalm
  <2>5. at'[master] = "dc_flag" => at[master] = "dc_flag" /\ on'[master] = on[master]
    BY DEF MasterCalm, FreeStates
  <2>6. at'[user] \in DcStates => threadLockMutex' = user
    BY <1>0, <2>1 DEF KickInv, GameLockKept
  <2>7. KickInv'
    BY <1>0, <2>1, <2>2, <2>4, <2>5, <2>6 DEF KickInv, SlotKept, ClientKept, SameStatus, DcStates
  <2> QED
    BY <2>3, <2>7
<1> QED
  BY <1>1, <1>2, <1>3 DEF PlayersInv

(* A slave moves to pc.                                                           *)
LEMMA SlaveCalmStep ==
  ASSUME PlayersKnown, NEW i \in Slot, NEW pc \in ThreadStates, Goto(i, pc),
         \/ at[i] # "bye" /\ pc \notin {"hello", "know", "connect"} \cup FreeStates \cup DcStates
         \/ at[i] \in {"hello", "know"} \cup FreeStates /\ pc \in FreeStates,
         \A j \in Slot : ClientKept(j),
         \/ threadLockMutex' = threadLockMutex
         \/ threadLockMutex = i /\ pc \notin DcStates,
         UNCHANGED <<on, clientConnection, session>>
  PROVE  PlayersInv'
<1>1. /\ at'[i] = pc /\ at'[master] = at[master] /\ at'[user] = at[user]
      /\ \A j \in Slot : j # i => at'[j] = at[j]
  BY Moved, Threads DEF PlayersKnown, IInv
<1>2. \A j \in Slot : SlotKept(j) /\ SlaveCalm(j)
  BY <1>1 DEF SlotKept, SlaveCalm
<1>3. MasterCalm /\ UserCalm
  BY <1>1 DEF MasterCalm, UserCalm
<1>4. GameLockKept
  BY <1>1 DEF GameLockKept
<1> QED
  BY <1>2, <1>3, <1>4, CalmStep

(* The master moves to pc.                                                        *)
LEMMA MasterCalmStep ==
  ASSUME PlayersKnown, NEW pc \in MasterStates, Goto(master, pc),
         \/ pc \notin {"lock", "dc_callback", "dc_flag"} \cup FreeStates
         \/ at[master] \in {"lock"} \cup FreeStates /\ pc \in FreeStates /\ on' = on,
         on'[user] = on[user], \A j \in Slot : ClientKept(j),
         \/ threadLockMutex' = threadLockMutex
         \/ threadLockMutex = master,
         UNCHANGED <<clientConnection, session>>
  PROVE  PlayersInv'
<1>1. /\ at'[master] = pc /\ at'[user] = at[user] /\ \A j \in Slot : at'[j] = at[j]
  BY Moved, Threads DEF PlayersKnown, IInv, ThreadStates
<1>2. \A j \in Slot : SlotKept(j) /\ SlaveCalm(j)
  BY <1>1 DEF SlotKept, SlaveCalm
<1>3. MasterCalm /\ UserCalm
  BY <1>1 DEF MasterCalm, UserCalm
<1>4. GameLockKept
  BY Threads DEF GameLockKept
<1> QED
  BY <1>2, <1>3, <1>4, CalmStep

(* Neither moves.                                                                 *)
LEMMA OthersCalmStep ==
  ASSUME PlayersKnown, at'[master] = at[master], at'[user] = at[user],
         \A j \in Slot : at'[j] = at[j] /\ ClientKept(j),
         \/ threadLockMutex' = threadLockMutex
         \/ threadLockMutex \in {None, bots},
         UNCHANGED <<on, clientConnection, session>>
  PROVE  PlayersInv'
<1>2. \A j \in Slot : SlotKept(j) /\ SlaveCalm(j)
  BY DEF SlotKept, SlaveCalm
<1>3. MasterCalm /\ UserCalm
  BY DEF MasterCalm, UserCalm
<1>4. GameLockKept
  BY Threads DEF GameLockKept
<1> QED
  BY <1>2, <1>3, <1>4, CalmStep

LEMMA ClientsKept ==
  ASSUME UNCHANGED client
  PROVE  \A j \in Slot : ClientKept(j)
BY DEF ClientKept, SameStatus

(* Other fields of a slot are written.                                            *)
LEMMA FieldsKept ==
  ASSUME PlayersKnown, NEW i \in Slot, NEW c, client' = [client EXCEPT ![i] = c],
         SameStatus(c, client[i])
  PROVE  \A j \in Slot : ClientKept(j)
BY Known DEF ClientKept, SameStatus

--------------------------------------------------------------------------------
(* Calm steps.                                                                    *)

LEMMA SlaveTurnsKeepPlayers ==
  ASSUME PlayersKnown, NEW i \in Slot, SlaveStarts(i) \/ SlaveWakes(i) \/ SlaveLoops(i)
  PROVE  PlayersInv'
<1> DEFINE c == [client[i] EXCEPT !.packet = None]
<1>0. client[i] \in Client
  BY Known
<1>1. PICK pc \in WaitStates \cup {"work", "loop"} : Goto(i, pc) /\ at[i] \in WaitStates \cup {"loop"}
  BY DEF SlaveStarts, SlaveWakes, SlaveLoops, WaitStates
<1>2. \A j \in Slot : ClientKept(j)
  <2>1. CASE UNCHANGED client
    BY <2>1, ClientsKept
  <2>2. CASE client' = [client EXCEPT ![i] = c]
    <3>1. SameStatus(c, client[i])
      BY <1>0 DEF Client, SameStatus
    <3> QED
      BY <2>2, <3>1, FieldsKept
  <2> QED
    BY <2>1, <2>2 DEF SlaveStarts, SlaveWakes, SlaveLoops
<1>3. UNCHANGED <<on, clientConnection, session, threadLockMutex>>
  BY DEF SlaveStarts, SlaveWakes, SlaveLoops, lockVars, gameVars
<1> QED
  BY <1>1, <1>2, <1>3, SlaveCalmStep
  DEF ThreadStates, SlaveStates, WaitStates, FreeStates, DcStates

(* The packets that change nothing of the player.                                 *)
LEMMA QuietPacketsKeepPlayers ==
  ASSUME PlayersKnown, NEW i \in Slot, at[i] \in {"work", "data", "count"},
         NEW pc \in {"loop", "data"},
         Goto(i, pc), \A j \in Slot : ClientKept(j),
         UNCHANGED <<on, clientConnection, session, threadLockMutex>>
  PROVE  PlayersInv'
BY SlaveCalmStep DEF ThreadStates, SlaveStates, FreeStates, DcStates

(* A rejected client's slot is freed, an accepted one is told.                    *)
LEMMA HelloCallbackKeepsPlayers ==
  ASSUME PlayersKnown, NEW i \in Slot, HelloCallback(i)
  PROVE  PlayersInv'
<1> DEFINE c == [client[i] EXCEPT !.connected = TRUE]
<1>0. client[i] \in Client
  BY Known
<1>1. PICK pc \in {"loop", "join"} : Goto(i, pc) /\ at[i] = "hello"
  BY DEF HelloCallback
<1>2. \A j \in Slot : ClientKept(j)
  <2>1. CASE UNCHANGED client
    BY <2>1, ClientsKept
  <2>2. CASE client' = [client EXCEPT ![i] = c]
    <3>1. SameStatus(c, client[i])
      BY <1>0 DEF Client, SameStatus
    <3> QED
      BY <2>2, <3>1, FieldsKept
  <2> QED
    BY <2>1, <2>2 DEF HelloCallback
<1>3. UNCHANGED <<on, clientConnection, session, threadLockMutex>>
  BY DEF HelloCallback, lockVars, gameVars
<1> QED
  BY <1>1, <1>2, <1>3, SlaveCalmStep DEF ThreadStates, SlaveStates, FreeStates, DcStates

LEMMA JoinKeepsPlayers ==
  ASSUME PlayersKnown, NEW t \in Thread, NEW i \in Slot, t \in {i, master},
         JoinDisconnector(t, i) \/ DisconnectorJoined(t, i)
  PROVE  PlayersInv'
<1> DEFINE c == [client[i] EXCEPT !.discleft = 0]  d == [client[i] EXCEPT !.discthread = FALSE]
<1>0. client[i] \in Client
  BY Known
<1>1. PICK pc \in FreeStates : Goto(t, pc) /\ at[t] \in FreeStates
  BY DEF JoinDisconnector, DisconnectorJoined, FreeStates
<1>2. \A j \in Slot : ClientKept(j)
  <2>1. CASE UNCHANGED client
    BY <2>1, ClientsKept
  <2>2. CASE client' = [client EXCEPT ![i] = c]
    <3>1. SameStatus(c, client[i])
      BY <1>0 DEF Client, SameStatus
    <3> QED
      BY <2>2, <3>1, FieldsKept
  <2>3. CASE client' = [client EXCEPT ![i] = d]
    <3>1. SameStatus(d, client[i])
      BY <1>0 DEF Client, SameStatus
    <3> QED
      BY <2>3, <3>1, FieldsKept
  <2> QED
    BY <2>1, <2>2, <2>3 DEF JoinDisconnector, DisconnectorJoined
<1>3. UNCHANGED <<on, clientConnection, session, threadLockMutex>>
  BY DEF JoinDisconnector, DisconnectorJoined, lockVars, gameVars
<1>4. CASE t = i
  BY <1>1, <1>2, <1>3, <1>4, SlaveCalmStep DEF ThreadStates, SlaveStates
<1>5. CASE t = master
  BY <1>1, <1>2, <1>3, <1>5, MasterCalmStep DEF MasterStates
<1> QED
  BY <1>4, <1>5

(* The countdown starts: the client is marked, the game is unlocked.              *)
LEMMA SpawnKeepsPlayers ==
  ASSUME PlayersKnown, NEW t \in Thread, NEW i \in Slot, t \in {i, master, user},
         DisconnectSpawn(t, i)
  PROVE  PlayersInv'
<1> DEFINE c == IF client[i].connected_knows
                THEN [client[i] EXCEPT !.droptime = "running", !.discleft = DiscPackets,
                                       !.discthread = TRUE]
                ELSE [client[i] EXCEPT !.droptime = "running"]
<1>0. client[i] \in Client /\ at[t] = "dc_spawn" /\ KickInv
  BY Known DEF DisconnectSpawn
<1>1. client' = [client EXCEPT ![i] = c]
  BY DEF DisconnectSpawn
<1>2. SameStatus(c, client[i])
  BY <1>0 DEF Client, SameStatus
<1>3. \A j \in Slot : ClientKept(j)
  BY <1>1, <1>2, FieldsKept
<1> HIDE DEF c
<1>4. UNCHANGED <<on, clientConnection, session>>
  BY DEF DisconnectSpawn, gameVars
<1>5. threadLockMutex' = threadLockMutex \/ threadLockMutex = t
  BY DEF DisconnectSpawn
<1>6. /\ t = i => Goto(t, "loop")
      /\ t = master => Goto(t, "idle")
      /\ t = user => Goto(t, IF threadLockMutex = user THEN "idle" ELSE "stop_next")
  BY Threads DEF DisconnectSpawn
<1>7. CASE t = i
  BY <1>0, <1>3, <1>4, <1>5, <1>6, <1>7, SlaveCalmStep
  DEF ThreadStates, SlaveStates, DcStates, FreeStates
<1>8. CASE t = master
  BY <1>3, <1>4, <1>5, <1>6, <1>8, MasterCalmStep DEF MasterStates, FreeStates
<1>9. CASE t = user
  <2>1. threadLockMutex = user /\ Goto(user, "idle")
    BY <1>0, <1>6, <1>9 DEF KickInv, DcStates
  <2>2. /\ at'[user] = "idle" /\ at'[master] = at[master] /\ \A j \in Slot : at'[j] = at[j]
    BY <2>1, Moved, Threads DEF PlayersKnown, IInv, ThreadStates, UserStates
  <2>3. \A j \in Slot : SlotKept(j) /\ SlaveCalm(j)
    BY <1>3, <1>4, <2>2 DEF SlotKept, SlaveCalm
  <2>4. MasterCalm /\ UserCalm /\ GameLockKept
    BY <1>4, <2>1, <2>2, Threads DEF MasterCalm, UserCalm, GameLockKept, DcStates
  <2> QED
    BY <2>3, <2>4, CalmStep
<1> QED
  BY <1>7, <1>8, <1>9
(* What the master does before it frees, disconnects or takes a slot.             *)
LEMMA MasterTurnsKeepPlayers ==
  ASSUME PlayersKnown,
         \/ LockToFree \/ StopMaster \/ Deliver \/ FindSlot
         \/ \E a \in Address : ReceiveNew(a) \/ \E p \in Packet, i \in Slot : ReceiveKnown(a, p, i)
  PROVE  PlayersInv'
<1> DEFINE c == [client[on[master]] EXCEPT !.packet = mail.packet]
<1>0. on[master] \in Slot /\ client[on[master]] \in Client /\ on \in [{master, user} -> 0 .. MAX_CLIENTS]
  BY Known
<1>1. \A j \in Slot : ClientKept(j)
  <2>1. CASE UNCHANGED client
    BY <2>1, ClientsKept
  <2>2. CASE client' = [client EXCEPT ![on[master]] = c]
    <3>1. SameStatus(c, client[on[master]])
      BY <1>0 DEF Client, SameStatus
    <3> QED
      BY <1>0, <2>2, <3>1, FieldsKept
  <2> QED
    BY <2>1, <2>2 DEF LockToFree, StopMaster, Deliver, FindSlot, ReceiveNew, ReceiveKnown
<1>2. UNCHANGED <<clientConnection, session, threadLockMutex>>
  BY DEF LockToFree, StopMaster, Deliver, FindSlot, ReceiveNew, ReceiveKnown, lockVars, gameVars
<1>3. on'[user] = on[user]
  BY <1>0, Threads DEF LockToFree, StopMaster, Deliver, FindSlot, ReceiveNew, ReceiveKnown
<1>4. \/ at[master] = "lock" /\ Goto(master, "join") /\ on' = on
      \/ \E pc \in {"done", "deliver", "reserve", "alloc", "idle"} : Goto(master, pc)
  BY DEF LockToFree, StopMaster, Deliver, FindSlot, ReceiveNew, ReceiveKnown
<1> QED
  BY <1>1, <1>2, <1>3, <1>4, MasterCalmStep DEF MasterStates, FreeStates

(* Disconnectors, countdowns, and the bot thread before it looks for a slot.      *)
LEMMA OthersKeepPlayers ==
  ASSUME PlayersKnown,
         BotsLock \/ \E i \in Slot : SendDisconnect(i) \/ CountdownEnds(i)
  PROVE  PlayersInv'
<1>1. CASE BotsLock
  <2>1. /\ at'[master] = at[master] /\ at'[user] = at[user] /\ \A j \in Slot : at'[j] = at[j]
    BY <1>1, Moved, Threads DEF BotsLock, PlayersKnown, IInv, ThreadStates, MasterStates
  <2> QED
    BY <1>1, <2>1, ClientsKept, OthersCalmStep DEF BotsLock, Free, gameVars
<1>2. ASSUME NEW i \in Slot, SendDisconnect(i) \/ CountdownEnds(i) PROVE PlayersInv'
  <2> DEFINE c == [client[i] EXCEPT !.discleft = @ - 1]  d == [client[i] EXCEPT !.droptime = "passed"]
  <2>0. client[i] \in Client
    BY Known
  <2>1. \A j \in Slot : ClientKept(j)
    <3>1. CASE UNCHANGED client
      BY <3>1, ClientsKept
    <3>2. CASE client' = [client EXCEPT ![i] = c]
      <4>1. SameStatus(c, client[i])
        BY <2>0 DEF Client, SameStatus
      <4> QED
        BY <3>2, <4>1, FieldsKept
    <3>3. CASE client' = [client EXCEPT ![i] = d]
      <4>1. SameStatus(d, client[i])
        BY <2>0 DEF Client, SameStatus
      <4> QED
        BY <3>3, <4>1, FieldsKept
    <3> QED
      BY <1>2, <3>1, <3>2, <3>3 DEF SendDisconnect, CountdownEnds
  <2> QED
    BY <1>2, <2>1, OthersCalmStep
    DEF SendDisconnect, CountdownEnds, threadVars, lockVars, gameVars
<1> QED
  BY <1>1, <1>2

--------------------------------------------------------------------------------
(* Steps that change a player or what keeps it.                                   *)

LEMMA OtherSlots ==
  ASSUME PlayersKnown, NEW j \in Slot, SlotKept(j), at'[j] = at[j],
         threadLockMutex = j /\ at[j] \in DcStates => threadLockMutex' = j
  PROVE  SlotInv(j)'
<1>1. SlotInv(j)
  BY Known
<1>2. clientConnection'[j] = Local => client'[j].disabled
  BY <1>1 DEF SlotInv, SlotKept, ClientKept, SameStatus
<1>3. clientConnection'[j] \notin {0, Local} =>
        /\ client'[j].used /\ client'[j].connected_knows /\ clientConnection'[j] = session'[j]
        /\ ~client'[j].server_disconnected /\ (client'[j].told_disconnect => at'[j] = "bye")
  BY <1>1 DEF SlotInv, SlotKept, ClientKept, SameStatus
<1>4. at'[j] = "connect" =>
        clientConnection'[j] = 0 /\ client'[j].connected_knows /\ ~Disconnecting(j)'
  BY <1>1 DEF SlotInv, SlotKept, ClientKept, SameStatus, Disconnecting
<1>5. at'[j] \in {"hello", "know"} \cup FreeStates => ~client'[j].connected_knows /\ ~Disconnecting(j)'
  BY <1>1 DEF SlotInv, SlotKept, ClientKept, SameStatus, Disconnecting
<1>6. /\ at'[j] \in DcStates => threadLockMutex' = j /\ client'[j].connected_knows
      /\ at'[j] = "dc_flag" => clientConnection'[j] = 0
  BY <1>1 DEF SlotInv, SlotKept, ClientKept, SameStatus, DcStates
<1> QED
  BY <1>2, <1>3, <1>4, <1>5, <1>6, Zenon DEF SlotInv

(* Who keeps the game locked and disconnects is alone in that.                    *)
LEMMA OneDisconnects ==
  ASSUME PlayersKnown, NEW i \in Slot
  PROVE  ~(at[i] \in DcStates /\ at[user] \in DcStates)
BY Known, Threads DEF SlotInv, KickInv

(* The slot of a thread that disconnects its client.                              *)
LEMMA DisconnectedSlot ==
  ASSUME PlayersKnown, NEW t \in Thread, NEW i \in Slot, t \in {i, master, user}, i = SlotOf(t),
         at[t] \in {"dc_callback", "dc_flag"}
  PROVE  /\ client[i].used /\ client[i].connected_knows /\ at[i] # "connect"
         /\ at[t] = "dc_flag" => clientConnection[i] = 0
         /\ t # i => i = on[t]
<1>1. CASE t = i
  <2>1. client[i].used
    BY <1>1, Known DEF SlaveKeepsItsSlot
  <2> QED
    BY <1>1, <2>1, Known DEF SlotInv, DcStates
<1>2. CASE t \in {master, user}
  <2>1. i = on[t] /\ Disconnects(t)
    BY <1>2, Known, Threads DEF SlotOf
  <2> QED
    BY <2>1 DEF Disconnects
<1> QED
  BY <1>1, <1>2

(* The player leaves the game.                                                    *)
LEMMA CallbackKeepsPlayers ==
  ASSUME PlayersKnown, NEW t \in Thread, NEW i \in Slot, t \in {i, master, user},
         DisconnectCallback(t, i)
  PROVE  PlayersInv'
<1>0. /\ at[t] = "dc_callback" /\ i = SlotOf(t) /\ Goto(t, "dc_flag")
      /\ UNCHANGED <<client, on, threadLockMutex, session>>
  BY DEF DisconnectCallback, lockVars
<1>1. client[i].used /\ client[i].connected_knows /\ at[i] # "connect" /\ (t # i => i = on[t])
  BY <1>0, DisconnectedSlot
<1>2. /\ t = master => threadLockMutex = None
      /\ clientConnection'[i] = 0
      /\ \A j \in Slot : j # i => clientConnection'[j] = clientConnection[j]
  BY <1>1, Known DEF DisconnectCallback, Free
<1>3. at'[t] = "dc_flag" /\ \A u \in Thread : u # t => at'[u] = at[u]
  BY <1>0, Moved DEF PlayersKnown, IInv, ThreadStates, MasterStates, DcStates
<1>4. ASSUME NEW j \in Slot PROVE SlotInv(j)'
  <2>1. CASE j # i
    <3>1. j # t /\ at'[j] = at[j]
      BY <1>3, <2>1, Threads
    <3> QED
      BY <1>0, <1>2, <2>1, <3>1, OtherSlots DEF SlotKept, ClientKept, SameStatus
  <2>2. CASE j = i
    <3>1. SlotInv(i)
      BY Known
    <3>2. at'[i] = at[i] \/ (t = i /\ at[i] \in DcStates /\ at'[i] = "dc_flag")
      BY <1>0, <1>3, Threads DEF DcStates
    <3>3. Local # 0
      BY Known
    <3> QED
      BY <1>0, <1>1, <1>2, <2>2, <3>1, <3>2, <3>3 DEF SlotInv, Disconnecting, DcStates, FreeStates
  <2> QED
    BY <2>1, <2>2
<1>5. on[master] \in Slot /\ (at[user] \in DcStates => on[user] \in Slot)
  BY Known
<1>6. ASSUME NEW u \in {master, user}
      PROVE  Disconnects(u)'
  <2> SUFFICES ASSUME at'[u] \in {"dc_callback", "dc_flag"}
               PROVE  /\ client[on[u]].used /\ client[on[u]].connected_knows /\ at'[on[u]] # "connect"
                      /\ at'[u] = "dc_flag" => clientConnection'[on[u]] = 0
    BY <1>0 DEF Disconnects
  <2>1. CASE on[u] = i
    BY <1>1, <1>2, <1>3, <2>1, Threads
  <2>2. CASE on[u] # i
    <3>1. u # t /\ at'[u] = at[u]
      BY <1>1, <1>3, <2>2, Threads
    <3>2. Disconnects(u) /\ on[u] \in Slot
      BY <1>5, <3>1, Known DEF DcStates
    <3>3. at'[on[u]] # "connect"
      BY <1>3, <3>1, <3>2, Threads DEF Disconnects
    <3> QED
      BY <1>2, <2>2, <3>1, <3>2, <3>3 DEF Disconnects
  <2> QED
    BY <2>1, <2>2
<1>7. FreesInv'
  <2>1. at'[master] \in {"lock"} \cup FreeStates => at'[master] = at[master]
    BY <1>3, Threads DEF FreeStates
  <2> QED
    BY <1>0, <2>1, Known DEF FreesInv, Disconnecting
<1>8. KickInv'
  <2>1. KickInv
    BY Known
  <2>2. CASE t = user
    <3>1. at'[master] = at[master] /\ at'[on[user]] = at[on[user]]
      BY <1>1, <1>3, <2>2, Threads
    <3> QED
      BY <1>0, <1>3, <2>1, <2>2, <3>1 DEF KickInv, DcStates
  <2>3. CASE t # user
    <3>1. at[user] = "idle" /\ at'[user] = "idle"
      BY <1>0, <1>2, <1>3, <2>1, <2>3, Threads, OneDisconnects DEF KickInv, DcStates
    <3> QED
      BY <3>1 DEF KickInv, DcStates
  <2> QED
    BY <2>2, <2>3
<1> QED
  BY <1>4, <1>6, <1>7, <1>8 DEF PlayersInv
(* The client is marked as disconnected: its player is gone.                      *)
LEMMA FlagKeepsPlayers ==
  ASSUME PlayersKnown, NEW t \in Thread, NEW i \in Slot, t \in {i, master, user},
         DisconnectFlag(t, i)
  PROVE  PlayersInv'
<1> DEFINE c == [client[i] EXCEPT !.server_disconnected = TRUE]
<1>0. /\ at[t] = "dc_flag" /\ i = SlotOf(t) /\ Goto(t, "dc_spawn")
      /\ client' = [client EXCEPT ![i] = c]
      /\ UNCHANGED <<on, threadLockMutex, clientConnection, session>>
  BY DEF DisconnectFlag, lockVars, gameVars
<1>1. /\ client[i].used /\ client[i].connected_knows /\ at[i] # "connect" /\ (t # i => i = on[t])
      /\ clientConnection[i] = 0
  BY <1>0, DisconnectedSlot
<1>2. /\ c.used = client[i].used /\ c.disabled = client[i].disabled
      /\ c.connected_knows = client[i].connected_knows
      /\ c.told_disconnect = client[i].told_disconnect /\ c.server_disconnected
  BY Known DEF Client
<1>3. client'[i] = c /\ \A j \in Slot : j # i => client'[j] = client[j]
  BY <1>0, Known
<1> HIDE DEF c
<1>4. at'[t] = "dc_spawn" /\ \A u \in Thread : u # t => at'[u] = at[u]
  BY <1>0, Moved DEF PlayersKnown, IInv, ThreadStates, MasterStates, DcStates
<1>5. on[master] \in Slot /\ (at[user] \in DcStates => on[user] \in Slot)
  BY Known
<1>6. ASSUME NEW j \in Slot PROVE SlotInv(j)'
  <2>1. CASE j # i
    <3>1. j # t /\ at'[j] = at[j]
      BY <1>4, <2>1, Threads
    <3> QED
      BY <1>0, <1>3, <2>1, <3>1, OtherSlots DEF SlotKept, ClientKept, SameStatus
  <2>2. CASE j = i
    <3>1. SlotInv(i) /\ Local # 0
      BY Known
    <3>2. at'[i] = at[i] \/ (t = i /\ at[i] \in DcStates /\ at'[i] = "dc_spawn")
      BY <1>0, <1>4, Threads DEF DcStates
    <3>3. clientConnection'[i] = 0 /\ client'[i].connected_knows
      BY <1>0, <1>1, <1>2, <1>3
    <3>4. at'[i] \notin {"connect", "hello", "know"} \cup FreeStates
      BY <1>1, <3>1, <3>2 DEF SlotInv, FreeStates
    <3>5. at'[i] \in DcStates => threadLockMutex' = i
      BY <1>0, <3>1, <3>2 DEF SlotInv
    <3> QED
      BY <2>2, <3>1, <3>3, <3>4, <3>5 DEF SlotInv
  <2> QED
    BY <2>1, <2>2
<1>7. ASSUME NEW u \in {master, user} PROVE Disconnects(u)'
  <2> SUFFICES ASSUME at'[u] \in {"dc_callback", "dc_flag"}
               PROVE  /\ client'[on[u]].used /\ client'[on[u]].connected_knows /\ at'[on[u]] # "connect"
                      /\ at'[u] = "dc_flag" => clientConnection[on[u]] = 0
    BY <1>0 DEF Disconnects
  <2>1. u # t /\ at'[u] = at[u]
    BY <1>4, Threads
  <2>2. Disconnects(u) /\ on[u] \in Slot
    BY <1>5, <2>1, Known DEF DcStates
  <2>3. at'[on[u]] # "connect"
    BY <1>4, <2>1, <2>2, Threads DEF Disconnects
  <2>4. client'[on[u]].used = client[on[u]].used /\ client'[on[u]].connected_knows = client[on[u]].connected_knows
    BY <1>2, <1>3, <2>2
  <2> QED
    BY <2>1, <2>2, <2>3, <2>4 DEF Disconnects
<1>8. FreesInv'
  <2>1. at'[master] \in {"lock"} \cup FreeStates => at'[master] = at[master]
    BY <1>4, Threads DEF FreeStates
  <2>2. Disconnecting(on[master]) => Disconnecting(on[master])'
    BY <1>0, <1>2, <1>3, <1>5 DEF Disconnecting
  <2> QED
    BY <1>0, <2>1, <2>2, Known DEF FreesInv, Disconnecting
<1>9. KickInv'
  <2>1. KickInv
    BY Known
  <2>2. CASE t = user
    BY <1>0, <1>4, <2>1, <2>2 DEF KickInv, DcStates
  <2>3. CASE t = i
    <3>1. at[user] = "idle" /\ at'[user] = "idle"
      BY <1>0, <1>4, <2>1, <2>3, Threads, OneDisconnects DEF KickInv, DcStates
    <3> QED
      BY <3>1 DEF KickInv, DcStates
  <2>4. CASE t = master
    <3>1. at'[user] = at[user] /\ at'[master] = "dc_spawn"
      BY <1>4, <2>4, Threads
    <3>2. CASE at[user] \in {"dc_callback", "dc_flag"}
      <4>1. on[user] # i /\ on[user] \in Slot
        BY <1>0, <1>1, <1>5, <2>1, <2>4, <3>2, Threads DEF KickInv, DcStates
      <4>2. at'[on[user]] = at[on[user]] /\ client'[on[user]] = client[on[user]]
        BY <1>3, <1>4, <2>4, <4>1, Threads
      <4> QED
        BY <1>0, <2>1, <3>1, <4>2 DEF KickInv
    <3>3. CASE at[user] \notin {"dc_callback", "dc_flag"}
      BY <1>0, <2>1, <3>1, <3>3 DEF KickInv
    <3> QED
      BY <3>2, <3>3
  <2> QED
    BY <2>2, <2>3, <2>4
<1> QED
  BY <1>6, <1>7, <1>8, <1>9 DEF PlayersInv

(* A slave changes its own slot.                                                  *)
LEMMA SlaveChange ==
  ASSUME PlayersKnown, NEW i \in Slot, NEW pc \in SlaveStates, Goto(i, pc),
         \A j \in Slot : j # i => SlotKept(j),
         \/ threadLockMutex' = threadLockMutex
         \/ threadLockMutex = None,
         UNCHANGED on, SlotInv(i)',
         \A t \in {master, user} : at[t] \in {"dc_callback", "dc_flag"} /\ on[t] = i =>
           /\ client'[i].used /\ client'[i].connected_knows /\ pc # "connect"
           /\ at[t] = "dc_flag" => clientConnection'[i] = 0,
         Disconnecting(i) => Disconnecting(i)',
         at[user] \in {"dc_callback", "dc_flag"} /\ on[user] = i =>
           ~client'[i].server_disconnected /\ (client'[i].told_disconnect => pc = "bye")
  PROVE  PlayersInv'
<1>1. /\ at'[i] = pc /\ at'[master] = at[master] /\ at'[user] = at[user]
      /\ \A j \in Slot : j # i => at'[j] = at[j]
  BY Moved, Threads DEF PlayersKnown, IInv, ThreadStates
<1>2. on[master] \in Slot /\ (at[user] \in DcStates => on[user] \in Slot) /\ KickInv /\ FreesInv
  BY Known
<1>3. \A j \in Slot : SlotInv(j)'
  <2>1. ASSUME NEW j \in Slot, j # i PROVE SlotInv(j)'
    <3>1. threadLockMutex = j => threadLockMutex' = j
      BY Threads
    <3> QED
      BY <1>1, <2>1, <3>1, OtherSlots
  <2> QED
    BY <2>1
<1>4. ASSUME NEW t \in {master, user} PROVE Disconnects(t)'
  <2> SUFFICES ASSUME at[t] \in {"dc_callback", "dc_flag"}
               PROVE  /\ client'[on[t]].used /\ client'[on[t]].connected_knows /\ at'[on[t]] # "connect"
                      /\ at[t] = "dc_flag" => clientConnection'[on[t]] = 0
    BY <1>1 DEF Disconnects
  <2>1. Disconnects(t) /\ on[t] \in Slot
    BY <1>2, Known DEF DcStates
  <2>2. CASE on[t] # i
    <3>1. SlotKept(on[t]) /\ at'[on[t]] = at[on[t]]
      BY <1>1, <2>1, <2>2
    <3> QED
      BY <2>1, <3>1 DEF Disconnects, SlotKept, ClientKept, SameStatus
  <2>3. CASE on[t] = i
    BY <1>1, <2>3
  <2> QED
    BY <2>2, <2>3
<1>5. FreesInv'
  <2>1. Disconnecting(on[master]) => Disconnecting(on[master])'
    <3>1. CASE on[master] = i
      BY <3>1 DEF Disconnecting
    <3>2. CASE on[master] # i
      BY <1>2, <3>2 DEF Disconnecting, SlotKept, ClientKept, SameStatus
    <3> QED
      BY <3>1, <3>2
  <2> QED
    BY <1>1, <1>2, <2>1 DEF FreesInv, Disconnecting
<1>6. KickInv'
  <2>1. at[user] \in DcStates => threadLockMutex' = threadLockMutex
    BY <1>2, Threads DEF KickInv
  <2>2. CASE at[user] \in {"dc_callback", "dc_flag"}
    <3>1. on[user] \in Slot
      BY <1>2, <2>2 DEF DcStates
    <3>2. CASE on[user] = i
      BY <1>1, <1>2, <2>1, <2>2, <3>2 DEF KickInv
    <3>3. CASE on[user] # i
      <4>1. SlotKept(on[user]) /\ at'[on[user]] = at[on[user]]
        BY <1>1, <3>1, <3>3
      <4> QED
        BY <1>1, <1>2, <2>1, <2>2, <4>1 DEF KickInv, SlotKept, ClientKept, SameStatus
    <3> QED
      BY <3>2, <3>3
  <2>3. CASE at[user] \notin {"dc_callback", "dc_flag"}
    BY <1>1, <1>2, <2>1, <2>3 DEF KickInv
  <2> QED
    BY <2>2, <2>3
<1> QED
  BY <1>3, <1>4, <1>5, <1>6 DEF PlayersInv

(* A packet of a connected client, or a hello.                                    *)
LEMMA HelloKeepsPlayers ==
  ASSUME PlayersKnown, NEW i \in Slot, ProcessHello(i)
  PROVE  PlayersInv'
<1>1. /\ at[i] = "work" /\ UNCHANGED <<client, on, threadLockMutex, clientConnection, session>>
      /\ Goto(i, IF client[i].connected_knows \/ Disconnecting(i) THEN "loop" ELSE "hello")
  BY DEF ProcessHello, lockVars, gameVars
<1>2. CASE client[i].connected_knows \/ Disconnecting(i)
  BY <1>1, <1>2, ClientsKept, QuietPacketsKeepPlayers
<1>3. CASE ~(client[i].connected_knows \/ Disconnecting(i))
  <2>1. Goto(i, "hello") /\ \A j \in Slot : SlotKept(j)
    BY <1>1, <1>3, ClientsKept DEF SlotKept
  <2>2. at'[i] = "hello"
    BY <2>1, Moved, Threads DEF PlayersKnown, IInv, ThreadStates, SlaveStates
  <2>3. SlotInv(i) /\ Local # 0
    BY Known
  <2>4. SlotInv(i)'
    BY <1>1, <1>3, <2>2, <2>3 DEF SlotInv, Disconnecting, DcStates, FreeStates
  <2>5. \A t \in {master, user} : ~(at[t] \in {"dc_callback", "dc_flag"} /\ on[t] = i)
    BY <1>3, Known DEF Disconnects
  <2> QED
    BY <1>1, <1>3, <2>1, <2>4, <2>5, SlaveChange DEF SlaveStates, Disconnecting
<1> QED
  BY <1>2, <1>3

(* "bye": the player of a connected client is still there.                        *)
LEMMA ByeKeepsPlayers ==
  ASSUME PlayersKnown, NEW i \in Slot, ProcessBye(i)
  PROVE  PlayersInv'
<1> DEFINE c == [client[i] EXCEPT !.told_disconnect = TRUE,
                   !.droptime = IF client[i].server_disconnected THEN "running" ELSE @]
<1>1. /\ at[i] = "work" /\ UNCHANGED <<on, threadLockMutex, clientConnection, session>>
      /\ client' = [client EXCEPT ![i] = c]
      /\ Goto(i, IF Disconnecting(i) THEN "loop" ELSE "bye")
  BY DEF ProcessBye, lockVars, gameVars
<1>2. /\ c.used = client[i].used /\ c.disabled = client[i].disabled
      /\ c.connected_knows = client[i].connected_knows
      /\ c.told_disconnect /\ c.server_disconnected = client[i].server_disconnected
  BY Known DEF Client
<1>3. client'[i] = c /\ \A j \in Slot : j # i => client'[j] = client[j]
  BY <1>1, Known
<1> HIDE DEF c
<1>4. PICK pc \in {"loop", "bye"} : /\ Goto(i, pc) /\ (pc = "loop" <=> Disconnecting(i))
  BY <1>1
<1>5. at'[i] = pc
  BY <1>4, Moved, Threads DEF PlayersKnown, IInv, ThreadStates, SlaveStates
<1>6. SlotInv(i) /\ Local # 0
  BY Known
<1>7. SlotInv(i)'
  BY <1>1, <1>2, <1>3, <1>4, <1>5, <1>6 DEF SlotInv, Disconnecting, DcStates, FreeStates
<1>8. \A j \in Slot : j # i => SlotKept(j)
  BY <1>1, <1>3 DEF SlotKept, ClientKept, SameStatus
<1>9. \A t \in {master, user} : at[t] \in {"dc_callback", "dc_flag"} /\ on[t] = i =>
           /\ client'[i].used /\ client'[i].connected_knows
           /\ at[t] = "dc_flag" => clientConnection'[i] = 0
  BY <1>1, <1>2, <1>3, Known DEF Disconnects
<1>10. at[user] \in {"dc_callback", "dc_flag"} /\ on[user] = i =>
         ~client'[i].server_disconnected /\ pc = "bye"
  BY <1>1, <1>2, <1>3, <1>4, Known DEF KickInv, Disconnecting
<1>11. Disconnecting(i)'
  BY <1>2, <1>3 DEF Disconnecting
<1> QED
  BY <1>1, <1>4, <1>7, <1>8, <1>9, <1>10, <1>11, SlaveChange DEF SlaveStates
(* "bye" of a connected client: its player leaves the game.                       *)
LEMMA ByeCallbackKeepsPlayers ==
  ASSUME PlayersKnown, NEW i \in Slot, ByeCallback(i)
  PROVE  PlayersInv'
<1> DEFINE c == [client[i] EXCEPT !.droptime = "running"]
<1>1. /\ at[i] = "bye" /\ UNCHANGED <<on, threadLockMutex, session>>
      /\ client' = [client EXCEPT ![i] = c]
      /\ Goto(i, "loop")
      /\ client[i].connected_knows => threadLockMutex = None
      /\ \A j \in Slot : j # i => clientConnection'[j] = clientConnection[j]
      /\ clientConnection'[i] = IF client[i].connected_knows THEN 0 ELSE clientConnection[i]
  BY Known DEF ByeCallback, lockVars, Free
<1>2. SameStatus(c, client[i])
  BY Known DEF Client, SameStatus
<1>3. client'[i] = c /\ \A j \in Slot : ClientKept(j)
  BY <1>1, <1>2, Known, FieldsKept
<1> HIDE DEF c
<1>5. at'[i] = "loop"
  BY <1>1, Moved, Threads DEF PlayersKnown, IInv, ThreadStates, SlaveStates
<1>6. /\ SlotInv(i) /\ Local # 0 /\ client[i].used /\ ~client[i].disabled
      /\ Disconnects(user) /\ Disconnects(master) /\ KickInv
  BY <1>1, Known DEF SlaveKeepsItsSlot, SlotsAreNotShared
<1>7. clientConnection'[i] = 0
  BY <1>1, <1>6 DEF SlotInv
<1>8. SlotInv(i)'
  BY <1>5, <1>6, <1>7 DEF SlotInv, DcStates, FreeStates
<1>9. \A j \in Slot : j # i => SlotKept(j)
  BY <1>1, <1>3 DEF SlotKept
<1>10. \A t \in {master, user} : at[t] \in {"dc_callback", "dc_flag"} /\ on[t] = i =>
           client'[i].used /\ client'[i].connected_knows
  BY <1>2, <1>3, <1>6 DEF Disconnects, SameStatus
<1>11. ~(at[user] \in {"dc_callback", "dc_flag"} /\ on[user] = i)
  BY <1>1, <1>6, Threads DEF Disconnects, KickInv, DcStates
<1>12. Disconnecting(i) => Disconnecting(i)'
  BY <1>2, <1>3 DEF Disconnecting, SameStatus
<1> QED
  BY <1>1, <1>7, <1>8, <1>9, <1>10, <1>11, <1>12, SlaveChange DEF SlaveStates

(* A packet of a client that is not known to be connected is the first.           *)
LEMMA DataKeepsPlayers ==
  ASSUME PlayersKnown, NEW i \in Slot, ProcessData(i)
  PROVE  PlayersInv'
<1>1. /\ at[i] = "work" /\ UNCHANGED <<client, on, threadLockMutex, clientConnection, session>>
      /\ Goto(i, IF ~client[i].connected \/ Disconnecting(i) THEN "loop"
                 ELSE IF client[i].connected_knows THEN "data" ELSE "know")
  BY DEF ProcessData, lockVars, gameVars
<1>2. CASE Goto(i, "loop") \/ Goto(i, "data")
  BY <1>1, <1>2, ClientsKept, QuietPacketsKeepPlayers
<1>3. CASE Goto(i, "know") /\ ~client[i].connected_knows /\ ~Disconnecting(i)
  <2>1. \A j \in Slot : SlotKept(j)
    BY <1>1, ClientsKept DEF SlotKept
  <2>2. at'[i] = "know"
    BY <1>3, Moved, Threads DEF PlayersKnown, IInv, ThreadStates, SlaveStates
  <2>3. SlotInv(i) /\ Local # 0
    BY Known
  <2>4. SlotInv(i)'
    BY <1>1, <1>3, <2>2, <2>3 DEF SlotInv, Disconnecting, DcStates, FreeStates
  <2>5. \A t \in {master, user} : ~(at[t] \in {"dc_callback", "dc_flag"} /\ on[t] = i)
    BY <1>3, Known DEF Disconnects
  <2> QED
    BY <1>1, <1>3, <2>1, <2>4, <2>5, SlaveChange DEF SlaveStates, Disconnecting
<1> QED
  BY <1>1, <1>2, <1>3

(* The first packet that shows that the client is connected has no player yet.    *)
LEMMA KnowKeepsPlayers ==
  ASSUME PlayersKnown, NEW i \in Slot, KnowConnected(i)
  PROVE  PlayersInv'
<1> DEFINE c == [client[i] EXCEPT !.connected_knows = TRUE]
<1>1. /\ at[i] = "know" /\ UNCHANGED <<on, threadLockMutex, clientConnection, session>>
      /\ Goto(i, "connect") /\ client' = [client EXCEPT ![i] = c]
  BY DEF KnowConnected, lockVars, gameVars
<1>2. /\ c.used = client[i].used /\ c.disabled = client[i].disabled
      /\ c.connected_knows
      /\ c.told_disconnect = client[i].told_disconnect
      /\ c.server_disconnected = client[i].server_disconnected
  BY Known DEF Client
<1>3. client'[i] = c /\ \A j \in Slot : j # i => client'[j] = client[j]
  BY <1>1, Known
<1> HIDE DEF c
<1>4. at'[i] = "connect"
  BY <1>1, Moved, Threads DEF PlayersKnown, IInv, ThreadStates, SlaveStates
<1>5. /\ SlotInv(i) /\ Local # 0 /\ client[i].used /\ ~client[i].disabled
      /\ Disconnects(user) /\ Disconnects(master)
  BY <1>1, Known DEF SlaveKeepsItsSlot, SlotsAreNotShared
<1>6. ~client[i].connected_knows /\ ~Disconnecting(i) /\ clientConnection[i] = 0
  BY <1>1, <1>5 DEF SlotInv
<1>7. SlotInv(i)'
  BY <1>1, <1>2, <1>3, <1>4, <1>5, <1>6 DEF SlotInv, DcStates, FreeStates, Disconnecting
<1>8. \A j \in Slot : j # i => SlotKept(j)
  BY <1>1, <1>3 DEF SlotKept, ClientKept, SameStatus
<1>9. \A t \in {master, user} : ~(at[t] \in {"dc_callback", "dc_flag"} /\ on[t] = i)
  BY <1>5, <1>6 DEF Disconnects
<1> QED
  BY <1>1, <1>6, <1>7, <1>8, <1>9, SlaveChange DEF SlaveStates

(* The player enters the game.                                                    *)
LEMMA ConnectedKeepsPlayers ==
  ASSUME PlayersKnown, NEW i \in Slot, ConnectedCallback(i)
  PROVE  PlayersInv'
<1>1. /\ at[i] = "connect" /\ UNCHANGED <<on, client, threadLockMutex, session>> /\ Goto(i, "data")
      /\ clientConnection'[i] = session[i]
      /\ \A j \in Slot : j # i => clientConnection'[j] = clientConnection[j]
  BY Known DEF ConnectedCallback, lockVars
<1>2. at'[i] = "data"
  BY <1>1, Moved, Threads DEF PlayersKnown, IInv, ThreadStates, SlaveStates
<1>3. /\ SlotInv(i) /\ session[i] # Local /\ client[i].used /\ Disconnects(user) /\ Disconnects(master)
  BY <1>1, Known, BoundAssumption DEF SlaveKeepsItsSlot
<1>4. SlotInv(i)'
  BY <1>1, <1>2, <1>3 DEF SlotInv, DcStates, FreeStates, Disconnecting
<1>5. \A j \in Slot : j # i => SlotKept(j)
  BY <1>1 DEF SlotKept, ClientKept, SameStatus
<1>6. \A t \in {master, user} : ~(at[t] \in {"dc_callback", "dc_flag"} /\ on[t] = i)
  BY <1>1, <1>3 DEF Disconnects
<1>7. Disconnecting(i) => Disconnecting(i)'
  BY <1>1 DEF Disconnecting
<1> QED
  BY <1>1, <1>4, <1>5, <1>6, <1>7, SlaveChange DEF SlaveStates

(* The game handles the packet of a player, and may disconnect the player for it. *)
LEMMA DataCallbackKeepsPlayers ==
  ASSUME PlayersKnown, NEW i \in Slot, DataCallback(i)
  PROVE  PlayersInv'
<1>1. /\ at[i] = "data" /\ threadLockMutex = None /\ UNCHANGED <<on, client, clientConnection, session>>
  BY DEF DataCallback, gameVars, Free
<1>2. CASE Goto(i, "loop") /\ UNCHANGED threadLockMutex
  BY <1>1, <1>2, ClientsKept, QuietPacketsKeepPlayers
<1>3. CASE Goto(i, "dc_callback") /\ threadLockMutex' = i /\ clientConnection[i] # 0
  <2>1. at'[i] = "dc_callback"
    BY <1>3, Moved, Threads DEF PlayersKnown, IInv, ThreadStates, SlaveStates, DcStates
  <2>2. /\ SlotInv(i) /\ client[i].used /\ ~client[i].disabled
        /\ Disconnects(user) /\ Disconnects(master) /\ KickInv
    BY <1>1, Known DEF SlaveKeepsItsSlot, SlotsAreNotShared
  <2>3. clientConnection[i] \notin {0, Local} /\ client[i].connected_knows
    BY <1>3, <2>2 DEF SlotInv
  <2>4. SlotInv(i)'
    BY <1>1, <1>3, <2>1, <2>2, <2>3 DEF SlotInv, DcStates, FreeStates
  <2>5. \A j \in Slot : j # i => SlotKept(j)
    BY <1>1 DEF SlotKept, ClientKept, SameStatus
  <2>6. \A t \in {master, user} : at[t] \in {"dc_callback", "dc_flag"} /\ on[t] = i =>
          /\ client'[i].used /\ client'[i].connected_knows
          /\ at[t] = "dc_flag" => clientConnection'[i] = 0
    BY <1>1, <2>2 DEF Disconnects
  <2>7. at[user] \notin DcStates
    BY <1>1, <2>2, Threads DEF KickInv
  <2>8. Disconnecting(i) => Disconnecting(i)'
    BY <1>1 DEF Disconnecting
  <2> QED
    BY <1>1, <1>3, <2>4, <2>5, <2>6, <2>7, <2>8, SlaveChange DEF SlaveStates, DcStates
<1> QED
  BY <1>2, <1>3 DEF DataCallback

(* A rejected client has no player.                                               *)
LEMMA SlaveFreesKeepsPlayers ==
  ASSUME PlayersKnown, NEW i \in Slot, FreeSlot(i, i)
  PROVE  PlayersInv'
<1> DEFINE c == [client[i] EXCEPT !.used = FALSE, !.packet = None]
<1>1. /\ at[i] = "free" /\ Goto(i, "count") /\ client' = [client EXCEPT ![i] = c]
      /\ UNCHANGED <<on, threadLockMutex, clientConnection, session>>
  BY Threads DEF FreeSlot, gameVars
<1>2. /\ c.disabled = client[i].disabled /\ c.connected_knows = client[i].connected_knows
      /\ c.told_disconnect = client[i].told_disconnect
      /\ c.server_disconnected = client[i].server_disconnected
  BY Known DEF Client
<1>3. client'[i] = c /\ \A j \in Slot : j # i => client'[j] = client[j]
  BY <1>1, Known
<1> HIDE DEF c
<1>4. at'[i] = "count"
  BY <1>1, Moved, Threads DEF PlayersKnown, IInv, ThreadStates, SlaveStates
<1>5. SlotInv(i) /\ Disconnects(user) /\ Disconnects(master)
  BY Known
<1>6. SlotInv(i)'
  BY <1>1, <1>2, <1>3, <1>4, <1>5 DEF SlotInv, DcStates, FreeStates
<1>7. \A j \in Slot : j # i => SlotKept(j)
  BY <1>1, <1>3 DEF SlotKept, ClientKept, SameStatus
<1>8. \A t \in {master, user} : ~(at[t] \in {"dc_callback", "dc_flag"} /\ on[t] = i)
  BY <1>1, <1>5 DEF Disconnects, SlotInv, FreeStates
<1>9. Disconnecting(i) => Disconnecting(i)'
  BY <1>2, <1>3 DEF Disconnecting
<1> QED
  BY <1>1, <1>6, <1>7, <1>8, <1>9, SlaveChange DEF SlaveStates
(* The master changes the slot that it works on.                                  *)
LEMMA MasterChange ==
  ASSUME PlayersKnown, NEW i \in Slot, NEW pc \in MasterStates \ {"dc_flag"}, Goto(master, pc),
         \A j \in Slot : j # i => SlotKept(j),
         UNCHANGED threadLockMutex, on'[user] = on[user],
         SlotKept(i) \/ SlotInv(i)',
         ~(at[user] \in {"dc_callback", "dc_flag"} /\ on[user] = i) \/ SlotKept(i),
         Disconnects(master)', FreesInv'
  PROVE  PlayersInv'
<1>1. /\ at'[master] = pc /\ at'[user] = at[user] /\ \A j \in Slot : at'[j] = at[j]
  BY Moved, Threads DEF PlayersKnown, IInv, ThreadStates
<1>2. (at[user] \in DcStates => on[user] \in Slot) /\ KickInv /\ Disconnects(user)
  BY Known
<1>3. \A j \in Slot : SlotInv(j)'
  BY <1>1, OtherSlots
<1>4. at[user] \in {"dc_callback", "dc_flag"} => SlotKept(on[user]) /\ at'[on[user]] = at[on[user]]
  BY <1>1, <1>2 DEF DcStates
<1>5. Disconnects(user)'
  BY <1>1, <1>2, <1>4 DEF Disconnects, SlotKept, ClientKept, SameStatus
<1>6. KickInv'
  BY <1>1, <1>2, <1>4 DEF KickInv, SlotKept, ClientKept, SameStatus
<1> QED
  BY <1>3, <1>5, <1>6 DEF PlayersInv

(* What the master finds out about a slot before it works on it.                  *)
LEMMA ThinkKeepsPlayers ==
  ASSUME PlayersKnown, NEW i \in Slot, ThinkFree(i) \/ ThinkTimeout(i)
  PROVE  PlayersInv'
<1>1. /\ UNCHANGED <<client, threadLockMutex, clientConnection, session>>
      /\ on'[master] = i /\ on'[user] = on[user] /\ client[i].used
  BY Known, Threads DEF ThinkFree, ThinkTimeout, lockVars, gameVars
<1>2. \A j \in Slot : SlotKept(j)
  BY <1>1 DEF SlotKept, ClientKept, SameStatus
<1>3. CASE ThinkFree(i)
  <2>1. Goto(master, "lock") /\ Disconnecting(i)
    BY <1>3 DEF ThinkFree
  <2>2. at'[master] = "lock"
    BY <2>1, Moved, Threads DEF PlayersKnown, IInv, ThreadStates, MasterStates
  <2>3. Disconnects(master)' /\ FreesInv'
    BY <1>1, <2>1, <2>2 DEF Disconnects, FreesInv, Disconnecting
  <2> QED
    BY <1>1, <1>2, <2>1, <2>3, MasterChange DEF MasterStates
<1>4. CASE ThinkTimeout(i)
  <2>1. Goto(master, "dc_callback") /\ clientConnection[i] # 0
    BY <1>4 DEF ThinkTimeout, PlayersKnown, Quiet
  <2>2. at'[master] = "dc_callback" /\ at'[i] = at[i]
    BY <2>1, Moved, Threads DEF PlayersKnown, IInv, ThreadStates, MasterStates, DcStates
  <2>3. SlotInv(i) /\ ~client[i].disabled
    BY <1>1, Known DEF SlotsAreNotShared
  <2>4. client[i].connected_knows /\ at[i] # "connect"
    BY <2>1, <2>3 DEF SlotInv
  <2>5. Disconnects(master)' /\ FreesInv'
    BY <1>1, <2>2, <2>4 DEF Disconnects, FreesInv, FreeStates
  <2> QED
    BY <1>1, <1>2, <2>1, <2>5, MasterChange DEF MasterStates, DcStates
<1> QED
  BY <1>3, <1>4

(* A slot is freed by the master when its player has left.                        *)
LEMMA MasterFreesKeepsPlayers ==
  ASSUME PlayersKnown, NEW i \in Slot, FreeSlot(master, i)
  PROVE  PlayersInv'
<1> DEFINE c == [client[i] EXCEPT !.used = FALSE, !.packet = None]
<1>1. /\ at[master] = "free" /\ i = on[master] /\ Goto(master, "idle")
      /\ client' = [client EXCEPT ![i] = c]
      /\ UNCHANGED <<on, threadLockMutex, clientConnection, session>>
  BY Threads DEF FreeSlot, gameVars, SlotOf
<1>2. /\ c.disabled = client[i].disabled /\ c.connected_knows = client[i].connected_knows
      /\ c.told_disconnect = client[i].told_disconnect
      /\ c.server_disconnected = client[i].server_disconnected
  BY Known DEF Client
<1>3. client'[i] = c /\ \A j \in Slot : j # i => client'[j] = client[j]
  BY <1>1, Known
<1> HIDE DEF c
<1>4. at'[master] = "idle" /\ at'[i] = at[i]
  BY <1>1, Moved, Threads DEF PlayersKnown, IInv, ThreadStates, MasterStates
<1>5. SlotInv(i) /\ FreesInv /\ KickInv /\ StationsInv
  BY Known
<1>6. Disconnecting(i) /\ at[i] \in WaitStates
  BY <1>1, <1>5, Threads DEF FreesInv, FreeStates, StationsInv
<1>7. SlotInv(i)'
  BY <1>1, <1>2, <1>3, <1>4, <1>5, <1>6
  DEF SlotInv, Disconnecting, WaitStates, DcStates, FreeStates
<1>8. ~(at[user] \in {"dc_callback", "dc_flag"} /\ on[user] = i)
  BY <1>5, <1>6 DEF KickInv, Disconnecting, WaitStates
<1>9. \A j \in Slot : j # i => SlotKept(j)
  BY <1>1, <1>3 DEF SlotKept, ClientKept, SameStatus
<1>10. Disconnects(master)' /\ FreesInv'
  BY <1>4 DEF Disconnects, FreesInv, FreeStates
<1> QED
  BY <1>1, <1>7, <1>8, <1>9, <1>10, MasterChange DEF MasterStates

(* A new client gets a slot that has no player.                                   *)
LEMMA AllocateKeepsPlayers ==
  ASSUME PlayersKnown, NEW i \in Slot, AllocateSlot(i)
  PROVE  PlayersInv'
<1>1. /\ at[master] = "alloc" /\ i = on[master] /\ Goto(master, "idle") /\ station_mutex[i] = None
      /\ UNCHANGED <<on, threadLockMutex, clientConnection>>
      /\ \A j \in Slot : j # i => session'[j] = session[j] /\ client'[j] = client[j]
  BY Known DEF AllocateSlot, Free
<1>2. client'[i].disabled = client[i].disabled
  BY Known DEF AllocateSlot, Client
<1>3. at'[master] = "idle" /\ at'[i] = at[i]
  BY <1>1, Moved, Threads DEF PlayersKnown, IInv, ThreadStates, MasterStates
<1>4. /\ SlotInv(i) /\ ~client[i].used /\ ~client[i].disabled /\ at[i] \in WaitStates
      /\ Disconnects(user)
  BY <1>1, Known, Threads DEF VacancyInv, StationsInv
<1>5. clientConnection[i] = 0
  BY <1>4 DEF SlotInv
<1>6. SlotInv(i)'
  BY <1>1, <1>3, <1>4, <1>5, Known DEF SlotInv, WaitStates, DcStates, FreeStates
<1>7. ~(at[user] \in {"dc_callback", "dc_flag"} /\ on[user] = i)
  BY <1>4 DEF Disconnects
<1>8. \A j \in Slot : j # i => SlotKept(j)
  BY <1>1 DEF SlotKept, ClientKept, SameStatus
<1>9. Disconnects(master)' /\ FreesInv'
  BY <1>3 DEF Disconnects, FreesInv, FreeStates
<1> QED
  BY <1>1, <1>6, <1>7, <1>8, <1>9, MasterChange DEF MasterStates

(* A slot that is given up has no player either.                                  *)
LEMMA CannotAllocateKeepsPlayers ==
  ASSUME PlayersKnown, NEW i \in Slot, CannotAllocateSlot(i)
  PROVE  PlayersInv'
<1>1. /\ at[master] = "alloc" /\ i = on[master] /\ Goto(master, "idle") /\ station_mutex[i] = None
      /\ UNCHANGED <<on, threadLockMutex, clientConnection, session>>
      /\ \A j \in Slot : j # i => client'[j] = client[j]
  BY Known DEF CannotAllocateSlot, Free, gameVars
<1>2. client'[i].disabled = client[i].disabled
  BY Known DEF CannotAllocateSlot, Client
<1>3. at'[master] = "idle" /\ at'[i] = at[i]
  BY <1>1, Moved, Threads DEF PlayersKnown, IInv, ThreadStates, MasterStates
<1>4. /\ SlotInv(i) /\ ~client[i].used /\ ~client[i].disabled /\ at[i] \in WaitStates
      /\ Disconnects(user)
  BY <1>1, Known, Threads DEF VacancyInv, StationsInv
<1>5. clientConnection[i] = 0
  BY <1>4 DEF SlotInv
<1>6. SlotInv(i)'
  BY <1>1, <1>3, <1>4, <1>5, Known DEF SlotInv, WaitStates, DcStates, FreeStates
<1>7. ~(at[user] \in {"dc_callback", "dc_flag"} /\ on[user] = i)
  BY <1>4 DEF Disconnects
<1>8. \A j \in Slot : j # i => SlotKept(j)
  BY <1>1 DEF SlotKept, ClientKept, SameStatus
<1>9. Disconnects(master)' /\ FreesInv'
  BY <1>3 DEF Disconnects, FreesInv, FreeStates
<1> QED
  BY <1>1, <1>6, <1>7, <1>8, <1>9, MasterChange DEF MasterStates

(* The game thread begins to disconnect a player.                                 *)
LEMMA KickKeepsPlayers ==
  ASSUME PlayersKnown, NEW i \in Slot, Kick(i)
  PROVE  PlayersInv'
<1>1. /\ threadLockMutex = None /\ threadLockMutex' = user /\ clientConnection[i] \notin {0, Local}
      /\ Goto(user, "dc_callback") /\ on'[user] = i /\ on'[master] = on[master]
      /\ UNCHANGED <<client, clientConnection, session>>
  BY Known, Threads DEF Kick, Free, gameVars
<1>2. /\ at'[user] = "dc_callback" /\ at'[master] = at[master] /\ \A j \in Slot : at'[j] = at[j]
  BY <1>1, Moved, Threads DEF PlayersKnown, IInv, ThreadStates, MasterStates, DcStates
<1>3. SlotInv(i) /\ Disconnects(master) /\ FreesInv /\ on[master] \in Slot
  BY Known
<1>4. ASSUME NEW j \in Slot PROVE SlotInv(j)'
  <2>1. threadLockMutex # j
    BY <1>1, Threads
  <2> QED
    BY <1>1, <1>2, <2>1, OtherSlots DEF SlotKept, ClientKept, SameStatus
<1>5. at'[i] # "connect"
  BY <1>1, <1>2, <1>3 DEF SlotInv
<1>6. Disconnects(user)' /\ Disconnects(master)' /\ FreesInv'
  BY <1>1, <1>2, <1>3, <1>5 DEF SlotInv, Disconnects, FreesInv, Disconnecting
<1>7. at[master] = "dc_flag" => on[master] # i
  BY <1>1, <1>3 DEF Disconnects
<1>8. KickInv'
  BY <1>1, <1>2, <1>3, <1>7 DEF KickInv, SlotInv, DcStates
<1> QED
  BY <1>4, <1>6, <1>8 DEF PlayersInv

(* A local client comes or goes: its slot has no player of the network.           *)
LEMMA LocalKeepsPlayers ==
  ASSUME PlayersKnown, NEW i \in Slot, ~client[i].used \/ clientConnection'[i] = 0,
         client'[i].used = client[i].used, client'[i].connected_knows = client[i].connected_knows,
         client'[i].told_disconnect = client[i].told_disconnect,
         client'[i].server_disconnected = client[i].server_disconnected,
         clientConnection'[i] = 0 \/ (clientConnection'[i] = Local /\ client'[i].disabled),
         \A j \in Slot : j # i => SlotKept(j),
         \A j \in Slot : at'[j] = at[j], at'[master] = at[master], at'[user] = at[user],
         threadLockMutex' = threadLockMutex \/ threadLockMutex = bots,
         UNCHANGED on
  PROVE  PlayersInv'
<1>1. /\ SlotInv(i) /\ Local # 0 /\ SlaveKeepsItsSlot /\ Disconnects(user) /\ Disconnects(master)
      /\ FreesInv /\ KickInv /\ on[master] \in Slot /\ (at[user] \in DcStates => on[user] \in Slot)
  BY Known
<1>2. threadLockMutex # bots => threadLockMutex' = threadLockMutex
  OBVIOUS
<1>3. ASSUME NEW j \in Slot PROVE SlotInv(j)'
  <2>1. threadLockMutex = j => threadLockMutex' = j
    BY <1>2, Threads
  <2>2. CASE j # i
    BY <2>1, <2>2, OtherSlots
  <2>3. CASE j = i
    <3>1. at[i] \in {"connect", "dc_flag"} => clientConnection'[i] = 0
      BY <1>1 DEF SlaveKeepsItsSlot
    <3> QED
      BY <1>1, <2>1, <2>3, <3>1 DEF SlotInv, Disconnecting, DcStates, FreeStates
  <2> QED
    BY <2>2, <2>3
<1>4. ASSUME NEW t \in {master, user} PROVE Disconnects(t)'
  <2> SUFFICES ASSUME at[t] \in {"dc_callback", "dc_flag"}
               PROVE  /\ client'[on[t]].used /\ client'[on[t]].connected_knows /\ at'[on[t]] # "connect"
                      /\ at[t] = "dc_flag" => clientConnection'[on[t]] = 0
    BY DEF Disconnects
  <2>1. Disconnects(t) /\ on[t] \in Slot
    BY <1>1 DEF DcStates
  <2>2. CASE on[t] # i
    BY <2>1, <2>2 DEF Disconnects, SlotKept, ClientKept, SameStatus
  <2>3. CASE on[t] = i
    BY <2>1, <2>3 DEF Disconnects
  <2> QED
    BY <2>2, <2>3
<1>5. FreesInv'
  BY <1>1 DEF FreesInv, Disconnecting, SlotKept, ClientKept, SameStatus
<1>6. KickInv'
  <2>1. at[user] \in DcStates => threadLockMutex' = user
    BY <1>1, <1>2, Threads DEF KickInv
  <2>2. at[user] \in {"dc_callback", "dc_flag"} =>
          /\ client'[on[user]].server_disconnected = client[on[user]].server_disconnected
          /\ client'[on[user]].told_disconnect = client[on[user]].told_disconnect
          /\ at'[on[user]] = at[on[user]]
    BY <1>1 DEF SlotKept, ClientKept, SameStatus, DcStates
  <2> QED
    BY <1>1, <2>1, <2>2 DEF KickInv
<1> QED
  BY <1>3, <1>4, <1>5, <1>6 DEF PlayersInv

LEMMA LocalStepsKeepPlayers ==
  ASSUME PlayersKnown,
         ReserveClientId \/ \E i \in Slot : KickLocal(i) \/ ReturnClientId(i)
  PROVE  PlayersInv'
<1>1. CASE ReserveClientId
  <2> DEFINE i == Min(Vacant)  c == [client[i] EXCEPT !.disabled = TRUE]
  <2>1. /\ at[bots] = "reserve" /\ Goto(bots, "idle") /\ UNCHANGED <<on, session>>
    BY <1>1 DEF ReserveClientId
  <2>2. threadLockMutex = bots
    BY <2>1 DEF PlayersKnown, BotsInv
  <2>3. /\ at'[master] = at[master] /\ at'[user] = at[user] /\ \A j \in Slot : at'[j] = at[j]
    BY <2>1, Moved, Threads DEF PlayersKnown, IInv, ThreadStates, MasterStates
  <2>4. CASE UNCHANGED <<client, clientConnection>>
    BY <2>1, <2>2, <2>3, <2>4, ClientsKept, OthersCalmStep
  <2>5. CASE Vacant # {}
    <3>1. i \in Slot /\ ~client[i].used
      <4>1. Vacant \in SUBSET Slot
        BY DEF Vacant
      <4>2. i \in Vacant
        BY <2>5, <4>1, MinOfSlots
      <4> QED
        BY <4>2 DEF Vacant
    <3>2. client' = [client EXCEPT ![i] = c] /\ clientConnection' = [clientConnection EXCEPT ![i] = Local]
      BY <1>1, <2>5 DEF ReserveClientId
    <3> HIDE DEF i
    <3>3. client[i] \in Client
      BY <3>1, Known
    <3>4. /\ c.used = client[i].used /\ c.connected_knows = client[i].connected_knows
          /\ c.told_disconnect = client[i].told_disconnect /\ c.disabled
          /\ c.server_disconnected = client[i].server_disconnected
      BY <3>3 DEF Client
    <3> HIDE DEF c
    <3>5. /\ client'[i] = c /\ clientConnection'[i] = Local
          /\ \A j \in Slot : j # i => SlotKept(j)
      BY <2>1, <3>1, <3>2, Known DEF SlotKept, ClientKept, SameStatus
    <3> QED
      BY <2>1, <2>2, <2>3, <3>1, <3>4, <3>5, LocalKeepsPlayers
  <2> QED
    BY <1>1, <2>4, <2>5 DEF ReserveClientId
<1>2. ASSUME NEW i \in Slot, KickLocal(i) PROVE PlayersInv'
  <2>1. /\ UNCHANGED <<client, at, on, threadLockMutex, session>>
        /\ clientConnection'[i] = 0
        /\ \A j \in Slot : j # i => clientConnection'[j] = clientConnection[j]
    BY <1>2, Known DEF KickLocal, threadVars, lockVars
  <2> QED
    BY <2>1, LocalKeepsPlayers DEF SlotKept, ClientKept, SameStatus
<1>3. ASSUME NEW i \in Slot, ReturnClientId(i) PROVE PlayersInv'
  <2> DEFINE c == [client[i] EXCEPT !.disabled = FALSE]
  <2>1. /\ UNCHANGED <<at, on, threadLockMutex, session>> /\ client' = [client EXCEPT ![i] = c]
        /\ clientConnection'[i] = 0
        /\ \A j \in Slot : j # i => clientConnection'[j] = clientConnection[j]
    BY <1>3, Known DEF ReturnClientId, threadVars, lockVars
  <2>2. /\ c.used = client[i].used /\ c.connected_knows = client[i].connected_knows
        /\ c.told_disconnect = client[i].told_disconnect
        /\ c.server_disconnected = client[i].server_disconnected
    BY Known DEF Client
  <2> HIDE DEF c
  <2>3. client'[i] = c /\ \A j \in Slot : j # i => SlotKept(j)
    BY <2>1, Known DEF SlotKept, ClientKept, SameStatus
  <2> QED
    BY <2>1, <2>2, <2>3, LocalKeepsPlayers
<1> QED
  BY <1>1, <1>2, <1>3
--------------------------------------------------------------------------------
(* The bot thread has locked the game while it looks for a slot.                  *)

LEMMA BotsKeepLock ==
  IInv /\ BotsInv /\ [Next]_vars => BotsInv'
<1> SUFFICES ASSUME IInv, BotsInv, [Next]_vars PROVE BotsInv'
  OBVIOUS
<1>0. at \in [Thread -> ThreadStates]
  BY DEF IInv, TypeOK
<1>1. ASSUME at'[bots] = at[bots],
             threadLockMutex' = threadLockMutex \/ threadLockMutex \in (Thread \cup {None}) \ {bots}
      PROVE  BotsInv'
  BY <1>1, Threads DEF BotsInv
<1>2. ASSUME NEW t \in Thread, NEW i \in Slot, t \in {i, master, user}, Disconnect(t, i) PROVE BotsInv'
  BY <1>0, <1>1, <1>2, Threads
  DEF Disconnect, DisconnectCallback, DisconnectFlag, DisconnectSpawn, Goto, lockVars
<1>3. ASSUME NEW i \in Slot, NEW t \in {i, master},
             JoinDisconnector(t, i) \/ DisconnectorJoined(t, i) \/ FreeSlot(t, i)
      PROVE  BotsInv'
  BY <1>0, <1>1, <1>3, Threads DEF JoinDisconnector, DisconnectorJoined, FreeSlot, Goto, lockVars
<1>4. ASSUME NEW i \in Slot, Slave(i) PROVE BotsInv'
  <2>1. CASE SlaveStarts(i) \/ SlaveWakes(i) \/ SlaveLoops(i) \/ CountFreed(i)
    BY <1>0, <1>1, <2>1, Threads
    DEF SlaveStarts, SlaveWakes, SlaveLoops, CountFreed, Goto, lockVars
  <2>2. CASE ProcessHello(i) \/ ProcessBye(i) \/ ProcessData(i) \/ KnowConnected(i)
    BY <1>0, <1>1, <2>2, Threads DEF ProcessHello, ProcessBye, ProcessData, KnowConnected,
       Goto, lockVars
  <2>3. CASE HelloCallback(i) \/ ByeCallback(i) \/ ConnectedCallback(i) \/ DataCallback(i)
    BY <1>0, <1>1, <2>3, Threads
    DEF HelloCallback, ByeCallback, ConnectedCallback, DataCallback, Free, Goto, lockVars
  <2> QED
    BY <1>2, <1>3, <1>4, <2>1, <2>2, <2>3, Threads DEF Slave
<1>5. CASE Think \/ Receive
  BY <1>0, <1>1, <1>5, Threads
  DEF Think, ThinkFree, ThinkTimeout, Receive, ReceiveNew, ReceiveKnown, Goto, lockVars
<1>6. CASE MasterWork
  <2>1. CASE LockToFree \/ Deliver \/ FindSlot \/ StopMaster
    BY <1>0, <1>1, <2>1, Threads DEF LockToFree, Deliver, FindSlot, StopMaster, Goto, lockVars
  <2>2. ASSUME NEW i \in Slot, AllocateSlot(i) \/ CannotAllocateSlot(i) PROVE BotsInv'
    BY <1>0, <1>1, <2>2, Threads DEF AllocateSlot, CannotAllocateSlot, Goto
  <2> QED
    BY <1>2, <1>3, <1>6, <2>1, <2>2, Threads DEF MasterWork
<1>7. CASE UserWork \/ StopBegins
  <2>1. CASE StopDisconnects \/ StopNext \/ StopFlags \/ StopSignals \/ StopJoins \/ StopBegins
    BY <1>0, <1>1, <2>1, Threads
    DEF StopDisconnects, StopNext, StopFlags, StopSignals, StopJoins, StopBegins, Goto, lockVars
  <2> QED
    BY <1>2, <1>7, <2>1, Threads DEF UserWork
<1>8. CASE Bots
  BY <1>0, <1>1, <1>8, Threads
  DEF Bots, BotsLock, ReserveClientId, ReturnClientId, BotsInv, Goto, threadVars, lockVars
<1>9. ASSUME NEW i \in Slot, SendDisconnect(i) \/ CountdownEnds(i) \/ Kick(i) \/ KickLocal(i)
      PROVE  BotsInv'
  BY <1>0, <1>1, <1>9, Threads
  DEF SendDisconnect, CountdownEnds, Kick, KickLocal, Free, Goto, threadVars, lockVars
<1>10. CASE UNCHANGED vars
  BY <1>1, <1>10 DEF vars, threadVars, lockVars
<1> QED
  BY <1>4, <1>5, <1>6, <1>7, <1>8, <1>9, <1>10 DEF Next

--------------------------------------------------------------------------------
(* The theorems.                                                                  *)

LEMMA NextKeepsPlayers ==
  IInv /\ BotsInv /\ PlayersInv /\ [Next]_vars => PlayersInv'
<1> SUFFICES ASSUME IInv, BotsInv, PlayersInv, [Next]_vars, Quiet PROVE PlayersInv'
  BY DEF PlayersInv, Quiet
<1>0. PlayersKnown
  BY DEF PlayersKnown
<1>1. ASSUME NEW t \in Thread, NEW i \in Slot, t \in {i, master, user}, Disconnect(t, i) PROVE PlayersInv'
  BY <1>0, <1>1, CallbackKeepsPlayers, FlagKeepsPlayers, SpawnKeepsPlayers DEF Disconnect
<1>2. ASSUME NEW i \in Slot, Slave(i) PROVE PlayersInv'
  <2>1. CASE SlaveStarts(i) \/ SlaveWakes(i) \/ SlaveLoops(i)
    BY <1>0, <2>1, SlaveTurnsKeepPlayers
  <2>2. CASE ProcessHello(i) \/ ProcessBye(i) \/ ProcessData(i) \/ KnowConnected(i)
    BY <1>0, <2>2, HelloKeepsPlayers, ByeKeepsPlayers, DataKeepsPlayers, KnowKeepsPlayers
  <2>3. CASE HelloCallback(i) \/ ByeCallback(i) \/ ConnectedCallback(i) \/ DataCallback(i)
    BY <1>0, <2>3, HelloCallbackKeepsPlayers, ByeCallbackKeepsPlayers, ConnectedKeepsPlayers,
       DataCallbackKeepsPlayers
  <2>4. CASE Disconnect(i, i)
    BY <1>1, <2>4, Threads
  <2>5. CASE JoinDisconnector(i, i) \/ DisconnectorJoined(i, i)
    BY <1>0, <2>5, Threads, JoinKeepsPlayers
  <2>6. CASE FreeSlot(i, i)
    BY <1>0, <2>6, SlaveFreesKeepsPlayers
  <2>7. CASE CountFreed(i)
    BY <1>0, <2>7, ClientsKept, QuietPacketsKeepPlayers DEF CountFreed, lockVars, gameVars
  <2> QED
    BY <1>2, <2>1, <2>2, <2>3, <2>4, <2>5, <2>6, <2>7 DEF Slave
<1>3. CASE Think \/ Receive
  <2>1. CASE Think
    BY <1>0, <2>1, ThinkKeepsPlayers DEF Think
  <2>2. CASE Receive
    BY <1>0, <2>2, MasterTurnsKeepPlayers DEF Receive
  <2> QED
    BY <1>3, <2>1, <2>2
<1>4. CASE MasterWork
  <2>1. CASE LockToFree \/ Deliver \/ FindSlot \/ StopMaster
    BY <1>0, <2>1, MasterTurnsKeepPlayers
  <2>2. ASSUME NEW i \in Slot, AllocateSlot(i) \/ CannotAllocateSlot(i) \/ FreeSlot(master, i)
        PROVE PlayersInv'
    BY <1>0, <2>2, AllocateKeepsPlayers, CannotAllocateKeepsPlayers, MasterFreesKeepsPlayers
  <2>3. ASSUME NEW i \in Slot, JoinDisconnector(master, i) \/ DisconnectorJoined(master, i)
        PROVE PlayersInv'
    BY <1>0, <2>3, Threads, JoinKeepsPlayers
  <2> QED
    BY <1>1, <1>4, <2>1, <2>2, <2>3, Threads DEF MasterWork
<1>5. CASE UserWork \/ StopBegins
  <2>1. at[user] \in {"idle"} \cup DcStates /\ ~MayStop
    BY <1>0, Known DEF Quiet
  <2>2. ~StopBegins /\ ~StopDisconnects /\ ~StopNext /\ ~StopFlags /\ ~StopSignals /\ ~StopJoins
    BY <2>1
    DEF StopBegins, StopDisconnects, StopNext, StopFlags, StopSignals, StopJoins, DcStates
  <2> QED
    BY <1>1, <1>5, <2>2, Threads DEF UserWork
<1>6. CASE Bots
  BY <1>0, <1>6, OthersKeepPlayers, LocalStepsKeepPlayers DEF Bots
<1>7. ASSUME NEW i \in Slot, SendDisconnect(i) \/ CountdownEnds(i) \/ Kick(i) \/ KickLocal(i)
      PROVE  PlayersInv'
  BY <1>0, <1>7, OthersKeepPlayers, KickKeepsPlayers, LocalStepsKeepPlayers
<1>8. CASE UNCHANGED vars
  BY <1>0, <1>8, ClientsKept, OthersCalmStep DEF vars, threadVars, lockVars, gameVars
<1> QED
  BY <1>2, <1>3, <1>4, <1>5, <1>6, <1>7, <1>8 DEF Next

(* Of each slot: when its player is there; of the threads that disconnect players  *)
(* and free slots: what they have found out about them and still holds.            *)
THEOREM PlayersInvariance ==
  Spec => [](IInv /\ BotsInv /\ PlayersInv)
<1>1. Init => BotsInv /\ PlayersInv
  <2> SUFFICES ASSUME Init PROVE BotsInv /\ PlayersInv
    OBVIOUS
  <2>1. /\ at[master] = "idle" /\ at[user] = "idle" /\ at[bots] = "idle"
        /\ \A i \in Slot : at[i] = "start" /\ clientConnection[i] = 0
    BY Threads DEF Init
  <2>2. \A i \in Slot : SlotInv(i)
    BY <2>1, ValueAssumption DEF SlotInv, DcStates, FreeStates
  <2> QED
    BY <2>1, <2>2 DEF BotsInv, PlayersInv, Disconnects, FreesInv, KickInv, DcStates, FreeStates
<1>2. BotsInv /\ PlayersInv /\ IInv /\ [Next]_vars => BotsInv' /\ PlayersInv'
  BY BotsKeepLock, NextKeepsPlayers
<1> QED
  BY <1>1, <1>2, Invariance, PTL DEF Spec

(* A player of the game belongs to the client that has its slot and has completed  *)
(* the handshake, and is gone before the slot is freed (leetnet/server.cpp:371 and *)
(* 1132), whatever kicks, "byes" and timeouts meet; where the server is not        *)
(* stopped and no handshake times out.                                             *)
THEOREM PlayersMatchTheirSlots ==
  Spec => [](Quiet => PlayersMatchSlots)
<1>1. PlayersInv => (Quiet => PlayersMatchSlots)
  BY DEF PlayersInv, SlotInv, PlayersMatchSlots
<1> QED
  BY <1>1, PlayersInvariance, PTL

(* Only a stop or the timeout of a handshake can make the assertion fail that the  *)
(* slot of a new player has none yet (servnet.cpp:3579 and 3585).                  *)
THEOREM SlotsAreClean ==
  Spec => [](Quiet => SlotIsCleanForNewPlayer)
<1>1. Init => (Quiet => SlotIsCleanForNewPlayer)
  BY DEF Init, SlotIsCleanForNewPlayer
<1>2. /\ IInv /\ BotsInv /\ PlayersInv /\ (Quiet => SlotIsCleanForNewPlayer) /\ [Next]_vars
      => (Quiet => SlotIsCleanForNewPlayer)'
  <2> SUFFICES ASSUME IInv, BotsInv, PlayersInv, SlotIsCleanForNewPlayer, Quiet, [Next]_vars
               PROVE  SlotIsCleanForNewPlayer'
    BY DEF Quiet
  <2>1. PlayersKnown
    BY DEF PlayersKnown
  <2>2. ASSUME NEW i \in Slot, ConnectedCallback(i) PROVE SlotIsCleanForNewPlayer'
    BY <2>1, <2>2, Known DEF SlotInv, ConnectedCallback, SlotIsCleanForNewPlayer
  <2>3. CASE ReserveClientId
    <3>1. CASE Vacant = {}
      BY <2>3, <3>1 DEF ReserveClientId, SlotIsCleanForNewPlayer
    <3>2. CASE Vacant # {}
      <4>1. Vacant \in SUBSET Slot
        BY DEF Vacant
      <4>2. Min(Vacant) \in Vacant
        BY <3>2, <4>1, MinOfSlots
      <4>3. clientConnection[Min(Vacant)] = 0
        BY <2>1, <4>2, Known DEF SlotInv, Vacant
      <4> QED
        BY <2>3, <3>2, <4>3 DEF ReserveClientId, SlotIsCleanForNewPlayer
    <3> QED
      BY <3>1, <3>2
  <2>4. ASSUME NEW t \in Thread, NEW i \in Slot, Disconnect(t, i) PROVE SlotIsCleanForNewPlayer'
    BY <2>4
    DEF Disconnect, DisconnectCallback, DisconnectFlag, DisconnectSpawn, SlotIsCleanForNewPlayer
  <2>5. CASE UNCHANGED failed
    BY <2>5 DEF SlotIsCleanForNewPlayer
  <2>6. ASSUME NEW i \in Slot, Slave(i) PROVE SlotIsCleanForNewPlayer'
    <3>1. Disconnect(i, i) \/ ConnectedCallback(i) \/ UNCHANGED failed
      BY <2>6
      DEF Slave, SlaveStarts, SlaveWakes, SlaveLoops, ProcessHello, HelloCallback, ProcessBye,
        ByeCallback, ProcessData, KnowConnected, DataCallback, JoinDisconnector, DisconnectorJoined, FreeSlot, CountFreed
    <3> QED
      BY <2>2, <2>4, <2>5, <3>1, Threads
  <2>7. CASE Think \/ Receive
    BY <2>5, <2>7 DEF Think, ThinkFree, ThinkTimeout, Receive, ReceiveNew, ReceiveKnown
  <2>8. CASE MasterWork
    <3>1. (\E i \in Slot : Disconnect(master, i)) \/ UNCHANGED failed
      BY <2>8 DEF MasterWork, LockToFree, Deliver, FindSlot, StopMaster, AllocateSlot,
        CannotAllocateSlot, JoinDisconnector, DisconnectorJoined, FreeSlot
    <3> QED
      BY <2>4, <2>5, <3>1, Threads
  <2>9. CASE UserWork \/ StopBegins
    <3>1. (\E i \in Slot : Disconnect(user, i)) \/ UNCHANGED failed
      BY <2>9
      DEF UserWork, StopBegins, StopDisconnects, StopNext, StopFlags, StopSignals, StopJoins
    <3> QED
      BY <2>4, <2>5, <3>1, Threads
  <2>10. CASE Bots
    BY <2>3, <2>5, <2>10 DEF Bots, BotsLock, ReturnClientId
  <2>11. ASSUME NEW i \in Slot, SendDisconnect(i) \/ CountdownEnds(i) \/ Kick(i) \/ KickLocal(i)
         PROVE  SlotIsCleanForNewPlayer'
    BY <2>5, <2>11 DEF SendDisconnect, CountdownEnds, Kick, KickLocal
  <2>12. CASE UNCHANGED vars
    BY <2>5, <2>12 DEF vars
  <2> QED
    BY <2>6, <2>7, <2>8, <2>9, <2>10, <2>11, <2>12 DEF Next
<1> QED
  BY <1>1, <1>2, PlayersInvariance, PTL DEF Spec
================================================================================
