------------------------------ MODULE LeetClient ------------------------------
(* The client side of a connection: client_ci (leetnet/client.cpp) with its       *)
(* threads, and the main thread of the game that calls it (clientbase.cpp,        *)
(* guiclient.cpp).  Every connection attempt has a socket, a reader thread and a  *)
(* detached connector thread of its own; a disconnector thread lives as long as   *)
(* the disconnect() that waits for it.  What the threads report goes to the main  *)
(* thread through messageQueue.                                                   *)
(*                                                                                *)
(* The threads share their state under no lock but readerThreadManipulationMutex:  *)
(* a step ends wherever another thread can come between, and any thread may take   *)
(* the next one.                                                                  *)
EXTENDS Integers, Sequences, FiniteSets

CONSTANTS
  MaxAttempts,   \* a bound on the connection attempts
  MaxCommands,   \* and on the player's commands
  ConnectTries,  \* packets sent by an attempt
  DisconnectTries,
  Nobody

ASSUME BoundsAssumption ==
  /\ {MaxAttempts, ConnectTries, DisconnectTries} \subseteq Nat \ {0}
  /\ MaxCommands \in Nat

Attempt == 1 .. MaxAttempts
Reader(a) == <<"reader", a>>
Connector(a) == <<"connector", a>>
Main == <<"main", 0>>
Disconnector == <<"disconnector", 0>>
Thread == {Main, Disconnector} \cup {Reader(a) : a \in Attempt} \cup {Connector(a) : a \in Attempt}

ASSUME NobodyAssumption == Nobody \notin Thread

VARIABLES
  (* client_ci *)
  want_connect,
  connect_status,              \* 0 disconnected, 1 disconnecting, 2 connecting, 3 connected
  tries_left, started_disconnection, connect_threads_running,
  thread_read, running,        \* the reader started last; whether it is to be joined
  quit_reader_thread,
  readerThreadManipulationMutex,
  (* the threads *)
  pc,
  nice,                        \* those in nice_disconnect_done
  about,                       \* the attempt whose end or acceptance a thread has met
  loaded,                      \* connect_threads_running as a thread has read it to change it
  old_status,                  \* connect_status as start_connect has found it
  detached,                    \* the readers that have detached themselves
  (* the network *)
  socket,                      \* the attempt whose socket is open, or 0
  net,                         \* the kinds of packets under way to it
  accepted,                    \* the server has it as a client
  verdict,                     \* how the server answers this attempt
  (* the game *)
  doing,                       \* the command of the player that the main thread carries out
  messageQueue,
  connected, attempt, acts,
  (* history *)
  collided,                    \* see Collides
  miscounted                   \* two threads have changed connect_threads_running at a time

status == <<want_connect, connect_status>>
sequence == <<tries_left, started_disconnection, connect_threads_running>>
reader == <<thread_read, running, quit_reader_thread, readerThreadManipulationMutex>>
private == <<nice, about, loaded, old_status, detached>>
network == <<socket, net, accepted, verdict>>
game == <<doing, messageQueue, connected, attempt, acts>>
history == <<collided, miscounted>>
vars == <<status, sequence, reader, pc, private, network, game, history>>

At(t, label) == pc[t] = label
Goto(t, label) == pc' = [pc EXCEPT ![t] = label]
Moves(t, label) ==
  Goto(t, label) /\ UNCHANGED <<status, sequence, reader, private, network, game, history>>
Meets(t, a) == about' = [about EXCEPT ![t] = a]
Load(t, value) == loaded' = [loaded EXCEPT ![t] = value]

(* connectionCallback, which is connection_update of the game.                    *)
Report(t, code) ==
  /\ messageQueue' = Append(messageQueue, [code |-> code, attempt |-> about[t]])
  /\ about' = [about EXCEPT ![t] = 0]
  /\ UNCHANGED <<doing, attempt, acts, connected>>

ResetState == socket' = 0 /\ net' = {} /\ accepted' = FALSE /\ verdict' = "none"

(* connect_command and disconnect_command hold frameMutex from end to end; stop    *)
(* does not lock it.                                                              *)
FrameMutexLocked == doing \in {"connect", "disconnect"}
Unlock == doing' = "nothing"

(* One thread decides on the connection by what another one has changed since, or  *)
(* works on it while the main thread sets up the next.  Nothing ends here: the     *)
(* flag tells the executions in which it has happened from the others.             *)
Collides(here) == collided' = (collided \/ here) /\ UNCHANGED miscounted

Starting ==
  pc[Main] \in {"connect", "disconnecting?", "wait", "start", "clear", "open", "failed",
               "startReader", "startConnector", "countConnector"}

(* Threads that work on a connection other than the one to be set up.              *)
Lingering(t) ==
  \/ t[1] = "reader" /\ pc[t] # "ended"
  \/ t[1] = "connector" /\ pc[t] \in {"stop", "lock", "join", "reset", "forget", "unreachable"}

Init ==
  /\ want_connect = FALSE /\ connect_status = 0
  /\ tries_left = 0 /\ started_disconnection = FALSE /\ connect_threads_running = 0
  /\ thread_read = 0 /\ running = FALSE /\ quit_reader_thread = FALSE
  /\ readerThreadManipulationMutex = Nobody
  /\ pc = [t \in Thread |-> IF t = Main THEN "idle" ELSE "ended"]
  /\ old_status = 0 /\ nice = {} /\ detached = {}
  /\ about = [t \in Thread |-> 0] /\ loaded = [t \in Thread |-> 0]
  /\ socket = 0 /\ net = {} /\ accepted = FALSE /\ verdict = "none"
  /\ doing = "nothing" /\ connected = FALSE /\ attempt = 0 /\ acts = 0
  /\ messageQueue = <<>>
  /\ collided = FALSE /\ miscounted = FALSE

--------------------------------------------------------------------------------
(* Ending a connection: stop_connect and nice_disconnect_done, in any thread.      *)

(* Where a thread goes on after either.                                           *)
After(t) ==
  IF t[1] = "main" THEN "return" ELSE IF t[1] = "disconnector" THEN "ended"
  ELSE IF t[1] = "reader" THEN "loop" ELSE "unreachable"

(* stop_connect sets the status first,                                            *)
Stop(t) ==
  /\ At(t, "stop") /\ Goto(t, "lock")
  /\ connect_status' = 0
  /\ Collides(t[1] # "reader" /\ connect_status # 2)
  /\ UNCHANGED <<want_connect, sequence, reader, private, network, game>>

(* Mutant: the end of the connection is not reported.                              *)
QuietEnd(t) ==
  /\ At(t, "done") /\ Goto(t, "lock") /\ nice' = nice \cup {t}
  /\ Meets(t, 0)
  /\ UNCHANGED <<status, sequence, reader, loaded, old_status, detached, network, game, history>>

(* nice_disconnect_done tells the game first.                                     *)
NiceDisconnectDone(t) ==
  /\ At(t, "done") /\ Goto(t, "lock") /\ nice' = nice \cup {t}
  /\ Report(t, 1)
  /\ UNCHANGED <<status, sequence, reader, loaded, old_status, detached, network, history>>

(* Mutant: the reader is not waited for.                                          *)
NeverJoin(t) == "reset"

(* Thread::join: a reader that ends the connection itself is only detached.       *)
Join(t) == IF t = Reader(thread_read) THEN "reset" ELSE "join"

(* nice_disconnect_done sets the status last.                                     *)
Leave(t) == IF t \in nice THEN "zero" ELSE "forget"

(* Mutant: the mutex is forgotten.                                                *)
Regardless == TRUE

MutexFree == readerThreadManipulationMutex = Nobody

LockReader(t) ==
  /\ At(t, "lock") /\ MutexFree
  /\ readerThreadManipulationMutex' = t
  /\ running' = FALSE /\ quit_reader_thread' = (quit_reader_thread \/ running)
  /\ Goto(t, IF running THEN Join(t) ELSE Leave(t))
  /\ detached' = (detached \cup {a \in Attempt : running /\ t = Reader(a) /\ thread_read = a})
  /\ UNCHANGED <<status, sequence, thread_read, nice, about, loaded, old_status, network, game,
                 history>>

JoinReader(t) ==
  /\ At(t, "join") /\ pc[Reader(thread_read)] = "ended"
  /\ Moves(t, "reset")

Reset(t) ==
  /\ At(t, "reset")
  /\ ResetState
  /\ Goto(t, Leave(t))
  /\ UNCHANGED <<status, sequence, reader, private, game, history>>

SetDisconnected(t) ==
  /\ At(t, "zero") /\ Goto(t, "forget") /\ nice' = nice \ {t}
  /\ connect_status' = 0
  /\ UNCHANGED <<want_connect, sequence, reader, about, loaded, old_status, detached, network,
                 game, history>>

UnlockReader(t) ==
  /\ At(t, "forget") /\ Goto(t, After(t))
  /\ want_connect' = FALSE
  /\ readerThreadManipulationMutex' = Nobody
  /\ UNCHANGED <<connect_status, sequence, thread_read, running, quit_reader_thread, private,
                 network, game, history>>

--------------------------------------------------------------------------------
(* The main thread.                                                               *)

(* handlePendingThreadMessages: client_connected, disconnected_base, or the       *)
(* reason of a failure on the screen.  The last of the first two is what counts.  *)
LastNews(code) ==
  \E i \in DOMAIN messageQueue :
    /\ messageQueue[i].code = code
    /\ \A j \in i + 1 .. Len(messageQueue) : messageQueue[j].code \notin {0, 1}

KnowsConnected == LastNews(0) \/ (connected /\ ~LastNews(1))

HandleMessages == connected' = KnowsConnected /\ messageQueue' = <<>>

HandlePendingThreadMessages ==
  /\ At(Main, "idle") /\ messageQueue # <<>>
  /\ HandleMessages
  /\ UNCHANGED <<status, sequence, reader, pc, private, network, doing, attempt, acts, history>>

(* The player connects, disconnects or closes the program: disconnect comes first.*)
Command(what) ==
  /\ At(Main, "idle") /\ Goto(Main, "disconnect")
  /\ attempt + acts < MaxCommands
  /\ doing' = what
  /\ UNCHANGED <<status, sequence, reader, private, network, attempt, messageQueue, connected,
                 history>>

ConnectCommand == attempt < MaxAttempts /\ Command("connect") /\ UNCHANGED acts
DisconnectCommand == Command("disconnect") /\ acts' = acts + 1
Exit == Command("exit") /\ acts' = acts + 1

Disconnect ==
  /\ At(Main, "disconnect")
  /\ Goto(Main, IF want_connect THEN "connected?" ELSE "return")
  /\ want_connect' = FALSE
  /\ UNCHANGED <<connect_status, sequence, reader, private, network, game, history>>

IsConnected ==
  /\ At(Main, "connected?")
  /\ Moves(Main, IF connect_status = 3 THEN "startDisconnect" ELSE "connecting?")

StartDisconnect ==
  /\ At(Main, "startDisconnect") /\ Goto(Main, "startDisconnector")
  /\ started_disconnection' = TRUE
  /\ UNCHANGED <<status, tries_left, connect_threads_running, reader, private, network, game,
                 history>>

StartDisconnector ==
  /\ At(Main, "startDisconnector")
  /\ connect_status' = 1 /\ tries_left' = DisconnectTries
  /\ pc' = [pc EXCEPT ![Main] = "joinDisconnector", ![Disconnector] = "try"]
  /\ Meets(Disconnector, attempt)
  /\ UNCHANGED <<want_connect, started_disconnection, connect_threads_running, reader, nice,
                 loaded, old_status, detached, network, game, history>>

(* The status may have become 3 meanwhile: then nothing is done.                  *)
GiveUpConnecting ==
  /\ At(Main, "connecting?")
  /\ Goto(Main, IF connect_status = 2 THEN "stop" ELSE "return")
  /\ Collides(connect_status = 3)
  /\ UNCHANGED <<status, sequence, reader, private, network, game>>

JoinDisconnector ==
  /\ At(Main, "joinDisconnector") /\ pc[Disconnector] = "ended"
  /\ Moves(Main, "return")

ReturnFromDisconnect ==
  /\ At(Main, "return") /\ doing # "connect"
  /\ Goto(Main, IF doing = "exit" THEN "exit" ELSE "idle")
  /\ Unlock
  /\ UNCHANGED <<status, sequence, reader, private, network, attempt, acts, messageQueue,
                 connected, history>>

(* Mutant: the connectors are not waited for.                                      *)
Hurry == TRUE

NoConnectors == connect_threads_running = 0

(* ~client_ci waits for the connectors and deletes the station.                   *)
Destroy ==
  /\ At(Main, "exit") /\ NoConnectors
  /\ Moves(Main, "destroyed")

(* The end of prepareForConnect, and connect up to its test of the status.        *)
Connect ==
  /\ At(Main, "return") /\ doing = "connect"
  /\ HandleMessages
  /\ attempt' = attempt + 1
  /\ want_connect' = TRUE
  /\ IF want_connect THEN Goto(Main, "idle") /\ Unlock
     ELSE Goto(Main, "connect") /\ UNCHANGED doing
  /\ Collides(\E t \in Thread : Lingering(t))
  /\ UNCHANGED <<connect_status, sequence, reader, private, network, acts>>

(* It starts when disconnected, waits for a disconnection to end, and does nothing *)
(* else.                                                                          *)
TestStatus ==
  /\ At(Main, "connect")
  /\ Moves(Main, IF connect_status = 0 THEN "start" ELSE "disconnecting?")

TestDisconnecting ==
  /\ At(Main, "disconnecting?")
  /\ IF connect_status = 1 THEN Goto(Main, "wait") /\ UNCHANGED doing
     ELSE Goto(Main, "idle") /\ Unlock
  /\ UNCHANGED <<status, sequence, reader, private, network, attempt, acts, messageQueue,
                 connected, history>>

StartConnect ==
  /\ pc[Main] \in {"start", "wait"} /\ (At(Main, "wait") => connect_status # 1)
  /\ Goto(Main, "clear")
  /\ connect_status' = 2 /\ old_status' = connect_status
  /\ UNCHANGED <<want_connect, sequence, reader, nice, about, loaded, detached, network, game,
                 history>>

ClearStation ==
  /\ At(Main, "clear") /\ Goto(Main, "open")
  /\ ResetState
  /\ UNCHANGED <<status, sequence, reader, private, game, history>>

OpenSocket ==
  /\ At(Main, "open") /\ Goto(Main, "startReader")
  /\ socket' = attempt
  /\ old_status' = 0
  /\ UNCHANGED <<status, sequence, reader, nice, about, loaded, detached, net, accepted, verdict,
                 game, history>>

CannotOpenSocket ==
  /\ At(Main, "open") /\ Goto(Main, "failed")
  /\ connect_status' = old_status /\ old_status' = 0
  /\ UNCHANGED <<want_connect, sequence, reader, nice, about, loaded, detached, network, game,
                 history>>

TellSocketProblem ==
  /\ At(Main, "failed") /\ Goto(Main, "idle")
  /\ messageQueue' = Append(messageQueue, [code |-> 5, attempt |-> attempt])
  /\ Unlock
  /\ UNCHANGED <<status, sequence, reader, private, network, attempt, acts, connected, history>>

(* Mutant: the old reader is not waited for.                                       *)
StartReaderAtOnce ==
  /\ At(Main, "startReader") /\ MutexFree
  /\ quit_reader_thread' = FALSE /\ running' = TRUE /\ thread_read' = attempt
  /\ pc' = [pc EXCEPT ![Main] = "startConnector", ![Reader(attempt)] = "read"]
  /\ UNCHANGED <<status, sequence, readerThreadManipulationMutex, private, network, game,
                 history>>

(* The old reader must have been joined or detached.                              *)
StartReader ==
  /\ At(Main, "startReader") /\ MutexFree /\ ~running
  /\ quit_reader_thread' = FALSE /\ running' = TRUE /\ thread_read' = attempt
  /\ pc' = [pc EXCEPT ![Main] = "startConnector", ![Reader(attempt)] = "read"]
  /\ UNCHANGED <<status, sequence, readerThreadManipulationMutex, private, network, game,
                 history>>

(* ++connect_threads_running and the --connect_threads_running of the connectors    *)
(* read and write it in two steps.                                                *)
Changing(t) == pc[t] \in {"countConnector", "uncount"}

ReadCount(t) ==
  /\ Load(t, connect_threads_running)
  /\ miscounted' = (miscounted \/ \E u \in Thread : Changing(u))
  /\ UNCHANGED collided

StartConnector ==
  /\ At(Main, "startConnector") /\ Goto(Main, "countConnector")
  /\ started_disconnection' = FALSE /\ tries_left' = ConnectTries
  /\ ReadCount(Main)
  /\ UNCHANGED <<status, connect_threads_running, reader, nice, about, old_status, detached,
                 network, game>>

CountConnector ==
  /\ At(Main, "countConnector")
  /\ connect_threads_running' = loaded[Main] + 1
  /\ Load(Main, 0)
  /\ pc' = [pc EXCEPT ![Main] = "idle", ![Connector(attempt)] = "try"]
  /\ Unlock
  /\ UNCHANGED <<status, tries_left, started_disconnection, reader, nice, about, old_status,
                 detached, network, attempt, acts, messageQueue, connected, history>>

--------------------------------------------------------------------------------
(* The connectors, the disconnector and the server.                               *)

OutOfTries == tries_left <= 0

(* connect_try: unless the attempt is over                                        *)
ConnectTry(a) ==
  /\ At(Connector(a), "try")
  /\ Moves(Connector(a), IF connect_status = 2 THEN "count" ELSE "leave")

(* the connector gives it up,                                                     *)
TimeOut(a) ==
  /\ At(Connector(a), "count") /\ OutOfTries
  /\ tries_left' = tries_left - 1
  /\ Goto(Connector(a), "stop") /\ Meets(Connector(a), attempt)
  /\ Collides(Starting)
  /\ UNCHANGED <<status, started_disconnection, connect_threads_running, reader, nice, loaded,
                 old_status, detached, network, game>>

(* The server has a client when it has accepted it, and sends it data (ReceiveData).*)
Answer(kind, has) == net' = net \cup {kind} /\ accepted' = has /\ UNCHANGED socket

(* or sends a packet that the server answers, if it arrives.  A server gives the  *)
(* next try of an attempt the same answer.                                        *)
SendConnect(a) ==
  /\ At(Connector(a), "count") /\ ~OutOfTries
  /\ tries_left' = tries_left - 1
  /\ Goto(Connector(a), "try")
  /\ \/ UNCHANGED network
     \/ /\ socket # 0 /\ verdict' \in {"accepted", "rejected"} /\ verdict \in {"none", verdict'}
        /\ Answer(verdict', verdict' = "accepted")
  /\ UNCHANGED <<status, started_disconnection, connect_threads_running, reader, private, game,
                 history>>

NoResponse(a) ==
  /\ At(Connector(a), "unreachable") /\ Goto(Connector(a), "leave")
  /\ Report(Connector(a), 3)
  /\ UNCHANGED <<status, sequence, reader, nice, loaded, old_status, detached, network, history>>

ConnectorLeaves(a) ==
  /\ At(Connector(a), "leave") /\ Goto(Connector(a), "uncount")
  /\ ReadCount(Connector(a))
  /\ UNCHANGED <<status, sequence, reader, nice, about, old_status, detached, network, game>>

ConnectorEnds(a) ==
  /\ At(Connector(a), "uncount") /\ Goto(Connector(a), "ended")
  /\ connect_threads_running' = loaded[Connector(a)] - 1
  /\ Load(Connector(a), 0)
  /\ UNCHANGED <<status, tries_left, started_disconnection, reader, nice, about, old_status,
                 detached, network, game, history>>

(* disconnect_try: the last packet is not waited for.                             *)
DisconnectTry ==
  /\ At(Disconnector, "try")
  /\ Goto(Disconnector, IF connect_status # 1 \/ tries_left <= 1 THEN "done" ELSE "try")
  /\ tries_left' = IF connect_status = 1 THEN tries_left - 1 ELSE tries_left
  /\ \/ UNCHANGED network
     \/ /\ connect_status = 1 /\ ~OutOfTries
        /\ accepted /\ Answer("disconnected", FALSE) /\ UNCHANGED verdict
  /\ UNCHANGED <<status, started_disconnection, connect_threads_running, reader, private, game,
                 history>>

(* The server ends the connection for its own reasons.                            *)
ServerEnds ==
  /\ accepted /\ Answer("disconnected", FALSE)
  /\ UNCHANGED <<verdict, status, sequence, reader, pc, private, game, history>>

--------------------------------------------------------------------------------
(* The readers: thread_reader_f and process_incoming_datagram.                    *)

(* A reader looks for the order to quit before every packet.                      *)
QuitReader(a) ==
  /\ pc[Reader(a)] \in {"read", "loop"} /\ quit_reader_thread
  /\ Moves(Reader(a), "ended")

ReadOn(a) ==
  /\ At(Reader(a), "loop") /\ ~quit_reader_thread
  /\ Moves(Reader(a), "read")

Receive(a) ==
  /\ At(Reader(a), "read")
  /\ \E kind \in net : net' = net \ {kind} /\ Goto(Reader(a), kind)
  /\ Meets(Reader(a), socket)
  /\ Collides(Starting)
  /\ UNCHANGED <<status, sequence, reader, nice, loaded, old_status, detached, socket, accepted,
                 verdict, game>>

(* The status of an accepted connection changes after the callback.               *)
ReceiveAccepted(a) ==
  /\ At(Reader(a), "accepted")
  /\ IF connect_status = 3 THEN Goto(Reader(a), "loop") /\ Meets(Reader(a), 0) /\ UNCHANGED game
     ELSE Goto(Reader(a), "accept") /\ Report(Reader(a), 0)
  /\ UNCHANGED <<status, sequence, reader, nice, loaded, old_status, detached, network, history>>

Accept(a) ==
  /\ At(Reader(a), "accept") /\ Goto(Reader(a), "loop")
  /\ connect_status' = 3
  /\ Collides(connect_status # 2)
  /\ UNCHANGED <<want_connect, sequence, reader, private, network, game>>

ReceiveRejected(a) ==
  /\ At(Reader(a), "rejected") /\ Goto(Reader(a), "stop")
  /\ IF connect_status = 2 THEN Report(Reader(a), 2) ELSE Meets(Reader(a), 0) /\ UNCHANGED game
  /\ UNCHANGED <<status, sequence, reader, nice, loaded, old_status, detached, network, history>>

ReceiveDisconnected(a) ==
  /\ At(Reader(a), "disconnected") /\ Goto(Reader(a), "reply")
  /\ connect_status' = 0
  /\ UNCHANGED <<want_connect, sequence, reader, private, network, game, history>>

Reply(a) ==
  /\ At(Reader(a), "reply")
  /\ IF started_disconnection THEN Goto(Reader(a), "loop") /\ Meets(Reader(a), 0)
     ELSE Goto(Reader(a), "done") /\ UNCHANGED about
  /\ UNCHANGED <<status, sequence, reader, nice, loaded, old_status, detached, network, game,
                 history>>

(* Data are for the game, unless it is disconnecting,                             *)
ReceiveData(a) ==
  /\ At(Reader(a), "read") /\ accepted
  /\ want_connect /\ Moves(Reader(a), "process")

(* where process_incoming_data locks frameMutex.                                  *)
ProcessIncomingData(a) ==
  /\ At(Reader(a), "process") /\ ~FrameMutexLocked
  /\ Moves(Reader(a), "loop")

--------------------------------------------------------------------------------
Player == ConnectCommand \/ DisconnectCommand \/ Exit

EndConnection(t) ==
  Stop(t) \/ NiceDisconnectDone(t) \/ LockReader(t) \/ JoinReader(t) \/ Reset(t)
          \/ SetDisconnected(t) \/ UnlockReader(t)

MainThread ==
  \/ HandlePendingThreadMessages
  \/ Disconnect \/ IsConnected \/ GiveUpConnecting
  \/ StartDisconnect \/ StartDisconnector \/ JoinDisconnector
  \/ ReturnFromDisconnect \/ Destroy
  \/ Connect \/ TestStatus \/ TestDisconnecting
  \/ StartConnect \/ ClearStation
  \/ OpenSocket \/ CannotOpenSocket \/ TellSocketProblem
  \/ StartReader \/ StartConnector \/ CountConnector
  \/ EndConnection(Main)

ReaderThread(a) ==
  \/ QuitReader(a) \/ ReadOn(a) \/ Receive(a)
  \/ ReceiveAccepted(a) \/ Accept(a) \/ ReceiveRejected(a)
  \/ ReceiveDisconnected(a) \/ Reply(a)
  \/ ReceiveData(a) \/ ProcessIncomingData(a)
  \/ EndConnection(Reader(a))

ConnectorThread(a) ==
  \/ ConnectTry(a) \/ TimeOut(a) \/ SendConnect(a) \/ NoResponse(a)
  \/ ConnectorLeaves(a) \/ ConnectorEnds(a)
  \/ EndConnection(Connector(a))

DisconnectorThread == DisconnectTry \/ EndConnection(Disconnector)

Next ==
  \/ Player \/ MainThread \/ DisconnectorThread \/ ServerEnds
  \/ \E a \in Attempt : ReaderThread(a) \/ ConnectorThread(a)

(* The threads go on; the player, the server and the network may not.             *)
Fairness ==
  /\ WF_vars(MainThread) /\ WF_vars(DisconnectorThread)
  /\ \A a \in Attempt : WF_vars(ReaderThread(a)) /\ WF_vars(ConnectorThread(a))

Spec == Init /\ [][Next]_vars /\ Fairness

--------------------------------------------------------------------------------
Label ==
  {"stop", "done", "lock", "join", "reset", "zero", "forget", "ended"} \cup
  {"idle", "disconnect", "connected?", "connecting?", "startDisconnect", "startDisconnector",
   "joinDisconnector", "return", "exit", "destroyed"} \cup
  {"connect", "disconnecting?", "wait", "start", "clear", "open", "failed", "startReader",
   "startConnector", "countConnector"} \cup
  {"try", "count", "unreachable", "leave", "uncount"} \cup
  {"read", "loop", "accepted", "accept", "rejected", "disconnected", "reply", "process"}

LabelsOK == pc \in [Thread -> Label]

ClientOK ==
  /\ want_connect \in BOOLEAN /\ connect_status \in 0 .. 3
  /\ tries_left \in Int /\ started_disconnection \in BOOLEAN /\ connect_threads_running \in Int
  /\ thread_read \in 0 .. MaxAttempts /\ running \in BOOLEAN /\ quit_reader_thread \in BOOLEAN
  /\ readerThreadManipulationMutex \in Thread \cup {Nobody}
  /\ collided \in BOOLEAN /\ miscounted \in BOOLEAN

PrivateOK ==
  /\ nice \subseteq Thread /\ detached \subseteq Attempt
  /\ about \in [Thread -> 0 .. MaxAttempts] /\ loaded \in [Thread -> Int]
  /\ old_status \in 0 .. 3

NetworkOK ==
  /\ socket \in 0 .. MaxAttempts /\ net \subseteq {"accepted", "rejected", "disconnected"}
  /\ accepted \in BOOLEAN /\ verdict \in {"none", "accepted", "rejected"}

GameOK ==
  /\ doing \in {"nothing", "connect", "disconnect", "exit"} /\ connected \in BOOLEAN
  /\ messageQueue \in Seq([code : 0 .. 5, attempt : 0 .. MaxAttempts])
  /\ attempt \in 0 .. MaxAttempts /\ acts \in Nat

StateOK == ClientOK /\ PrivateOK /\ NetworkOK /\ GameOK

TypeOK == LabelsOK /\ StateOK

(* A reader that has not ended is the one that the next end of a connection joins,   *)
(* or is being joined, or has detached itself: none is forgotten, although every    *)
(* thread may end the connection and start_connect waits for isRunning() only,      *)
(* which says nothing of a reader that is just being joined.                       *)
ReadersAreJoined ==
  \A a \in Attempt : pc[Reader(a)] # "ended" =>
    a \in detached \/ (a = thread_read /\ (running \/ \E t \in Thread : pc[t] = "join"))

(* A thread that joins the reader has told it to quit, the reader has not detached *)
(* itself, and no other thread will join it: the assertions of Thread::join and     *)
(* the rules of pthread_join hold, and nothing revives a reader that is waited for. *)
JoinsAreSound ==
  \A t \in Thread : pc[t] = "join" =>
    /\ quit_reader_thread /\ ~running
    /\ thread_read \notin detached /\ t # Reader(thread_read)
    /\ \A u \in Thread : pc[u] = "join" => u = t

Ended(ts) == \A t \in ts : pc[t] = "ended"

(* The readers wait for packets, the others have ended, all messages are handled.   *)
AtRest ==
  /\ pc[Main] = "idle" /\ messageQueue = <<>>
  /\ \A t \in Thread \ {Main} : pc[t] \in {"ended", "read"}

(* Unless threads have collided, at rest the game believes to be connected exactly  *)
(* if client_ci is, which has a socket then, and neither socket nor threads when it  *)
(* is not; whichever side ended the connection before.                            *)
GameKnows ==
  AtRest /\ ~collided =>
    /\ connected = (connect_status = 3)
    /\ connect_status = 3 => socket # 0
    /\ connect_status = 0 => socket = 0 /\ Ended(Thread \ {Main})

Connectors == {a \in Attempt : pc[Connector(a)] # "ended"}

(* The destructor deletes the station only after all connectors have ended, unless  *)
(* two threads have changed their number at a time.                               *)
ConnectorsAreWaitedFor == pc[Main] = "destroyed" /\ ~miscounted => Connectors = {}

--------------------------------------------------------------------------------
(* What the comments and assertions of the code say, and what does not hold.        *)

(* client.cpp:570 and 648, "stop connect - also quits reader thread": a reader that  *)
(* has ended the connection reads no further packet.                              *)
DetachedReadersQuit == \A a \in detached : pc[Reader(a)] # "read"

(* clientbase.cpp:361: the main thread does not see the end of an old connection     *)
(* after it has started a new one.                                                *)
OldEndsAreGone ==
  pc[Main] = "idle" =>
    \A i \in DOMAIN messageQueue : messageQueue[i].code = 1 => messageQueue[i].attempt = attempt

(* client.cpp:494, "disconnected state -- THIS MUST BE THE FIRST THING", and 506,     *)
(* "delete station -- CLOSES the socket": a client without a socket is disconnected. *)
ConnectedHasSocket == AtRest /\ connect_status = 3 => socket # 0

(* client.cpp:230 and guiclient.cpp:4117: an attempt that is given up, even if it is  *)
(* accepted at that moment, ends.                                                 *)
Cancelled == AtRest /\ ~want_connect => connect_status = 0

(* thread.h:36, ~Thread() { nAssert(!running); } of thread_read in ~client_ci.       *)
ThreadsAreJoined == pc[Main] = "destroyed" => ~running

(* client.cpp:570 and 648 again: a reader that runs stop_connect ends.              *)
StopQuitsReader == \A a \in Attempt : pc[Reader(a)] = "stop" ~> pc[Reader(a)] = "ended"

(* clientbase.cpp:247, "disconnect the client here": disconnect_command returns,     *)
(* unless by the circle that StopQuitsReader meets.                               *)
DisconnectEnds == doing = "disconnect" ~> doing = "nothing" \/ \E a \in Attempt : pc[Reader(a)] = "lock"
--------------------------------------------------------------------------------
(* The inductive invariant.                                                        *)

Holding == {"join", "reset", "zero", "forget"}

(* Whoever works on the reader has locked the mutex.                               *)
MutexInv ==
  \A t \in Thread : pc[t] \in Holding <=> readerThreadManipulationMutex = t

(* A reader that has not detached itself is running in the sense of Thread, or is    *)
(* being joined.                                                                   *)
ReaderInv ==
  /\ \A a \in Attempt \ detached : pc[Reader(a)] # "ended" =>
       a = thread_read /\ (running \/ \E t \in Thread : pc[t] = "join")
  /\ running => thread_read \in Attempt \ detached
  /\ \A t \in Thread : pc[t] = "join" =>
       quit_reader_thread /\ ~running /\ thread_read \in Attempt \ detached /\ t # Reader(thread_read)

Preparing ==
  pc[Main] \in {"connect", "disconnecting?", "wait", "start", "clear", "open", "startReader"}

(* The threads of an attempt start once.                                           *)
AttemptInv ==
  /\ \A a \in Attempt : a > attempt \/ (a = attempt /\ Preparing) =>
       pc[Reader(a)] = "ended" /\ a \notin detached
  /\ \A a \in Attempt : a > attempt \/ (a = attempt /\ Starting) => pc[Connector(a)] = "ended"
  /\ Starting => attempt \in Attempt
  /\ doing = "connect" => attempt < MaxAttempts \/ Starting

(* The disconnector lives as long as the disconnect() that waits for it.           *)
DisconnectorInv == pc[Disconnector] # "ended" => pc[Main] = "joinDisconnector"

CountInv ==
  ~miscounted =>
    /\ connect_threads_running = Cardinality(Connectors)
    /\ \A t \in Thread : Changing(t) => loaded[t] = connect_threads_running
    /\ \A t \in Thread, u \in Thread : Changing(t) /\ Changing(u) => t = u
    /\ pc[Main] = "destroyed" => Connectors = {}

ThreadsInv == MutexInv /\ ReaderInv /\ AttemptInv /\ DisconnectorInv /\ CountInv

IInv == TypeOK /\ ThreadsInv
================================================================================
