------------------------------- MODULE MapChange -------------------------------
(* A map change, from server_next_map (servnet.cpp) to the first frame that the    *)
(* player sees of the new map: the server counts the readies it waits for, the     *)
(* client (clientbase.cpp, guiclient.cpp) loads the map or downloads it.           *)
(*                                                                                *)
(* The client has two threads.  Its network thread handles what the server sends,  *)
(* under frameMutex; its main thread handles the messages that the network thread  *)
(* leaves for it, under frameMutex too, and sends the readies, under no mutex.     *)
(* Reliable messages are not lost or reordered (see FifoChannel); frames may be    *)
(* lost, overtake messages, and carry the messages sent before them.               *)
EXTENDS Integers, FiniteSets, SequencesExt

CONSTANTS
  Map, None,
  InstalledMaps,   \* the maps that the client has from the beginning
  Chunks,          \* the length of a map file in chunks
  MaxChanges,      \* bounds on the server's map changes and the client's sessions
  MaxSessions

ASSUME MapsAssumption ==
  InstalledMaps \subseteq Map /\ None \notin Map \cup Nat \cup [map : Map, dp : Nat]
ASSUME BoundsAssumption == Chunks \in Nat \ {0} /\ MaxChanges \in Nat /\ MaxSessions \in Nat

VARIABLES
  (* the server *)
  map,              \* what it plays
  gameover,
  awaiting_client_readies,
  fileTransfer,     \* None or the map it serves, with the number dp of chunks sent
  (* the connection *)
  up,
  s2c, c2s,         \* messages under way; s2c with the frames between them
  (* the client's network thread *)
  connected,
  map_ready, loaded,
  downloads,        \* the maps to download; the first one is active if saved >= 0
  saved,            \* the number of chunks in its file, -1 before it is requested
  disk,             \* the maps whose files are complete
  increment,        \* clientReadiesWaiting as read by an increment under way, or None
  (* the client's main thread *)
  messageQueue,
  servermap,
  clientReadiesWaiting,
  decrement,        \* clientReadiesWaiting as read by a decrement under way, or None
  (* history and bounds *)
  raced,            \* an increment and a decrement have met
  failed,           \* the error that made a side give up the connection
  changes, sessions

server == <<map, gameover, awaiting_client_readies, fileTransfer>>
file == <<downloads, saved, disk>>
client == <<connected, map_ready, loaded, servermap>>
counter == <<clientReadiesWaiting, increment, decrement, raced>>
history == <<failed, changes, sessions>>
vars == <<server, up, s2c, c2s, client, file, counter, messageQueue, history>>

MapChange(m) == [type |-> "map_change", map |-> m]
Chunk(m, n) == [type |-> "file_download", map |-> m, chunk |-> n, last |-> n = Chunks]
Frame == [type |-> "frame"]
Ready == [type |-> "client_ready"]
Request(m) == [type |-> "file_request", map |-> m]
Ack == [type |-> "file_ack"]

ToClientMessages == {Frame} \cup {MapChange(m) : m \in Map}
                    \cup {Chunk(m, n) : m \in Map, n \in 1 .. Chunks}
ToServerMessages == {Ready, Ack} \cup {Request(m) : m \in Map}
ThreadMessages == {MapChange(m) : m \in Map}
                  \cup {[type |-> "connected"], [type |-> "disconnected"]}

Places(seq, type) == {i \in DOMAIN seq : seq[i].type = type}
Count(seq, type) == Cardinality(Places(seq, type))

(* send_message of either side: nothing, without a connection.                    *)
ToClient(msgs) == s2c' = IF up THEN s2c \o msgs ELSE s2c
ToServer(msgs) == c2s' = IF up THEN c2s \o msgs ELSE c2s

Init ==
  /\ map \in Map /\ gameover = FALSE /\ awaiting_client_readies = 0 /\ fileTransfer = None
  /\ up = FALSE /\ s2c = <<>> /\ c2s = <<>>
  /\ connected = FALSE /\ map_ready = FALSE /\ loaded = None /\ servermap = None
  /\ downloads = <<>> /\ saved = -1 /\ disk = InstalledMaps
  /\ messageQueue = <<>>
  /\ clientReadiesWaiting = 0 /\ increment = None /\ decrement = None /\ raced = FALSE
  /\ failed = "none" /\ changes = 0 /\ sessions = 0

--------------------------------------------------------------------------------
(* The server.                                                                    *)

(* Mutant: the player who joins is not waited for.                                *)
SendMapChangeUncounted(m) ==
  /\ ToClient(<<MapChange(m)>>)
  /\ UNCHANGED awaiting_client_readies

(* send_map_change_message, to all players.                                       *)
SendMapChange(m) ==
  /\ ToClient(<<MapChange(m)>>)
  /\ awaiting_client_readies' = IF up THEN awaiting_client_readies + 1
                                ELSE awaiting_client_readies

(* server_next_map: with the new map, the plaque is shown.                        *)
ServerNextMap(m) ==
  /\ changes < MaxChanges /\ changes' = changes + 1
  /\ map' = m /\ gameover' = TRUE
  /\ SendMapChange(m)
  /\ UNCHANGED <<fileTransfer, up, c2s, client, file, counter, messageQueue, failed, sessions>>

(* simulate_and_broadcast_frame: the plaque waits for readies, but only so long.  *)
StartGame ==
  /\ gameover /\ gameover' = FALSE
  /\ UNCHANGED <<map, awaiting_client_readies, fileTransfer, up, s2c, c2s, client, file,
                 counter, messageQueue, history>>

(* broadcast_frame: a frame that is not skipped.  Of those between two messages   *)
(* one is enough.                                                                 *)
SendFrame ==
  /\ up /\ awaiting_client_readies = 0 /\ ~gameover
  /\ s2c # <<>> => Last(s2c) # Frame
  /\ ToClient(<<Frame>>)
  /\ UNCHANGED <<server, up, c2s, client, file, counter, messageQueue, history>>

(* Mutant: a file of Chunks chunks ends with one more ack.                        *)
TransferEndsLate(t) == t = None \/ t.dp > Chunks

(* Mutant: it ends without its last chunk.                                        *)
TransferEndsEarly(t) == t = None \/ t.dp + 1 >= Chunks

TransferEnds(t) == t = None \/ t.dp >= Chunks

(* upload_next_file_chunk                                                         *)
UploadNextFileChunk(m, dp) ==
  /\ ToClient(<<Chunk(m, dp + 1)>>)
  /\ fileTransfer' = [map |-> m, dp |-> dp + 1]

(* The next message of the client: processMessage.                                *)
ProcessReady ==
  /\ c2s # <<>> /\ Head(c2s) = Ready /\ c2s' = Tail(c2s)
  /\ awaiting_client_readies' = IF awaiting_client_readies = 0 THEN 0
                                ELSE awaiting_client_readies - 1
  /\ UNCHANGED <<map, gameover, fileTransfer, up, s2c, client, file, counter, messageQueue,
                 history>>

ProcessRequest ==
  /\ c2s # <<>> /\ Head(c2s).type = "file_request" /\ c2s' = Tail(c2s)
  /\ IF fileTransfer # None
     THEN failed' = "Another download already in progress" /\ UNCHANGED <<s2c, fileTransfer>>
     ELSE UploadNextFileChunk(Head(c2s).map, 0) /\ UNCHANGED failed
  /\ UNCHANGED <<map, gameover, awaiting_client_readies, up, client, file, counter,
                 messageQueue, changes, sessions>>

ProcessAck ==
  /\ c2s # <<>> /\ Head(c2s) = Ack /\ c2s' = Tail(c2s)
  /\ IF TransferEnds(fileTransfer) THEN fileTransfer' = None /\ UNCHANGED s2c
     ELSE UploadNextFileChunk(fileTransfer.map, fileTransfer.dp)
  /\ UNCHANGED <<map, gameover, awaiting_client_readies, up, client, file, counter,
                 messageQueue, history>>

--------------------------------------------------------------------------------
(* The connection.                                                                *)

(* connect, from the menus, when the client knows that the old connection is gone:  *)
(* a new player is told of the map.  At most one old ready is held by the menus.    *)
Connect ==
  /\ ~up /\ ~connected /\ messageQueue = <<>> /\ increment = None /\ decrement = None
  /\ clientReadiesWaiting <= 1
  /\ sessions < MaxSessions /\ sessions' = sessions + 1
  /\ up' = TRUE /\ s2c' = <<MapChange(map)>> /\ c2s' = <<>>
  /\ awaiting_client_readies' = 1
  /\ messageQueue' = <<[type |-> "connected"]>>
  /\ UNCHANGED <<map, gameover, fileTransfer, client, file, counter, failed, changes>>

(* Mutant: the transfer stays open.                                               *)
EndTransferLater == UNCHANGED fileTransfer

EndTransfer == fileTransfer' = None

(* Either side ends the connection: client_disconnected on the server.            *)
Disconnect ==
  /\ up /\ up' = FALSE /\ s2c' = <<>> /\ c2s' = <<>>
  /\ awaiting_client_readies' = 0
  /\ EndTransfer
  /\ messageQueue' = Append(messageQueue, [type |-> "disconnected"])
  /\ UNCHANGED <<map, gameover, client, file, counter, history>>

--------------------------------------------------------------------------------
(* The client's network thread.  It has frameMutex during an increment.           *)

Receives == connected /\ increment = None

(* check_download: the first download that is not active is requested, and its    *)
(* file is opened, empty.                                                         *)
CheckDownload(ds, active, files, ready) ==
  IF ds = <<>> \/ active
  THEN downloads' = ds /\ saved' = (IF ds = <<>> THEN -1 ELSE saved) /\ disk' = files
       /\ ToServer(ready)
  ELSE downloads' = ds /\ saved' = 0 /\ disk' = files \ {Head(ds)}
       /\ ToServer(Append(ready, Request(Head(ds))))

(* process_live_frame_data: a frame that no message sent after it has overtaken.  *)
ReceiveFrame ==
  /\ Receives
  /\ \E i \in DOMAIN s2c :
       /\ s2c[i] = Frame
       /\ s2c' = RemoveAt(s2c, i)
       /\ failed' = IF map_ready THEN failed ELSE "Server sent frame data when loading map"
  /\ UNCHANGED <<server, up, c2s, client, file, counter, messageQueue, changes, sessions>>

(* The next message, with the frames before it late.                              *)
NextMessage == IF Head(s2c) # Frame THEN 1 ELSE 2
HasMessage == Receives /\ s2c # <<>> /\ NextMessage \in DOMAIN s2c
Message == s2c[NextMessage]
TakeMessage == s2c' = SubSeq(s2c, NextMessage + 1, Len(s2c))

(* data_map_change                                                                *)
ReceiveMapChange ==
  /\ HasMessage /\ Message.type = "map_change" /\ TakeMessage
  /\ map_ready' = FALSE
  /\ messageQueue' = Append(messageQueue, Message)
  /\ UNCHANGED <<server, up, c2s, connected, loaded, servermap, file, counter, history>>

(* Mutant: any map that arrives is the one to play.                               *)
AnyMap(m) == TRUE

Wanted(m) == m = servermap

(* process_udp_download_chunk, up to reading clientReadiesWaiting if it is the    *)
(* last chunk.                                                                    *)
ReceiveChunk ==
  /\ HasMessage /\ Message.type = "file_download" /\ TakeMessage
  /\ IF saved = -1 \/ saved + 1 # Message.chunk \/ Head(downloads) # Message.map
     THEN /\ failed' = "unexpected file"
          /\ UNCHANGED <<c2s, map_ready, loaded, file, increment>>
     ELSE /\ saved' = saved + 1
          /\ ToServer(<<Ack>>)
          /\ IF Message.last
             THEN /\ disk' = disk \cup {Message.map}
                  /\ loaded' = IF Wanted(Message.map) THEN Message.map ELSE loaded
                  /\ map_ready' = (map_ready \/ Wanted(Message.map))
                  /\ increment' = clientReadiesWaiting
             ELSE UNCHANGED <<disk, loaded, map_ready, increment>>
          /\ UNCHANGED <<downloads, failed>>
  /\ UNCHANGED <<server, up, connected, servermap, clientReadiesWaiting, decrement, raced,
                 messageQueue, changes, sessions>>

(* Mutant: the next download waits for another map change.                        *)
NextDownloadForgotten ==
  downloads' = Tail(downloads) /\ saved' = -1 /\ UNCHANGED <<disk, c2s>>

NextDownload == CheckDownload(Tail(downloads), FALSE, disk, <<>>)

(* Then it writes the new value, and the next download begins.                    *)
CountReady ==
  /\ increment # None /\ increment' = None
  /\ clientReadiesWaiting' = increment + 1
  /\ raced' = (raced \/ decrement # None)
  /\ IF downloads = <<>> THEN UNCHANGED <<file, c2s>>
     ELSE NextDownload
  /\ UNCHANGED <<server, up, s2c, client, decrement, messageQueue, history>>

--------------------------------------------------------------------------------
(* The client's main thread.                                                      *)

Handles(type) ==
  /\ messageQueue # <<>> /\ Head(messageQueue).type = type
  /\ increment = None /\ decrement = None
  /\ messageQueue' = Tail(messageQueue)

(* client_connected                                                               *)
HandleConnected ==
  /\ Handles("connected")
  /\ connected' = TRUE /\ map_ready' = FALSE /\ servermap' = None
  /\ clientReadiesWaiting' = 0
  /\ UNCHANGED <<server, up, s2c, c2s, loaded, file, increment, decrement, raced, history>>

(* client_disconnected: the file of an active download is removed.                *)
HandleDisconnected ==
  /\ Handles("disconnected")
  /\ connected' = FALSE
  /\ downloads' = <<>> /\ saved' = -1
  /\ UNCHANGED <<server, up, s2c, c2s, map_ready, loaded, servermap, disk, counter, history>>

(* server_map_command: the map is loaded from a complete file, or downloaded.     *)
HandleMapChange ==
  /\ Handles("map_change")
  /\ LET m == Head(messageQueue).map IN
       /\ servermap' = m
       /\ IF m \in disk
          THEN /\ loaded' = m /\ map_ready' = TRUE
               /\ clientReadiesWaiting' = clientReadiesWaiting + 1
               /\ UNCHANGED <<file, c2s>>
          ELSE /\ loaded' = IF saved >= 0 /\ Head(downloads) = m THEN None ELSE loaded
               /\ CheckDownload(Append(downloads, m), saved >= 0, disk, <<>>)
               /\ UNCHANGED <<map_ready, clientReadiesWaiting>>
  /\ UNCHANGED <<server, up, s2c, connected, increment, decrement, raced, history>>

(* A menu is open while the client connects: closing it ends the attempt.         *)
Connecting == up /\ ~connected

(* The main loop sends a ready (the last one when the player has left the menus)  *)
(* and reads the counter,                                                         *)
SendReady ==
  /\ decrement = None /\ clientReadiesWaiting > 0 /\ ~Connecting
  /\ ToServer(<<Ready>>)
  /\ decrement' = clientReadiesWaiting
  /\ UNCHANGED <<server, up, s2c, client, file, clientReadiesWaiting, increment, raced,
                 messageQueue, history>>

(* then writes the new value.                                                     *)
ReadySent ==
  /\ decrement # None /\ decrement' = None
  /\ clientReadiesWaiting' = decrement - 1
  /\ raced' = (raced \/ increment # None)
  /\ UNCHANGED <<server, up, s2c, c2s, client, file, increment, messageQueue, history>>

--------------------------------------------------------------------------------
Server == ProcessReady \/ ProcessRequest \/ ProcessAck
NetworkThread == ReceiveMapChange \/ ReceiveChunk \/ CountReady
MainThread == HandleConnected \/ HandleDisconnected \/ HandleMapChange \/ ReadySent

Next ==
  \/ Server \/ NetworkThread \/ MainThread \/ SendReady
  \/ StartGame \/ SendFrame \/ ReceiveFrame
  \/ Connect \/ Disconnect
  \/ \E m \in Map : ServerNextMap(m)

(* Both programs' threads go on, and the player leaves the menus now and then.    *)
Fairness == WF_vars(Server) /\ WF_vars(NetworkThread) /\ WF_vars(MainThread) /\ WF_vars(SendReady)

Spec == Init /\ [][Next]_vars /\ Fairness

--------------------------------------------------------------------------------
(* Properties.                                                                    *)

(* Type invariant.                                                                *)
TypeOK ==
  /\ map \in Map /\ gameover \in BOOLEAN /\ awaiting_client_readies \in Nat
  /\ fileTransfer \in {None} \cup [map : Map, dp : 1 .. Chunks]
  /\ up \in BOOLEAN /\ connected \in BOOLEAN
  /\ s2c \in Seq(ToClientMessages) /\ c2s \in Seq(ToServerMessages)
  /\ map_ready \in BOOLEAN /\ {loaded, servermap} \subseteq Map \cup {None}
  /\ downloads \in Seq(Map) /\ saved \in -1 .. Chunks /\ disk \subseteq Map
  /\ messageQueue \in Seq(ThreadMessages)
  /\ clientReadiesWaiting \in Nat
  /\ {increment, decrement} \subseteq Nat \cup {None} /\ raced \in BOOLEAN

(* As long as the two updates of clientReadiesWaiting do not meet, each map change *)
(* that the server counts is in exactly one place on its way to a ready and back.  *)
OnTheWay ==
  Count(s2c, "map_change") + Count(messageQueue, "map_change") + Len(downloads)
  + clientReadiesWaiting - (IF decrement = None THEN 0 ELSE 1) + Count(c2s, "client_ready")
InSession == up /\ connected
ReadiesAreCounted == InSession /\ ~raced => awaiting_client_readies = OnTheWay

(* A player that the server waits for no longer, and therefore lets into the game, *)
(* has loaded the map that it plays, however map changes and downloads overlapped.  *)
PlayersHaveTheMap ==
  InSession /\ ~raced /\ awaiting_client_readies = 0 => map_ready /\ loaded = map

(* The errors for which a side throws the other out do not happen: two downloads   *)
(* at a time, a chunk of another file, a frame before its map.                     *)
NobodyMisbehaves == raced \/ failed = "none"

Sent == Count(s2c, "file_download")
Acked == Count(c2s, "file_ack")
Asked == Count(c2s, "file_request")
Downloading == saved \in 0 .. Chunks - 1

(* A download is not stuck: of its request, chunk and ack one is under way.        *)
DownloadGoesOn ==
  InSession /\ Downloading => Sent + Acked + Asked > 0

(* The server does not wait forever, unless the updates met.                       *)
PlayersGetIn == []<>(raced \/ ~up \/ awaiting_client_readies = 0)

(* clientbase.h:44, "Handling anything that isn't protected by mutexes (frameMutex   *)
(* and downloadMutex) should be applied only through the ThreadMessage queue": the   *)
(* network thread counts a finished download without losing a ready.  It does not   *)
(* hold, the main thread decrements the counter under no mutex.                     *)
NoReadyIsLost == InSession => awaiting_client_readies = OnTheWay

--------------------------------------------------------------------------------
(* The inductive invariant behind the first two.                                  *)

(* What is under way in each state of the connection: the client that knows       *)
(* nothing of a connection receives and sends nothing, and its main thread has     *)
(* still to be told of the last change of the connection.                         *)
SessionInv ==
  /\ ~up => s2c = <<>> /\ c2s = <<>>
  /\ ~connected => downloads = <<>> /\ increment = None
  /\ saved # -1 => downloads # <<>>
  /\ increment # None => downloads # <<>>
  /\ ~connected /\ ~up =>
       messageQueue \in {<<>>, <<[type |-> "connected"], [type |-> "disconnected"]>>}
  /\ Connecting => /\ messageQueue = <<[type |-> "connected"]>>
                   /\ c2s = <<>> /\ decrement = None
                   /\ awaiting_client_readies = Count(s2c, "map_change")
                   /\ Places(s2c, "map_change") # {}
  /\ InSession => \A i \in DOMAIN messageQueue : messageQueue[i].type = "map_change"
  /\ connected /\ ~up =>
       /\ messageQueue # <<>> /\ Last(messageQueue).type = "disconnected"
       /\ \A i \in 1 .. Len(messageQueue) - 1 : messageQueue[i].type = "map_change"

(* What a thread has read is still true, unless the updates have met.             *)
CounterInv ==
  /\ decrement # None => decrement > 0
  /\ ~raced => {increment, decrement} \subseteq {clientReadiesWaiting, None}

(* The latest map change on its way is about the map that is played; when none is *)
(* on its way, the client has the map or is going to download it.                 *)
LatestIs(seq, m) ==
  \A i \in Places(seq, "map_change") :
    seq[i].map = m \/ \E j \in Places(seq, "map_change") : j > i
HasOrGets(m) ==
  /\ servermap = m
  /\ (map_ready /\ loaded = m) \/ \E i \in DOMAIN downloads : downloads[i] = m
LatestInv ==
  /\ up => LatestIs(s2c, map)
  /\ InSession /\ Places(s2c, "map_change") = {} => LatestIs(messageQueue, map)
  /\ InSession /\ Places(s2c, "map_change") = {} /\ messageQueue = <<>> => HasOrGets(map)
  /\ increment # None /\ Head(downloads) = servermap => map_ready /\ loaded = servermap

ReadiesInv == TypeOK /\ SessionInv /\ CounterInv /\ LatestInv /\ ReadiesAreCounted

--------------------------------------------------------------------------------
(* The inductive invariant behind the other two.                                  *)

(* All messages of type a come before those of type b; those of a type are all e.  *)
Before(seq, a, b) == \A i \in Places(seq, a) : \A j \in Places(seq, b) : i < j
Only(seq, type, e) == \A i \in Places(seq, type) : seq[i] = e

Complete == fileTransfer # None => fileTransfer.dp = Chunks

(* A transfer has exactly one chunk or ack under way.  It serves the client's      *)
(* active download, or it is complete; then the request of the next download may   *)
(* already follow its last ack.                                                   *)
TransferInv ==
  /\ Sent + Acked = IF fileTransfer = None THEN 0 ELSE 1
  /\ ~Downloading => Asked = 0 /\ Sent = 0 /\ Complete
  /\ InSession /\ Downloading =>
       \/ Asked = 1 /\ Sent = 0 /\ saved = 0 /\ Complete
       \/ Asked = 0 /\ fileTransfer = [map |-> Head(downloads), dp |-> saved + Sent]
  /\ Before(c2s, "file_ack", "file_request")
  /\ Only(c2s, "file_request", Request(Head(downloads)))
  /\ Only(s2c, "file_download", Chunk(Head(downloads), saved + 1))
  /\ saved = Chunks <=> increment # None

(* Frames are sent to clients that have loaded the map, and none after the map     *)
(* change that makes them load another.                                           *)
FrameInv ==
  /\ Connecting => Places(s2c, "frame") = {}
  /\ InSession /\ ~raced =>
       /\ Places(s2c, "frame") # {} => map_ready
       /\ Before(s2c, "frame", "map_change")

DownloadsInv == TransferInv /\ FrameInv /\ NobodyMisbehaves

IInv == ReadiesInv /\ DownloadsInv
================================================================================
