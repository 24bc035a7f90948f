---------------------------- MODULE LeetClientProofs ----------------------------
(* Proofs about LeetClient for any numbers of attempts, disconnections and tries.  *)
EXTENDS LeetClient, FiniteSetTheorems, TLAPS

LEMMA Threads ==
  /\ Main \in Thread /\ Disconnector \in Thread /\ Main # Disconnector
  /\ \A a \in Attempt : /\ Reader(a) \in Thread \ {Main, Disconnector}
                        /\ Connector(a) \in Thread \ {Main, Disconnector}
  /\ \A a, b \in Attempt : /\ Reader(a) # Connector(b)
                           /\ Reader(a) = Reader(b) => a = b
                           /\ Connector(a) = Connector(b) => a = b
  /\ \A t \in Thread : \/ t = Main \/ t = Disconnector
                       \/ \E a \in Attempt : t = Reader(a) \/ t = Connector(a)
BY DEF Thread, Main, Disconnector, Reader, Connector

LEMMA Numbers == MaxAttempts \in Nat /\ ConnectTries \in Int /\ DisconnectTries \in Int
BY BoundsAssumption

LEMMA Attempts == Attempt \subseteq Nat /\ IsFiniteSet(Attempt)
BY Numbers, FS_Interval DEF Attempt

LEMMA Afters ==
  /\ After(Main) = "return" /\ After(Disconnector) = "ended"
  /\ \A a \in Attempt : After(Reader(a)) = "loop" /\ After(Connector(a)) = "unreachable"
BY DEF After, Main, Disconnector, Reader, Connector

LEMMA AfterIsALabel ==
  ASSUME NEW t \in Thread
  PROVE  After(t) \in Label
BY Threads, Afters DEF Label

USE DEF Goto, Meets, Load, Collides, Moves, status, sequence, reader, private, network, game,
        history

--------------------------------------------------------------------------------
(* The types.                                                                     *)

LEMMA NewsAreBoolean == KnowsConnected \in BOOLEAN
BY DEF KnowsConnected, LastNews

LEMMA ReportTypes ==
  ASSUME StateOK, NEW t \in Thread, NEW code \in 0 .. 5, Report(t, code)
  PROVE  GameOK' /\ about' \in [Thread -> 0 .. MaxAttempts]
<1> DEFINE message == [code |-> code, attempt |-> about[t]]
<1>1. message \in [code : 0 .. 5, attempt : 0 .. MaxAttempts]
  BY DEF StateOK, PrivateOK
<1>2. messageQueue' = Append(messageQueue, message)
  BY DEF Report
<1> HIDE DEF message
<1>3. messageQueue' \in Seq([code : 0 .. 5, attempt : 0 .. MaxAttempts])
  BY <1>1, <1>2 DEF StateOK, GameOK
<1>4. about' \in [Thread -> 0 .. MaxAttempts]
  BY Numbers DEF StateOK, PrivateOK, Report
<1> QED
  BY <1>3, <1>4 DEF StateOK, GameOK, Report

LEMMA GameStays == GameOK /\ UNCHANGED game => GameOK'
BY DEF GameOK

LEMMA ResetTypes == ResetState => NetworkOK'
<1> SUFFICES ASSUME ResetState PROVE NetworkOK'
  OBVIOUS
<1>1. socket' \in 0 .. MaxAttempts
  BY Numbers DEF ResetState
<1>2. net' \subseteq {"accepted", "rejected", "disconnected"}
  BY DEF ResetState
<1> QED
  BY <1>1, <1>2 DEF ResetState, NetworkOK

LEMMA EndingTypes ==
  ASSUME StateOK, NEW t \in Thread, EndConnection(t)
  PROVE  StateOK'
<1>1. CASE Stop(t)
  BY <1>1 DEF StateOK, ClientOK, PrivateOK, NetworkOK, GameOK, Stop
<1>2. CASE NiceDisconnectDone(t)
  <2>1. ClientOK'
    BY <1>2 DEF StateOK, ClientOK, NiceDisconnectDone, Report
  <2>2. PrivateOK'
    BY <1>2, ReportTypes, Numbers DEF StateOK, PrivateOK, NiceDisconnectDone
  <2>3. NetworkOK'
    BY <1>2 DEF StateOK, NetworkOK, NiceDisconnectDone, Report
  <2>4. GameOK'
    BY <1>2, ReportTypes, GameStays DEF StateOK, NiceDisconnectDone
  <2> QED
    BY <2>1, <2>2, <2>3, <2>4 DEF StateOK
<1>3. CASE LockReader(t)
  BY <1>3 DEF StateOK, ClientOK, PrivateOK, NetworkOK, GameOK, LockReader, MutexFree
<1>4. CASE JoinReader(t)
  BY <1>4 DEF StateOK, ClientOK, PrivateOK, NetworkOK, GameOK, JoinReader
<1>5. CASE Reset(t)
  <2>1. ClientOK'
    BY <1>5 DEF StateOK, ClientOK, Reset, ResetState
  <2>2. PrivateOK'
    BY <1>5 DEF StateOK, PrivateOK, Reset, ResetState
  <2>3. NetworkOK'
    BY <1>5, ResetTypes DEF StateOK, NetworkOK, Reset
  <2>4. GameOK'
    BY <1>5 DEF StateOK, GameOK, Reset, ResetState
  <2> QED
    BY <2>1, <2>2, <2>3, <2>4 DEF StateOK
<1>6. CASE SetDisconnected(t)
  BY <1>6 DEF StateOK, ClientOK, PrivateOK, NetworkOK, GameOK, SetDisconnected
<1>7. CASE UnlockReader(t)
  BY <1>7 DEF StateOK, ClientOK, PrivateOK, NetworkOK, GameOK, UnlockReader
<1> QED
  BY <1>1, <1>2, <1>3, <1>4, <1>5, <1>6, <1>7 DEF EndConnection

LEMMA PlayerTypes ==
  ASSUME StateOK, Player
  PROVE  StateOK'
<1>1. CASE ConnectCommand
  BY <1>1 DEF StateOK, ClientOK, PrivateOK, NetworkOK, GameOK, ConnectCommand, Command
<1>2. CASE DisconnectCommand
  BY <1>2 DEF StateOK, ClientOK, PrivateOK, NetworkOK, GameOK, DisconnectCommand, Command
<1>3. CASE Exit
  BY <1>3 DEF StateOK, ClientOK, PrivateOK, NetworkOK, GameOK, Exit, Command
<1> QED
  BY <1>1, <1>2, <1>3 DEF Player

LEMMA MainTypes ==
  ASSUME StateOK, attempt < MaxAttempts \/ ~Connect, MainThread, ~EndConnection(Main)
  PROVE  StateOK'
<1>1. CASE HandlePendingThreadMessages
  BY <1>1, NewsAreBoolean DEF StateOK, ClientOK, PrivateOK, NetworkOK, GameOK,
     HandlePendingThreadMessages, HandleMessages
<1>2. CASE Disconnect
  <2>1. ClientOK'
    BY <1>2 DEF StateOK, ClientOK, Disconnect
  <2>2. PrivateOK' /\ NetworkOK'
    BY <1>2 DEF StateOK, PrivateOK, NetworkOK, Disconnect
  <2>3. GameOK'
    BY <1>2 DEF StateOK, GameOK, Disconnect
  <2> QED
    BY <2>1, <2>2, <2>3 DEF StateOK
<1>3. CASE IsConnected
  BY <1>3 DEF StateOK, ClientOK, PrivateOK, NetworkOK, GameOK, IsConnected
<1>4. CASE GiveUpConnecting
  BY <1>4 DEF StateOK, ClientOK, PrivateOK, NetworkOK, GameOK, GiveUpConnecting
<1>5. CASE StartDisconnect
  BY <1>5 DEF StateOK, ClientOK, PrivateOK, NetworkOK, GameOK, StartDisconnect
<1>6. CASE StartDisconnector
  <2>1. ClientOK'
    BY <1>6, Numbers DEF StateOK, ClientOK, StartDisconnector
  <2>2. PrivateOK'
    BY <1>6, Numbers, Threads DEF StateOK, GameOK, PrivateOK, StartDisconnector
  <2>3. NetworkOK'
    BY <1>6, Numbers DEF StateOK, NetworkOK, StartDisconnector
  <2>4. GameOK'
    BY <1>6, Numbers DEF StateOK, GameOK, StartDisconnector
  <2> QED
    BY <2>1, <2>2, <2>3, <2>4 DEF StateOK
<1>7. CASE JoinDisconnector
  BY <1>7 DEF StateOK, ClientOK, PrivateOK, NetworkOK, GameOK, JoinDisconnector
<1>8. CASE ReturnFromDisconnect
  BY <1>8 DEF StateOK, ClientOK, PrivateOK, NetworkOK, GameOK, ReturnFromDisconnect, Unlock
<1>9. CASE Destroy
  BY <1>9 DEF StateOK, ClientOK, PrivateOK, NetworkOK, GameOK, Destroy
<1>10. CASE Connect
  <2>1. ClientOK'
    BY <1>10 DEF StateOK, ClientOK, Connect, Unlock, HandleMessages
  <2>2. PrivateOK'
    BY <1>10 DEF StateOK, PrivateOK, Connect, Unlock, HandleMessages
  <2>3. NetworkOK'
    BY <1>10 DEF StateOK, NetworkOK, Connect, Unlock, HandleMessages
  <2>4. GameOK'
    <3>1. attempt' \in 0 .. MaxAttempts
      BY <1>10, Numbers DEF StateOK, GameOK, Connect
    <3>2. connected' \in BOOLEAN /\ messageQueue' = <<>>
      BY <1>10, NewsAreBoolean DEF Connect, HandleMessages
    <3>3. doing' \in {doing, "nothing"} /\ acts' = acts
      BY <1>10 DEF Connect, Unlock
    <3> QED
      BY <3>1, <3>2, <3>3 DEF StateOK, GameOK
  <2> QED
    BY <2>1, <2>2, <2>3, <2>4 DEF StateOK
<1>11. CASE TestStatus
  BY <1>11 DEF StateOK, ClientOK, PrivateOK, NetworkOK, GameOK, TestStatus
<1>12. CASE TestDisconnecting
  BY <1>12 DEF StateOK, ClientOK, PrivateOK, NetworkOK, GameOK, TestDisconnecting, Unlock
<1>13. CASE StartConnect
  BY <1>13 DEF StateOK, ClientOK, PrivateOK, NetworkOK, GameOK, StartConnect
<1>14. CASE ClearStation
  <2>1. ClientOK'
    BY <1>14 DEF StateOK, ClientOK, ClearStation, ResetState
  <2>2. PrivateOK'
    BY <1>14 DEF StateOK, PrivateOK, ClearStation, ResetState
  <2>3. NetworkOK'
    BY <1>14, ResetTypes DEF StateOK, NetworkOK, ClearStation
  <2>4. GameOK'
    BY <1>14 DEF StateOK, GameOK, ClearStation, ResetState
  <2> QED
    BY <2>1, <2>2, <2>3, <2>4 DEF StateOK
<1>15. CASE OpenSocket
  BY <1>15 DEF StateOK, ClientOK, PrivateOK, NetworkOK, GameOK, OpenSocket
<1>16. CASE CannotOpenSocket
  BY <1>16 DEF StateOK, ClientOK, PrivateOK, NetworkOK, GameOK, CannotOpenSocket
<1>17. CASE TellSocketProblem
  BY <1>17 DEF StateOK, ClientOK, PrivateOK, NetworkOK, GameOK, TellSocketProblem, Unlock
<1>18. CASE StartReader
  BY <1>18 DEF StateOK, ClientOK, PrivateOK, NetworkOK, GameOK, StartReader, MutexFree
<1>19. CASE StartConnector
  BY <1>19, Numbers DEF StateOK, ClientOK, PrivateOK, NetworkOK, GameOK, StartConnector, ReadCount
<1>20. CASE CountConnector
  BY <1>20, Threads DEF StateOK, ClientOK, PrivateOK, NetworkOK, GameOK, CountConnector, Unlock
<1> QED
  BY <1>1, <1>2, <1>3, <1>4, <1>5, <1>6, <1>7, <1>8, <1>9, <1>10, <1>11, <1>12, <1>13, <1>14,
     <1>15, <1>16, <1>17, <1>18, <1>19, <1>20 DEF MainThread

LEMMA ReaderTypes ==
  ASSUME StateOK, NEW a \in Attempt, ReaderThread(a), ~EndConnection(Reader(a))
  PROVE  StateOK'
<1>0. Reader(a) \in Thread
  BY Threads
<1>1. CASE QuitReader(a)
  BY <1>1, <1>0 DEF StateOK, ClientOK, PrivateOK, NetworkOK, GameOK, QuitReader
<1>2. CASE ReadOn(a)
  BY <1>2, <1>0 DEF StateOK, ClientOK, PrivateOK, NetworkOK, GameOK, ReadOn
<1>3. CASE Receive(a)
  BY <1>3, <1>0 DEF StateOK, ClientOK, PrivateOK, NetworkOK, GameOK, Receive
<1>4. CASE ReceiveAccepted(a)
  <2>1. ClientOK'
    BY <1>4 DEF StateOK, ClientOK, ReceiveAccepted, Report
  <2>2. PrivateOK'
    BY <1>4, <1>0, ReportTypes, Numbers DEF StateOK, PrivateOK, ReceiveAccepted
  <2>3. NetworkOK'
    BY <1>4 DEF StateOK, NetworkOK, ReceiveAccepted, Report
  <2>4. GameOK'
    BY <1>4, <1>0, ReportTypes, GameStays DEF StateOK, ReceiveAccepted
  <2> QED
    BY <2>1, <2>2, <2>3, <2>4 DEF StateOK
<1>5. CASE Accept(a)
  BY <1>5, <1>0 DEF StateOK, ClientOK, PrivateOK, NetworkOK, GameOK, Accept
<1>6. CASE ReceiveRejected(a)
  <2>1. ClientOK'
    BY <1>6 DEF StateOK, ClientOK, ReceiveRejected, Report
  <2>2. PrivateOK'
    BY <1>6, <1>0, ReportTypes, Numbers DEF StateOK, PrivateOK, ReceiveRejected
  <2>3. NetworkOK'
    BY <1>6 DEF StateOK, NetworkOK, ReceiveRejected, Report
  <2>4. GameOK'
    BY <1>6, <1>0, ReportTypes, GameStays DEF StateOK, ReceiveRejected
  <2> QED
    BY <2>1, <2>2, <2>3, <2>4 DEF StateOK
<1>7. CASE ReceiveDisconnected(a)
  BY <1>7, <1>0 DEF StateOK, ClientOK, PrivateOK, NetworkOK, GameOK, ReceiveDisconnected
<1>8. CASE Reply(a)
  <2>1. ClientOK'
    BY <1>8, Numbers DEF StateOK, ClientOK, Reply
  <2>2. PrivateOK'
    BY <1>8, <1>0, Numbers DEF StateOK, PrivateOK, Reply
  <2>3. NetworkOK'
    BY <1>8, Numbers DEF StateOK, NetworkOK, Reply
  <2>4. GameOK'
    BY <1>8, <1>0, Numbers DEF StateOK, GameOK, Reply
  <2> QED
    BY <2>1, <2>2, <2>3, <2>4 DEF StateOK
<1>9. CASE ReceiveData(a)
  BY <1>9, <1>0 DEF StateOK, ClientOK, PrivateOK, NetworkOK, GameOK, ReceiveData
<1>10. CASE ProcessIncomingData(a)
  BY <1>10, <1>0 DEF StateOK, ClientOK, PrivateOK, NetworkOK, GameOK, ProcessIncomingData
<1> QED
  BY <1>1, <1>2, <1>3, <1>4, <1>5, <1>6, <1>7, <1>8, <1>9, <1>10 DEF ReaderThread

LEMMA ConnectorTypes ==
  ASSUME StateOK, NEW a \in Attempt, ConnectorThread(a), ~EndConnection(Connector(a))
  PROVE  StateOK'
<1>0. Connector(a) \in Thread
  BY Threads
<1>1. CASE ConnectTry(a)
  BY <1>1, <1>0 DEF StateOK, ClientOK, PrivateOK, NetworkOK, GameOK, ConnectTry
<1>2. CASE TimeOut(a)
  BY <1>2, <1>0 DEF StateOK, ClientOK, PrivateOK, NetworkOK, GameOK, TimeOut, OutOfTries
<1>3. CASE SendConnect(a)
  <2>1. ClientOK'
    BY <1>3 DEF StateOK, ClientOK, SendConnect, Answer, OutOfTries
  <2>2. PrivateOK'
    BY <1>3, <1>0 DEF StateOK, PrivateOK, SendConnect, Answer, OutOfTries
  <2>3. NetworkOK'
    BY <1>3 DEF StateOK, NetworkOK, SendConnect, Answer, OutOfTries
  <2>4. GameOK'
    BY <1>3, <1>0 DEF StateOK, GameOK, SendConnect, Answer, OutOfTries
  <2> QED
    BY <2>1, <2>2, <2>3, <2>4 DEF StateOK
<1>4. CASE NoResponse(a)
  <2>1. ClientOK'
    BY <1>4 DEF StateOK, ClientOK, NoResponse, Report
  <2>2. PrivateOK'
    BY <1>4, <1>0, ReportTypes, Numbers DEF StateOK, PrivateOK, NoResponse
  <2>3. NetworkOK'
    BY <1>4 DEF StateOK, NetworkOK, NoResponse, Report
  <2>4. GameOK'
    BY <1>4, <1>0, ReportTypes, GameStays DEF StateOK, NoResponse
  <2> QED
    BY <2>1, <2>2, <2>3, <2>4 DEF StateOK
<1>5. CASE ConnectorLeaves(a)
  <2>1. ClientOK'
    BY <1>5 DEF StateOK, ClientOK, ConnectorLeaves, ReadCount
  <2>2. PrivateOK'
    BY <1>5, <1>0 DEF StateOK, ClientOK, PrivateOK, ConnectorLeaves, ReadCount
  <2>3. NetworkOK'
    BY <1>5 DEF StateOK, NetworkOK, ConnectorLeaves, ReadCount
  <2>4. GameOK'
    BY <1>5, <1>0 DEF StateOK, GameOK, ConnectorLeaves, ReadCount
  <2> QED
    BY <2>1, <2>2, <2>3, <2>4 DEF StateOK
<1>6. CASE ConnectorEnds(a)
  <2>1. ClientOK'
    BY <1>6 DEF StateOK, ClientOK, ConnectorEnds
  <2>2. PrivateOK'
    BY <1>6, <1>0 DEF StateOK, PrivateOK, ConnectorEnds
  <2>3. NetworkOK'
    BY <1>6 DEF StateOK, NetworkOK, ConnectorEnds
  <2>4. GameOK'
    BY <1>6, <1>0 DEF StateOK, GameOK, ConnectorEnds
  <2> QED
    BY <2>1, <2>2, <2>3, <2>4 DEF StateOK
<1> QED
  BY <1>1, <1>2, <1>3, <1>4, <1>5, <1>6 DEF ConnectorThread

LEMMA DisconnectorTypes ==
  ASSUME StateOK, DisconnectorThread, ~EndConnection(Disconnector)
  PROVE  StateOK'
<1>1. CASE DisconnectTry
  <2>1. ClientOK'
    BY <1>1 DEF StateOK, ClientOK, DisconnectTry, Answer, OutOfTries
  <2>2. PrivateOK'
    BY <1>1 DEF StateOK, PrivateOK, DisconnectTry, Answer, OutOfTries
  <2>3. NetworkOK'
    BY <1>1 DEF StateOK, NetworkOK, DisconnectTry, Answer, OutOfTries
  <2>4. GameOK'
    BY <1>1 DEF StateOK, GameOK, DisconnectTry, Answer, OutOfTries
  <2> QED
    BY <2>1, <2>2, <2>3, <2>4 DEF StateOK
<1> QED
  BY <1>1 DEF DisconnectorThread

--------------------------------------------------------------------------------
(* Most steps move one thread between places that the invariants do not tell apart. *)

USE DEF At

Special == Holding \cup {"ended", "destroyed", "joinDisconnector", "countConnector", "uncount"}

Quiet(t) ==
  /\ LabelsOK'
  /\ \A u \in Thread \ {t} : pc'[u] = pc[u]
  /\ pc[t] \notin Special /\ pc'[t] \notin Special
  /\ UNCHANGED <<reader, detached, loaded, attempt, connect_threads_running, miscounted>>
  /\ Preparing' => Preparing
  /\ Starting' => Starting
  /\ doing' = "connect" => attempt < MaxAttempts \/ (doing = "connect" /\ (Starting => Starting'))

LEMMA QuietKeeps ==
  ASSUME LabelsOK, ThreadsInv, NEW t \in Thread, Quiet(t)
  PROVE  ThreadsInv'
<1> USE DEF Quiet, Special, Holding
<1>1. MutexInv'
  BY DEF ThreadsInv, MutexInv
<1>2. ReaderInv'
  <2>1. \A u \in Thread : pc'[u] = "join" <=> pc[u] = "join"
    OBVIOUS
  <2>2. \A u \in Thread : pc'[u] = "ended" <=> pc[u] = "ended"
    OBVIOUS
  <2> QED
    BY <2>1, <2>2, Threads DEF ThreadsInv, ReaderInv
<1>3. AttemptInv'
  <2>1. \A u \in Thread : pc'[u] = "ended" <=> pc[u] = "ended"
    OBVIOUS
  <2> QED
    BY <2>1, Threads DEF ThreadsInv, AttemptInv
<1>4. DisconnectorInv'
  BY Threads DEF ThreadsInv, DisconnectorInv
<1>5. CountInv'
  <2>1. Connectors' = Connectors
    BY Threads DEF Connectors
  <2>2. \A u \in Thread : Changing(u)' <=> Changing(u)
    BY DEF Changing
  <2>3. pc'[Main] = "destroyed" <=> pc[Main] = "destroyed"
    BY Threads
  <2> QED
    BY <2>1, <2>2, <2>3 DEF ThreadsInv, CountInv
<1> QED
  BY <1>1, <1>2, <1>3, <1>4, <1>5 DEF ThreadsInv

LEMMA PlayerIsQuiet ==
  ASSUME LabelsOK,
         ConnectCommand \/ DisconnectCommand \/ Exit
  PROVE  Quiet(Main)
<1> USE DEF Quiet, Special, Holding, Label, LabelsOK, Preparing, Starting
<1>0. Main \in Thread
  BY Threads
<1>1. CASE ConnectCommand
  BY <1>1, <1>0 DEF ConnectCommand, Command
<1>2. CASE DisconnectCommand
  BY <1>2, <1>0 DEF DisconnectCommand, Command
<1>3. CASE Exit
  BY <1>3, <1>0 DEF Exit, Command
<1> QED
  BY <1>1, <1>2, <1>3

LEMMA MainIsQuiet ==
  ASSUME LabelsOK,
         HandlePendingThreadMessages \/ Disconnect \/ IsConnected \/ GiveUpConnecting \/
         StartDisconnect \/ ReturnFromDisconnect \/ TestStatus \/ TestDisconnecting \/
         StartConnect \/ ClearStation \/ OpenSocket \/ CannotOpenSocket \/ TellSocketProblem
  PROVE  Quiet(Main)
<1> USE DEF Quiet, Special, Holding, Label, LabelsOK, Preparing, Starting
<1>0. Main \in Thread
  BY Threads
<1>1. CASE HandlePendingThreadMessages
  BY <1>1, <1>0 DEF HandlePendingThreadMessages
<1>2. CASE Disconnect
  BY <1>2, <1>0 DEF Disconnect
<1>3. CASE IsConnected
  BY <1>3, <1>0 DEF IsConnected
<1>4. CASE GiveUpConnecting
  BY <1>4, <1>0 DEF GiveUpConnecting
<1>5. CASE StartDisconnect
  BY <1>5, <1>0 DEF StartDisconnect
<1>6. CASE ReturnFromDisconnect
  BY <1>6, <1>0 DEF ReturnFromDisconnect, Unlock
<1>7. CASE TestStatus
  BY <1>7, <1>0 DEF TestStatus
<1>8. CASE TestDisconnecting
  BY <1>8, <1>0 DEF TestDisconnecting, Unlock
<1>9. CASE StartConnect
  BY <1>9, <1>0 DEF StartConnect
<1>10. CASE ClearStation
  BY <1>10, <1>0 DEF ClearStation
<1>11. CASE OpenSocket
  BY <1>11, <1>0 DEF OpenSocket
<1>12. CASE CannotOpenSocket
  BY <1>12, <1>0 DEF CannotOpenSocket
<1>13. CASE TellSocketProblem
  BY <1>13, <1>0 DEF TellSocketProblem, Unlock
<1> QED
  BY <1>1, <1>2, <1>3, <1>4, <1>5, <1>6, <1>7, <1>8, <1>9, <1>10, <1>11, <1>12, <1>13

LEMMA ReaderIsQuiet ==
  ASSUME TypeOK, NEW a \in Attempt,
         ReadOn(a) \/ Receive(a) \/ ReceiveAccepted(a) \/ Accept(a) \/ ReceiveRejected(a) \/
         ReceiveDisconnected(a) \/ Reply(a) \/ ReceiveData(a) \/ ProcessIncomingData(a)
  PROVE  Quiet(Reader(a))
<1> USE DEF Quiet, Special, Holding, Label, LabelsOK, Preparing, Starting, TypeOK
<1>0. Reader(a) \in Thread /\ Main # Reader(a)
  BY Threads
<1>1. CASE ReadOn(a)
  BY <1>1, <1>0 DEF ReadOn
<1>2. CASE Receive(a)
  <2>1. PICK l \in {"accepted", "rejected", "disconnected"} : pc' = [pc EXCEPT ![Reader(a)] = l]
    BY <1>2 DEF Receive, StateOK, NetworkOK
  <2> QED
    BY <1>2, <1>0, <2>1 DEF Receive
<1>3. CASE ReceiveAccepted(a)
  <2>1. PICK l \in {"loop", "accept"} : pc' = [pc EXCEPT ![Reader(a)] = l]
    BY <1>3 DEF ReceiveAccepted
  <2> QED
    BY <1>3, <1>0, <2>1 DEF ReceiveAccepted, Report
<1>4. CASE Accept(a)
  BY <1>4, <1>0 DEF Accept
<1>5. CASE ReceiveRejected(a)
  BY <1>5, <1>0 DEF ReceiveRejected, Report
<1>6. CASE ReceiveDisconnected(a)
  BY <1>6, <1>0 DEF ReceiveDisconnected
<1>7. CASE Reply(a)
  <2>1. PICK l \in {"loop", "done"} : pc' = [pc EXCEPT ![Reader(a)] = l]
    BY <1>7 DEF Reply
  <2> QED
    BY <1>7, <1>0, <2>1 DEF Reply
<1>8. CASE ReceiveData(a)
  BY <1>8, <1>0 DEF ReceiveData
<1>9. CASE ProcessIncomingData(a)
  BY <1>9, <1>0 DEF ProcessIncomingData
<1> QED
  BY <1>1, <1>2, <1>3, <1>4, <1>5, <1>6, <1>7, <1>8, <1>9

LEMMA ConnectorIsQuiet ==
  ASSUME LabelsOK, NEW a \in Attempt,
         ConnectTry(a) \/ TimeOut(a) \/ SendConnect(a) \/ NoResponse(a)
  PROVE  Quiet(Connector(a))
<1> USE DEF Quiet, Special, Holding, Label, LabelsOK, Preparing, Starting
<1>0. Connector(a) \in Thread /\ Main # Connector(a)
  BY Threads
<1>1. CASE ConnectTry(a)
  BY <1>1, <1>0 DEF ConnectTry
<1>2. CASE TimeOut(a)
  BY <1>2, <1>0 DEF TimeOut
<1>3. CASE SendConnect(a)
  BY <1>3, <1>0 DEF SendConnect
<1>4. CASE NoResponse(a)
  BY <1>4, <1>0 DEF NoResponse, Report
<1> QED
  BY <1>1, <1>2, <1>3, <1>4

LEMMA DisconnectorIsQuiet ==
  ASSUME LabelsOK,
         DisconnectTry
  PROVE  Quiet(Disconnector)
<1> USE DEF Quiet, Special, Holding, Label, LabelsOK, Preparing, Starting
<1>0. Disconnector \in Thread /\ Main # Disconnector
  BY Threads
<1>1. CASE DisconnectTry
  BY <1>1, <1>0 DEF DisconnectTry
<1> QED
  BY <1>1

LEMMA EndingIsQuiet ==
  ASSUME LabelsOK, NEW t \in Thread,
         Stop(t) \/ NiceDisconnectDone(t)
  PROVE  Quiet(t)
<1> USE DEF Quiet, Special, Holding, Label, LabelsOK, Preparing, Starting
<1>1. CASE Stop(t)
  BY <1>1 DEF Stop
<1>2. CASE NiceDisconnectDone(t)
  BY <1>2 DEF NiceDisconnectDone, Report
<1> QED
  BY <1>1, <1>2

--------------------------------------------------------------------------------
(* The steps of the end of a connection with the mutex.                             *)

EndingStep(t) ==
  /\ LabelsOK'
  /\ \A u \in Thread \ {t} : pc'[u] = pc[u]
  /\ pc[t] \in Holding \cup {"lock"}
  /\ pc'[t] \in Holding \cup {After(t)}
  /\ detached' \in {detached} \cup {detached \cup {a} : a \in {b \in Attempt : t = Reader(b)}}
  /\ UNCHANGED <<loaded, attempt, connect_threads_running, miscounted, doing>>

LEMMA EndingSteps ==
  ASSUME LabelsOK, NEW t \in Thread,
         LockReader(t) \/ JoinReader(t) \/ Reset(t) \/ SetDisconnected(t) \/ UnlockReader(t)
  PROVE  EndingStep(t)
<1> USE DEF EndingStep, Holding, Label, LabelsOK
<1>1. CASE LockReader(t)
  <2>1. detached' \in {detached} \cup {detached \cup {a} : a \in {b \in Attempt : t = Reader(b)}}
    BY <1>1, Threads DEF LockReader
  <2> QED
    BY <1>1, <2>1 DEF LockReader, Join, Leave
<1>2. CASE JoinReader(t)
  BY <1>2 DEF JoinReader
<1>3. CASE Reset(t)
  BY <1>3 DEF Reset, Leave
<1>4. CASE SetDisconnected(t)
  BY <1>4 DEF SetDisconnected
<1>5. CASE UnlockReader(t)
  BY <1>5, AfterIsALabel DEF UnlockReader
<1> QED
  BY <1>1, <1>2, <1>3, <1>4, <1>5

LEMMA EndingKeepsTheRest ==
  ASSUME LabelsOK, ThreadsInv, NEW t \in Thread, EndingStep(t)
  PROVE  AttemptInv' /\ DisconnectorInv' /\ CountInv'
<1> USE DEF EndingStep, Holding
<1>1. t # Disconnector => pc'[t] # "ended"
  BY Threads, Afters
<1>2. pc[t] # "ended"
  OBVIOUS
<1>3. pc'[t] \notin {"destroyed", "countConnector", "uncount"}
  BY Threads, Afters
<1>4. AttemptInv'
  <2>1. Preparing' = Preparing /\ Starting' = Starting
    BY Threads, Afters DEF Preparing, Starting
  <2>2. ASSUME NEW a \in Attempt, pc[Reader(a)] = "ended"
        PROVE  pc'[Reader(a)] = "ended" /\ (a \in detached' => a \in detached)
    BY <1>2, <2>2, Threads
  <2>3. ASSUME NEW a \in Attempt, pc[Connector(a)] = "ended"
        PROVE  pc'[Connector(a)] = "ended"
    BY <1>2, <2>3, Threads
  <2> QED
    BY <2>1, <2>2, <2>3 DEF ThreadsInv, AttemptInv
<1>5. DisconnectorInv'
  BY <1>1, <1>2, Threads DEF ThreadsInv, DisconnectorInv
<1>6. CountInv'
  <2>1. Connectors' = Connectors
    BY <1>1, <1>2, Threads DEF Connectors
  <2>2. \A u \in Thread : Changing(u)' <=> Changing(u)
    BY <1>3 DEF Changing
  <2>3. pc'[Main] = "destroyed" <=> pc[Main] = "destroyed"
    BY <1>3, Threads
  <2> QED
    BY <2>1, <2>2, <2>3 DEF ThreadsInv, CountInv
<1> QED
  BY <1>4, <1>5, <1>6

LEMMA EndingKeepsTheMutex ==
  ASSUME LabelsOK, ThreadsInv, NEW t \in Thread,
         LockReader(t) \/ JoinReader(t) \/ Reset(t) \/ SetDisconnected(t) \/ UnlockReader(t)
  PROVE  MutexInv'
<1> USE NobodyAssumption DEF LabelsOK, ThreadsInv, MutexInv, Holding
<1>1. CASE LockReader(t)
  BY <1>1 DEF LockReader, MutexFree, Join, Leave
<1>2. CASE JoinReader(t)
  BY <1>2 DEF JoinReader
<1>3. CASE Reset(t)
  BY <1>3 DEF Reset, Leave
<1>4. CASE SetDisconnected(t)
  BY <1>4 DEF SetDisconnected
<1>5. CASE UnlockReader(t)
  <2>1. After(t) \notin Holding
    BY Threads, Afters
  <2> QED
    BY <1>5, <2>1 DEF UnlockReader
<1> QED
  BY <1>1, <1>2, <1>3, <1>4, <1>5

LEMMA OneThreadHolds ==
  ASSUME ThreadsInv, NEW t \in Thread, NEW u \in Thread, pc[t] \in Holding, pc[u] \in Holding
  PROVE  t = u
BY DEF ThreadsInv, MutexInv

LEMMA NobodyJoins ==
  ASSUME ThreadsInv, MutexFree, NEW t \in Thread
  PROVE  pc[t] \notin Holding
BY NobodyAssumption DEF ThreadsInv, MutexInv, MutexFree

LEMMA EndingKeepsTheReaders ==
  ASSUME LabelsOK, ThreadsInv, NEW t \in Thread,
         LockReader(t) \/ JoinReader(t) \/ Reset(t) \/ SetDisconnected(t) \/ UnlockReader(t)
  PROVE  ReaderInv'
<1> USE DEF LabelsOK, Holding
<1>0. ReaderInv
  BY DEF ThreadsInv
<1>1. CASE LockReader(t)
  <2>1. \A u \in Thread : pc[u] # "join"
    BY <1>1, NobodyJoins DEF LockReader
  <2>2. \A u \in Thread \ {t} : pc'[u] = pc[u]
    BY <1>1 DEF LockReader
  <2>3. CASE ~running
    <3>1. pc'[t] \notin {"join", "ended"} /\ pc[t] # "ended"
      BY <1>1, <2>3 DEF LockReader, Leave
    <3>2. running' = FALSE /\ UNCHANGED <<thread_read, detached>>
      BY <1>1, <2>3 DEF LockReader
    <3> QED
      BY <1>0, <2>1, <2>2, <2>3, <3>1, <3>2, Threads DEF ReaderInv
  <2>4. CASE running /\ t = Reader(thread_read)
    <3>1. pc'[t] # "join" /\ pc[t] # "ended"
      BY <1>1, <2>4 DEF LockReader, Join
    <3>2. running' = FALSE /\ thread_read' = thread_read /\ detached' = detached \cup {thread_read}
      BY <1>0, <1>1, <2>4, Threads DEF LockReader, ReaderInv
    <3> QED
      BY <1>0, <2>1, <2>2, <2>4, <3>1, <3>2, Threads DEF ReaderInv
  <2>5. CASE running /\ t # Reader(thread_read)
    <3>1. pc'[t] = "join" /\ pc[t] # "ended"
      BY <1>1, <2>5 DEF LockReader, Join
    <3>2. running' = FALSE /\ quit_reader_thread' /\ thread_read' = thread_read
      BY <1>1, <2>5 DEF LockReader
    <3>3. detached' = detached
      BY <1>1, <2>5 DEF LockReader
    <3> QED
      BY <1>0, <2>1, <2>2, <2>5, <3>1, <3>2, <3>3, Threads DEF ReaderInv
  <2> QED
    BY <2>3, <2>4, <2>5
<1>2. CASE JoinReader(t)
  <2>1. \A u \in Thread : pc[u] = "join" => u = t
    BY <1>2, OneThreadHolds DEF JoinReader
  <2>2. \A u \in Thread : pc'[u] # "join"
    BY <1>2, <2>1 DEF JoinReader
  <2>3. \A a \in Attempt \ detached : pc[Reader(a)] = "ended"
    BY <1>0, <1>2 DEF JoinReader, ReaderInv
  <2>4. \A a \in Attempt : pc[Reader(a)] = "ended" => pc'[Reader(a)] = "ended"
    BY <1>2, Threads DEF JoinReader
  <2> QED
    BY <1>0, <1>2, <2>2, <2>3, <2>4 DEF JoinReader, ReaderInv
<1>3. CASE Reset(t)
  BY <1>0, <1>3, Threads DEF Reset, Leave, ReaderInv
<1>4. CASE SetDisconnected(t)
  BY <1>0, <1>4, Threads DEF SetDisconnected, ReaderInv
<1>5. CASE UnlockReader(t)
  <2>1. After(t) # "join" /\ (\A a \in Attempt : t = Reader(a) => After(t) # "ended")
    BY Threads, Afters
  <2> QED
    BY <1>0, <1>5, <2>1, Threads DEF UnlockReader, ReaderInv
<1> QED
  BY <1>1, <1>2, <1>3, <1>4, <1>5

--------------------------------------------------------------------------------
(* The other steps that start or end a thread, an attempt or the station.           *)

LEMMA PreparingIsStarting == Preparing => Starting
BY DEF Preparing, Starting

LEMMA ConnectorsAreFinite == IsFiniteSet(Connectors)
BY Attempts, FS_Subset DEF Connectors

LEMMA AttemptIsANumber == ASSUME StateOK PROVE attempt \in Nat
BY Numbers DEF StateOK, GameOK

LEMMA StartDisconnectorKeeps ==
  ASSUME TypeOK, ThreadsInv, StartDisconnector
  PROVE  LabelsOK' /\ ThreadsInv'
<1> USE DEF TypeOK, LabelsOK, StartDisconnector
<1>0. pc[Disconnector] = "ended"
  BY DEF ThreadsInv, DisconnectorInv
<1>m. /\ pc'[Main] = "joinDisconnector" /\ pc'[Disconnector] = "try"
      /\ \A u \in Thread \ {Main, Disconnector} : pc'[u] = pc[u]
  BY Threads
<1>1. LabelsOK'
  BY <1>0, <1>m, Threads DEF Label
<1>2. MutexInv'
  BY <1>0, <1>m, Threads DEF ThreadsInv, MutexInv, Holding
<1>3. ReaderInv'
  BY <1>0, <1>m, Threads DEF ThreadsInv, ReaderInv
<1>4. AttemptInv'
  BY <1>0, <1>m, Threads DEF ThreadsInv, AttemptInv, Preparing, Starting
<1>5. DisconnectorInv'
  BY <1>0, <1>m, Threads DEF ThreadsInv, DisconnectorInv
<1>6. CountInv'
  <2>1. Connectors' = Connectors
    BY <1>0, <1>m, Threads DEF Connectors
  <2>2. \A u \in Thread : Changing(u)' <=> Changing(u)
    BY <1>0, <1>m, Threads DEF Changing
  <2> QED
    BY <2>1, <2>2, <1>0, <1>m, Threads DEF ThreadsInv, CountInv
<1> QED
  BY <1>1, <1>2, <1>3, <1>4, <1>5, <1>6 DEF ThreadsInv

LEMMA JoinDisconnectorKeeps ==
  ASSUME TypeOK, ThreadsInv, JoinDisconnector
  PROVE  LabelsOK' /\ ThreadsInv'
<1> USE DEF TypeOK, LabelsOK, JoinDisconnector
<1>1. LabelsOK'
  BY Threads DEF Label
<1>2. MutexInv'
  BY Threads DEF ThreadsInv, MutexInv, Holding
<1>3. ReaderInv'
  BY Threads DEF ThreadsInv, ReaderInv
<1>4. AttemptInv'
  BY Threads DEF ThreadsInv, AttemptInv, Preparing, Starting
<1>5. DisconnectorInv'
  BY Threads DEF ThreadsInv, DisconnectorInv
<1>6. CountInv'
  <2>1. Connectors' = Connectors
    BY Threads DEF Connectors
  <2>2. \A u \in Thread : Changing(u)' <=> Changing(u)
    BY Threads DEF Changing
  <2> QED
    BY <2>1, <2>2, Threads DEF ThreadsInv, CountInv
<1> QED
  BY <1>1, <1>2, <1>3, <1>4, <1>5, <1>6 DEF ThreadsInv

LEMMA DestroyKeeps ==
  ASSUME TypeOK, ThreadsInv, Destroy
  PROVE  LabelsOK' /\ ThreadsInv'
<1> USE DEF TypeOK, LabelsOK, Destroy
<1>1. LabelsOK'
  BY Threads DEF Label
<1>2. MutexInv'
  BY Threads DEF ThreadsInv, MutexInv, Holding
<1>3. ReaderInv'
  BY Threads DEF ThreadsInv, ReaderInv
<1>4. AttemptInv'
  BY Threads DEF ThreadsInv, AttemptInv, Preparing, Starting
<1>5. DisconnectorInv'
  BY Threads DEF ThreadsInv, DisconnectorInv
<1>6. CountInv'
  <2>1. Connectors' = Connectors
    BY Threads DEF Connectors
  <2>2. \A u \in Thread : Changing(u)' <=> Changing(u)
    BY Threads DEF Changing
  <2>3. ~miscounted => Connectors = {}
    BY ConnectorsAreFinite, FS_EmptySet DEF NoConnectors, ThreadsInv, CountInv
  <2> QED
    BY <2>1, <2>2, <2>3, Threads DEF ThreadsInv, CountInv
<1> QED
  BY <1>1, <1>2, <1>3, <1>4, <1>5, <1>6 DEF ThreadsInv

LEMMA ConnectKeeps ==
  ASSUME TypeOK, ThreadsInv, Connect
  PROVE  LabelsOK' /\ ThreadsInv'
<1> USE DEF TypeOK, LabelsOK, Connect
<1> USE DEF Unlock
<1>1. LabelsOK'
  BY Threads DEF Label
<1>2. MutexInv'
  BY Threads DEF ThreadsInv, MutexInv, Holding
<1>3. ReaderInv'
  BY Threads DEF ThreadsInv, ReaderInv
<1>4. AttemptInv'
  <2>1. attempt \in Nat /\ attempt' = attempt + 1
    BY AttemptIsANumber
  <2>2. attempt < MaxAttempts
    BY DEF ThreadsInv, AttemptInv, Starting
  <2>3. \A u \in Thread : pc'[u] = "ended" <=> pc[u] = "ended"
    BY Threads
  <2>4. attempt' \in Attempt
    BY <2>1, <2>2, Numbers DEF Attempt
  <2>5. pc'[Main] = "idle" \/ pc'[Main] = "connect"
    BY Threads
  <2>6. doing' = "connect" => pc'[Main] = "connect"
    BY Threads DEF Unlock
  <2>7. \A a \in Attempt : a >= attempt' => a > attempt
    BY <2>1, Attempts
  <2>8. \A a \in Attempt : a > attempt' => a >= attempt'
    BY <2>4, Attempts
  <2>9. \A a \in Attempt : a >= attempt' =>
          pc'[Reader(a)] = "ended" /\ a \notin detached' /\ pc'[Connector(a)] = "ended"
    BY <2>3, <2>7, Threads DEF ThreadsInv, AttemptInv
  <2> QED
    BY <2>4, <2>6, <2>8, <2>9, Attempts DEF AttemptInv, Starting
<1>5. DisconnectorInv'
  BY Threads DEF ThreadsInv, DisconnectorInv
<1>6. CountInv'
  <2>1. Connectors' = Connectors
    BY Threads DEF Connectors
  <2>2. \A u \in Thread : Changing(u)' <=> Changing(u)
    BY Threads DEF Changing
  <2> QED
    BY <2>1, <2>2, Threads DEF ThreadsInv, CountInv
<1> QED
  BY <1>1, <1>2, <1>3, <1>4, <1>5, <1>6 DEF ThreadsInv

LEMMA StartReaderKeeps ==
  ASSUME TypeOK, ThreadsInv, StartReader
  PROVE  LabelsOK' /\ ThreadsInv'
<1> USE DEF TypeOK, LabelsOK, StartReader
<1>0. attempt \in Attempt /\ attempt \notin detached /\ pc[Reader(attempt)] = "ended"
  BY DEF ThreadsInv, AttemptInv, Preparing, Starting
<1>m. /\ pc'[Main] = "startConnector" /\ pc'[Reader(attempt)] = "read"
      /\ \A u \in Thread \ {Main, Reader(attempt)} : pc'[u] = pc[u]
  BY <1>0, Threads
<1>1. LabelsOK'
  BY <1>0, <1>m, Threads DEF Label
<1>2. MutexInv'
  BY <1>0, Threads DEF ThreadsInv, MutexInv, Holding, MutexFree
<1>3. ReaderInv'
  <2>1. \A u \in Thread : pc[u] # "join" /\ pc'[u] # "join"
    BY <1>0, NobodyJoins, Threads DEF Holding
  <2>2. \A b \in Attempt \ detached : pc[Reader(b)] = "ended"
    BY <2>1 DEF ThreadsInv, ReaderInv
  <2> QED
    BY <1>0, <2>1, <2>2, Threads DEF ReaderInv
<1>4. AttemptInv'
  <2>1. \A b \in Attempt : b # attempt => pc'[Reader(b)] = pc[Reader(b)]
    BY <1>0, Threads
  <2>2. \A b \in Attempt : pc'[Connector(b)] = pc[Connector(b)]
    BY <1>0, Threads
  <2>3. ~Preparing' /\ Starting /\ Starting'
    BY <1>0, Threads DEF Preparing, Starting
  <2>4. \A b \in Attempt : b > attempt => b # attempt
    BY <1>0, Attempts
  <2> QED
    BY <1>0, <2>1, <2>2, <2>3, <2>4 DEF ThreadsInv, AttemptInv
<1>5. DisconnectorInv'
  BY <1>0, <1>m, Threads DEF ThreadsInv, DisconnectorInv
<1>6. CountInv'
  <2>1. Connectors' = Connectors
    BY <1>0, <1>m, Threads DEF Connectors
  <2>2. \A u \in Thread : Changing(u)' <=> Changing(u)
    BY <1>0, <1>m, Threads DEF Changing
  <2> QED
    BY <2>1, <2>2, <1>0, <1>m, Threads DEF ThreadsInv, CountInv
<1> QED
  BY <1>1, <1>2, <1>3, <1>4, <1>5, <1>6 DEF ThreadsInv

LEMMA StartConnectorKeeps ==
  ASSUME TypeOK, ThreadsInv, StartConnector
  PROVE  LabelsOK' /\ ThreadsInv'
<1> USE DEF TypeOK, LabelsOK, StartConnector
<1>1. LabelsOK'
  BY Threads DEF Label
<1>2. MutexInv'
  BY Threads DEF ThreadsInv, MutexInv, Holding
<1>3. ReaderInv'
  BY Threads DEF ThreadsInv, ReaderInv
<1>4. AttemptInv'
  BY Threads DEF ThreadsInv, AttemptInv, Preparing, Starting
<1>5. DisconnectorInv'
  BY Threads DEF ThreadsInv, DisconnectorInv
<1>6. CountInv'
  <2>1. Connectors' = Connectors
    BY Threads DEF Connectors
  <2>2. ~miscounted' => ~miscounted /\ \A u \in Thread : ~Changing(u)
    BY DEF ReadCount
  <2>3. \A u \in Thread : Changing(u)' => Changing(u) \/ u = Main
    BY Threads DEF Changing
  <2>4. loaded'[Main] = connect_threads_running
    BY Threads DEF ReadCount, StateOK, PrivateOK
  <2>5. pc'[Main] # "destroyed" \/ pc[Main] = "destroyed"
    BY Threads
  <2> QED
    BY <2>1, <2>2, <2>3, <2>4, <2>5 DEF ThreadsInv, CountInv
<1> QED
  BY <1>1, <1>2, <1>3, <1>4, <1>5, <1>6 DEF ThreadsInv

LEMMA ConnectorLeavesKeeps ==
  ASSUME TypeOK, ThreadsInv, NEW a \in Attempt, ConnectorLeaves(a)
  PROVE  LabelsOK' /\ ThreadsInv'
<1> USE DEF TypeOK, LabelsOK, ConnectorLeaves
<1>1. LabelsOK'
  BY Threads DEF Label
<1>2. MutexInv'
  BY Threads DEF ThreadsInv, MutexInv, Holding
<1>3. ReaderInv'
  BY Threads DEF ThreadsInv, ReaderInv
<1>4. AttemptInv'
  BY Threads DEF ThreadsInv, AttemptInv, Preparing, Starting
<1>5. DisconnectorInv'
  BY Threads DEF ThreadsInv, DisconnectorInv
<1>6. CountInv'
  <2>1. Connectors' = Connectors
    BY Threads DEF Connectors
  <2>2. ~miscounted' => ~miscounted /\ \A u \in Thread : ~Changing(u)
    BY DEF ReadCount
  <2>3. \A u \in Thread : Changing(u)' => Changing(u) \/ u = Connector(a)
    BY Threads DEF Changing
  <2>4. loaded'[Connector(a)] = connect_threads_running
    BY Threads DEF ReadCount, StateOK, PrivateOK
  <2>5. pc'[Main] # "destroyed" \/ pc[Main] = "destroyed"
    BY Threads
  <2> QED
    BY <2>1, <2>2, <2>3, <2>4, <2>5 DEF ThreadsInv, CountInv
<1> QED
  BY <1>1, <1>2, <1>3, <1>4, <1>5, <1>6 DEF ThreadsInv

LEMMA CountConnectorKeeps ==
  ASSUME TypeOK, ThreadsInv, CountConnector
  PROVE  LabelsOK' /\ ThreadsInv'
<1> USE DEF TypeOK, LabelsOK, CountConnector
<1>0. attempt \in Attempt /\ pc[Connector(attempt)] = "ended"
  BY DEF ThreadsInv, AttemptInv, Starting
<1>m. /\ pc'[Main] = "idle" /\ pc'[Connector(attempt)] = "try"
      /\ \A u \in Thread \ {Main, Connector(attempt)} : pc'[u] = pc[u]
  BY <1>0, Threads
<1>1. LabelsOK'
  BY <1>0, <1>m, Threads DEF Label
<1>2. MutexInv'
  BY <1>0, <1>m, Threads DEF ThreadsInv, MutexInv, Holding
<1>3. ReaderInv'
  BY <1>0, <1>m, Threads DEF ThreadsInv, ReaderInv
<1>4. AttemptInv'
  <2>1. \A b \in Attempt : b # attempt => pc'[Connector(b)] = pc[Connector(b)]
    BY <1>0, Threads
  <2>2. \A b \in Attempt : pc'[Reader(b)] = pc[Reader(b)]
    BY <1>0, Threads
  <2>3. ~Preparing' /\ Starting /\ ~Starting' /\ doing' = "nothing"
    BY <1>0, Threads DEF Preparing, Starting, Unlock
  <2>4. \A b \in Attempt : b > attempt => b # attempt
    BY <1>0, Attempts
  <2> QED
    BY <1>0, <2>1, <2>2, <2>3, <2>4 DEF ThreadsInv, AttemptInv
<1>5. DisconnectorInv'
  BY <1>0, <1>m, Threads DEF ThreadsInv, DisconnectorInv
<1>6. CountInv'
  <2>1. Connectors' = Connectors \cup {attempt} /\ attempt \notin Connectors
    BY <1>0, Threads DEF Connectors
  <2>2. \A u \in Thread : Changing(u)' <=> (Changing(u) /\ u # Main)
    BY <1>0, <1>m, Threads DEF Changing
  <2>3. Changing(Main) /\ Main \in Thread
    BY Threads DEF Changing
  <2>4. pc'[Main] # "destroyed"
    BY <1>0, Threads
  <2>5. Cardinality(Connectors') = Cardinality(Connectors) + 1
    BY <2>1, ConnectorsAreFinite, FS_AddElement
  <2> QED
    BY <2>2, <2>3, <2>4, <2>5 DEF ThreadsInv, CountInv
<1> QED
  BY <1>1, <1>2, <1>3, <1>4, <1>5, <1>6 DEF ThreadsInv

LEMMA QuitReaderKeeps ==
  ASSUME TypeOK, ThreadsInv, NEW a \in Attempt, QuitReader(a)
  PROVE  LabelsOK' /\ ThreadsInv'
<1> USE DEF TypeOK, LabelsOK, QuitReader
<1>1. LabelsOK'
  BY Threads DEF Label
<1>2. MutexInv'
  BY Threads DEF ThreadsInv, MutexInv, Holding
<1>3. ReaderInv'
  BY Threads DEF ThreadsInv, ReaderInv
<1>4. AttemptInv'
  BY Threads DEF ThreadsInv, AttemptInv, Preparing, Starting
<1>5. DisconnectorInv'
  BY Threads DEF ThreadsInv, DisconnectorInv
<1>6. CountInv'
  <2>1. Connectors' = Connectors
    BY Threads DEF Connectors
  <2>2. \A u \in Thread : Changing(u)' <=> Changing(u)
    BY Threads DEF Changing
  <2> QED
    BY <2>1, <2>2, Threads DEF ThreadsInv, CountInv
<1> QED
  BY <1>1, <1>2, <1>3, <1>4, <1>5, <1>6 DEF ThreadsInv

LEMMA ConnectorEndsKeeps ==
  ASSUME TypeOK, ThreadsInv, NEW a \in Attempt, ConnectorEnds(a)
  PROVE  LabelsOK' /\ ThreadsInv'
<1> USE DEF TypeOK, LabelsOK, ConnectorEnds
<1>1. LabelsOK'
  BY Threads DEF Label
<1>2. MutexInv'
  BY Threads DEF ThreadsInv, MutexInv, Holding
<1>3. ReaderInv'
  BY Threads DEF ThreadsInv, ReaderInv
<1>4. AttemptInv'
  BY Threads DEF ThreadsInv, AttemptInv, Preparing, Starting
<1>5. DisconnectorInv'
  BY Threads DEF ThreadsInv, DisconnectorInv
<1>6. CountInv'
  <2>1. Connectors' = Connectors \ {a} /\ a \in Connectors
    BY Threads DEF Connectors
  <2>2. \A u \in Thread : Changing(u)' <=> (Changing(u) /\ u # Connector(a))
    BY Threads DEF Changing
  <2>3. Changing(Connector(a)) /\ Connector(a) \in Thread
    BY Threads DEF Changing
  <2>4. pc'[Main] = "destroyed" <=> pc[Main] = "destroyed"
    BY Threads
  <2>5. Cardinality(Connectors') = Cardinality(Connectors) - 1
    BY <2>1, ConnectorsAreFinite, FS_RemoveElement
  <2> QED
    BY <2>1, <2>2, <2>3, <2>4, <2>5 DEF ThreadsInv, CountInv
<1> QED
  BY <1>1, <1>2, <1>3, <1>4, <1>5, <1>6 DEF ThreadsInv

--------------------------------------------------------------------------------
(* All steps together.                                                             *)

LEMMA EndingInv ==
  ASSUME IInv, NEW t \in Thread, EndConnection(t)
  PROVE  IInv'
<1> USE DEF IInv, TypeOK
<1>1. StateOK'
  BY EndingTypes
<1>2. CASE Stop(t) \/ NiceDisconnectDone(t)
  <2>1. Quiet(t)
    BY <1>2, EndingIsQuiet
  <2> QED
    BY <1>1, <2>1, QuietKeeps DEF Quiet
<1>3. CASE LockReader(t) \/ JoinReader(t) \/ Reset(t) \/ SetDisconnected(t) \/ UnlockReader(t)
  <2>1. EndingStep(t)
    BY <1>3, EndingSteps
  <2>2. AttemptInv' /\ DisconnectorInv' /\ CountInv'
    BY <2>1, EndingKeepsTheRest
  <2>3. MutexInv' /\ ReaderInv'
    BY <1>3, EndingKeepsTheMutex, EndingKeepsTheReaders
  <2> QED
    BY <1>1, <2>1, <2>2, <2>3 DEF EndingStep, ThreadsInv
<1> QED
  BY <1>2, <1>3 DEF EndConnection

LEMMA PlayerInv ==
  ASSUME IInv, Player
  PROVE  IInv'
<1>1. Quiet(Main)
  BY PlayerIsQuiet DEF IInv, TypeOK, Player
<1> QED
  BY <1>1, PlayerTypes, QuietKeeps, Threads DEF Quiet, IInv, TypeOK

LEMMA MainInv ==
  ASSUME IInv, MainThread
  PROVE  IInv'
<1> USE DEF IInv, TypeOK
<1>1. CASE EndConnection(Main)
  BY <1>1, EndingInv, Threads
<1>2. CASE ~EndConnection(Main)
  <2>0. attempt < MaxAttempts \/ ~Connect
    BY DEF ThreadsInv, AttemptInv, Connect, Starting
  <2>1. StateOK'
    BY <1>2, <2>0, MainTypes
  <2>2. CASE HandlePendingThreadMessages \/ Disconnect \/ IsConnected \/ GiveUpConnecting \/
           StartDisconnect \/ ReturnFromDisconnect \/ TestStatus \/ TestDisconnecting \/
           StartConnect \/ ClearStation \/ OpenSocket \/ CannotOpenSocket \/
           TellSocketProblem
    BY <2>1, <2>2, MainIsQuiet, QuietKeeps, Threads DEF Quiet
  <2>3. CASE StartDisconnector \/ JoinDisconnector \/ Destroy \/ Connect
             \/ StartReader \/ StartConnector \/ CountConnector
    BY <2>1, <2>3, StartDisconnectorKeeps, JoinDisconnectorKeeps, DestroyKeeps, ConnectKeeps,
       StartReaderKeeps, StartConnectorKeeps, CountConnectorKeeps
  <2> QED
    BY <1>2, <2>2, <2>3 DEF MainThread
<1> QED
  BY <1>1, <1>2

LEMMA ReaderThreadInv ==
  ASSUME IInv, NEW a \in Attempt, ReaderThread(a)
  PROVE  IInv'
<1> USE DEF IInv, TypeOK
<1>1. CASE EndConnection(Reader(a))
  BY <1>1, EndingInv, Threads
<1>2. CASE ~EndConnection(Reader(a))
  <2>1. StateOK'
    BY <1>2, ReaderTypes
  <2>2. CASE QuitReader(a)
    BY <2>1, <2>2, QuitReaderKeeps
  <2>3. CASE ~QuitReader(a)
    <3>1. Quiet(Reader(a))
      BY <1>2, <2>3, ReaderIsQuiet DEF ReaderThread
    <3> QED
      BY <2>1, <3>1, QuietKeeps, Threads DEF Quiet
  <2> QED
    BY <2>2, <2>3
<1> QED
  BY <1>1, <1>2

LEMMA ConnectorThreadInv ==
  ASSUME IInv, NEW a \in Attempt, ConnectorThread(a)
  PROVE  IInv'
<1> USE DEF IInv, TypeOK
<1>1. CASE EndConnection(Connector(a))
  BY <1>1, EndingInv, Threads
<1>2. CASE ~EndConnection(Connector(a))
  <2>1. StateOK'
    BY <1>2, ConnectorTypes
  <2>2. CASE ConnectorLeaves(a) \/ ConnectorEnds(a)
    BY <2>1, <2>2, ConnectorLeavesKeeps, ConnectorEndsKeeps
  <2>3. CASE ~ConnectorLeaves(a) /\ ~ConnectorEnds(a)
    <3>1. Quiet(Connector(a))
      BY <1>2, <2>3, ConnectorIsQuiet DEF ConnectorThread
    <3> QED
      BY <2>1, <3>1, QuietKeeps, Threads DEF Quiet
  <2> QED
    BY <2>2, <2>3
<1> QED
  BY <1>1, <1>2

LEMMA DisconnectorThreadInv ==
  ASSUME IInv, DisconnectorThread
  PROVE  IInv'
<1> USE DEF IInv, TypeOK
<1>1. CASE EndConnection(Disconnector)
  BY <1>1, EndingInv, Threads
<1>2. CASE ~EndConnection(Disconnector)
  <2>1. StateOK'
    BY <1>2, DisconnectorTypes
  <2>2. Quiet(Disconnector)
    BY <1>2, DisconnectorIsQuiet DEF DisconnectorThread
  <2> QED
    BY <2>1, <2>2, QuietKeeps, Threads DEF Quiet
<1> QED
  BY <1>1, <1>2

(* Neither the server nor a stuttering step touches the threads.                    *)
LEMMA ThreadsStay ==
  ASSUME IInv, UNCHANGED <<sequence, reader, pc, private, game, history>>
  PROVE  LabelsOK' /\ ThreadsInv'
<1> USE DEF IInv, TypeOK, ThreadsInv
<1>1. LabelsOK'
  BY DEF LabelsOK
<1>2. MutexInv' /\ ReaderInv'
  BY DEF MutexInv, ReaderInv
<1>3. AttemptInv' /\ DisconnectorInv'
  BY DEF AttemptInv, DisconnectorInv, Preparing, Starting
<1>4. CountInv'
  BY DEF CountInv, Connectors, Changing
<1> QED
  BY <1>1, <1>2, <1>3, <1>4

LEMMA ServerEndsInv ==
  ASSUME IInv, ServerEnds
  PROVE  IInv'
<1>1. StateOK'
  <2>1. ClientOK'
    BY DEF IInv, TypeOK, StateOK, ClientOK, ServerEnds
  <2>2. PrivateOK' /\ GameOK'
    BY DEF IInv, TypeOK, StateOK, PrivateOK, GameOK, ServerEnds
  <2>3. NetworkOK'
    BY DEF IInv, TypeOK, StateOK, NetworkOK, ServerEnds, Answer
  <2> QED
    BY <2>1, <2>2, <2>3 DEF StateOK
<1> QED
  BY <1>1, ThreadsStay DEF IInv, TypeOK, ServerEnds

LEMMA StutteringInv ==
  ASSUME IInv, UNCHANGED vars
  PROVE  IInv'
<1>1. StateOK'
  BY DEF IInv, TypeOK, StateOK, ClientOK, PrivateOK, NetworkOK, GameOK, vars
<1> QED
  BY <1>1, ThreadsStay DEF IInv, TypeOK, vars

LEMMA InitInv ==
  ASSUME Init
  PROVE  IInv
<1>1. LabelsOK
  BY DEF Init, LabelsOK, Label
<1>2. StateOK
  <2>1. ClientOK
    <3>1. /\ want_connect \in BOOLEAN /\ connect_status = 0 /\ collided \in BOOLEAN /\ miscounted \in BOOLEAN
          /\ tries_left = 0 /\ started_disconnection \in BOOLEAN /\ connect_threads_running = 0
          /\ thread_read = 0 /\ running \in BOOLEAN /\ quit_reader_thread \in BOOLEAN
          /\ readerThreadManipulationMutex = Nobody
      BY Zenon DEF Init
    <3> QED
      BY <3>1, Numbers DEF ClientOK
  <2>2. PrivateOK
    BY Numbers DEF Init, PrivateOK
  <2>3. NetworkOK
    <3>1. socket = 0 /\ net = {} /\ accepted \in BOOLEAN /\ verdict = "none"
      BY Zenon DEF Init
    <3> QED
      BY <3>1, Numbers DEF NetworkOK
  <2>4. GameOK
    <3>1. /\ doing = "nothing" /\ connected \in BOOLEAN /\ messageQueue = <<>>
          /\ attempt = 0 /\ acts = 0
      BY Zenon DEF Init
    <3> QED
      BY <3>1, Numbers DEF GameOK
  <2> QED
    BY <2>1, <2>2, <2>3, <2>4 DEF StateOK
<1>3. pc[Main] = "idle" /\ \A t \in Thread \ {Main} : pc[t] = "ended"
  BY Threads DEF Init
<1>4. MutexInv
  BY <1>3, NobodyAssumption DEF Init, MutexInv, Holding
<1>5. ReaderInv
  BY <1>3, Threads DEF Init, ReaderInv
<1>6. AttemptInv /\ DisconnectorInv
  BY <1>3, Threads DEF Init, AttemptInv, DisconnectorInv, Starting
<1>7. CountInv
  <2>1. Connectors = {}
    BY <1>3, Threads DEF Connectors
  <2> QED
    BY <1>3, <2>1, FS_EmptySet DEF Init, CountInv, Changing
<1> QED
  BY <1>1, <1>2, <1>4, <1>5, <1>6, <1>7 DEF IInv, TypeOK, ThreadsInv

LEMMA StepInv ==
  ASSUME IInv, [Next]_vars
  PROVE  IInv'
<1>1. CASE Player
  BY <1>1, PlayerInv
<1>2. CASE MainThread
  BY <1>2, MainInv
<1>3. CASE DisconnectorThread
  BY <1>3, DisconnectorThreadInv
<1>4. CASE ServerEnds
  BY <1>4, ServerEndsInv
<1>5. ASSUME NEW a \in Attempt, ReaderThread(a) \/ ConnectorThread(a)
      PROVE  IInv'
  BY <1>5, ReaderThreadInv, ConnectorThreadInv
<1>6. CASE UNCHANGED vars
  BY <1>6, StutteringInv
<1> QED
  BY <1>1, <1>2, <1>3, <1>4, <1>5, <1>6 DEF Next

--------------------------------------------------------------------------------
(* The inductive invariant holds in every interleaving of the threads of a client_ci *)
(* and of the main thread, with any number of attempts.                             *)
THEOREM Invariance == Spec => []IInv
<1>1. Init => IInv
  BY InitInv
<1>2. IInv /\ [Next]_vars => IInv'
  BY StepInv
<1> QED
  BY <1>1, <1>2, PTL DEF Spec

(* No reader is forgotten (client.cpp:218-229, 577-592 and 466-477): it is joined by  *)
(* the next thread that ends the connection, or it has detached itself.             *)
THEOREM EveryReaderIsJoined == Spec => []ReadersAreJoined
<1>1. IInv => ReadersAreJoined
  BY DEF IInv, ThreadsInv, ReaderInv, ReadersAreJoined
<1> QED
  BY <1>1, Invariance, PTL

(* Whatever threads end the connection at a time, pthread_join is called once for a   *)
(* reader, never by itself, never for a detached one, and never for one that has not  *)
(* been told to quit.                                                              *)
THEOREM EveryJoinIsSound == Spec => []JoinsAreSound
<1>1. ASSUME IInv, NEW t \in Thread, pc[t] = "join", NEW u \in Thread, pc[u] = "join"
      PROVE  u = t
  BY <1>1, OneThreadHolds DEF IInv, Holding
<1>2. IInv => JoinsAreSound
  BY <1>1 DEF IInv, ThreadsInv, ReaderInv, JoinsAreSound
<1> QED
  BY <1>2, Invariance, PTL

(* The destructor (client.cpp:770-777) deletes the station after the last connector,   *)
(* unless connect_threads_running has been changed by two threads at a time.          *)
THEOREM ConnectorsEndFirst == Spec => []ConnectorsAreWaitedFor
<1>1. IInv => ConnectorsAreWaitedFor
  BY DEF IInv, ThreadsInv, CountInv, ConnectorsAreWaitedFor
<1> QED
  BY <1>1, Invariance, PTL
================================================================================
