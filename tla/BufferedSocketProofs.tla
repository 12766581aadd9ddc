------------------------ MODULE BufferedSocketProofs ------------------------
(***************************************************************************)
(* Proofs about BufferedSocket: its types, the agreement of the semaphore  *)
(* with the task queue, the two facts about the life time of a connection, *)
(* NoCallOnFreed and OwnerOutlivesRun, and NoStalledWrite.                 *)
(***************************************************************************)
EXTENDS BufferedSocket, TLAPS

\* A step of the queue keeps its type.
LEMMA AddTaskType ==
  ASSUME tasks \in Seq(Tasks), sem \in Nat, NEW t \in Tasks, AddTask(t)
  PROVE  tasks' \in Seq(Tasks) /\ sem' \in Nat
BY DEF AddTask, queueVars

\* The flag alone: Booleans are kept apart from what the SMT solver handles.
LEMMA FlagType ==
  ASSUME disconnecting \in BOOLEAN, [Next]_vars
  PROVE  disconnecting' \in BOOLEAN
<1> USE DEF ownerVars, queueVars, socketVars, Others, Quiet
<1>1. CASE Creator
  BY <1>1 DEF Creator, GetConnection, GetBufferedSocket, OpenSocket,
     InitMyINFOLoader, QueueStart, SetPort, CreatorDisconnect, CreatorErase,
     CreatorDelete
<1>2. CASE TaskStep
  BY <1>2 DEF TaskStep, TakeSignal, NothingQueued, StartConnect, StartAccept,
     RunUpdated, RunSendData, RunSendFile, RunDisconnect, DropTask, EndThread
<1>3. CASE ConnectStep
  BY <1>3 DEF ConnectStep, ConnectError, ConnectAttempt, ConnectFails,
     ConnectSucceeds, ConnectCancelled, AcceptSucceeds, AcceptCancelled, AcceptFails
<1>4. CASE TransferStep
  BY <1>4 DEF TransferStep, ReadData, ReadError, PollTimeout, SendCancelled,
     SendDataDone, TransmitDone
<1>5. CASE CallbackStep
  BY <1>5 DEF CallbackStep, CallbackWrite, CallbackTransmit, CallbackDisconnect,
     CallbackPut, CallbackReturn
<1>6. CASE FailStep
  BY <1>6 DEF FailStep, Notify, FailedPut, Erase, Destroy
<1>7. CASE CallerStep
  BY <1>7 DEF CallerStep, CallDisconnect, CallAddTask, CallUpdated
<1>8. CASE BeginShutdown \/ StopStep
  BY <1>8 DEF BeginShutdown, StopStep, CloseSources, SweepFlag, SweepTask,
     SweepNothing, Drained
<1>9. CASE UNCHANGED vars
  BY <1>9 DEF vars
<1> QED
  BY <1>1, <1>2, <1>3, <1>4, <1>5, <1>6, <1>7, <1>8, <1>9 DEF Next

\* The other variables.
LEMMA StatesType ==
  ASSUME StatesOK, [Next]_vars
  PROVE  StatesOK'
<1> USE DEF StatesOK, ownerVars, queueVars, socketVars, OwnerStates, Others, Quiet
<1>1. CASE Creator
  <2>1. CASE GetConnection
    BY <2>1, AddTaskType DEF GetConnection, CreatorPoints, ThreadPoints, Tasks
  <2>2. CASE GetBufferedSocket
    BY <2>2, AddTaskType DEF GetBufferedSocket, CreatorPoints, ThreadPoints, Tasks
  <2>3. CASE OpenSocket
    BY <2>3, AddTaskType DEF OpenSocket, CreatorPoints, ThreadPoints, Tasks
  <2>4. CASE InitMyINFOLoader
    BY <2>4, AddTaskType DEF InitMyINFOLoader, CreatorPoints, ThreadPoints, Tasks
  <2>5. CASE QueueStart
    BY <2>5, AddTaskType DEF QueueStart, CreatorPoints, ThreadPoints, Tasks
  <2>6. CASE SetPort
    BY <2>6, AddTaskType DEF SetPort, CreatorPoints, ThreadPoints, Tasks
  <2>7. CASE CreatorDisconnect
    BY <2>7, AddTaskType DEF CreatorDisconnect, CreatorPoints, ThreadPoints, Tasks
  <2>8. CASE CreatorErase
    BY <2>8, AddTaskType DEF CreatorErase, CreatorPoints, ThreadPoints, Tasks
  <2>9. CASE CreatorDelete
    BY <2>9, AddTaskType DEF CreatorDelete, CreatorPoints, ThreadPoints, Tasks
  <2> QED
    BY <1>1, <2>1, <2>2, <2>3, <2>4, <2>5, <2>6, <2>7, <2>8, <2>9 DEF Creator
<1>2. CASE TaskStep
  <2>1. CASE TakeSignal
    BY <2>1, AddTaskType DEF TakeSignal, Popped, Fail, ThreadPoints
  <2>2. CASE NothingQueued
    BY <2>2, AddTaskType DEF NothingQueued, Popped, Fail, ThreadPoints
  <2>3. CASE StartConnect
    BY <2>3, AddTaskType DEF StartConnect, Popped, Fail, ThreadPoints
  <2>4. CASE StartAccept
    BY <2>4, AddTaskType DEF StartAccept, Popped, Fail, ThreadPoints
  <2>5. CASE RunUpdated
    BY <2>5, AddTaskType DEF RunUpdated, Popped, Fail, ThreadPoints
  <2>6. CASE RunSendData
    BY <2>6, AddTaskType DEF RunSendData, Popped, Fail, ThreadPoints
  <2>7. CASE RunSendFile
    BY <2>7, AddTaskType DEF RunSendFile, Popped, Fail, ThreadPoints
  <2>8. CASE RunDisconnect
    BY <2>8, AddTaskType DEF RunDisconnect, Popped, Fail, ThreadPoints
  <2>9. CASE DropTask
    BY <2>9, AddTaskType DEF DropTask, Popped, Fail, ThreadPoints
  <2>10. CASE EndThread
    BY <2>10, AddTaskType DEF EndThread, Popped, Fail, ThreadPoints
  <2> QED
    BY <1>2, <2>1, <2>2, <2>3, <2>4, <2>5, <2>6, <2>7, <2>8, <2>9, <2>10 DEF TaskStep
<1>3. CASE ConnectStep
  <2>1. CASE ConnectError
    BY <2>1, AddTaskType DEF ConnectError, Fail, ThreadPoints
  <2>2. CASE ConnectAttempt
    BY <2>2, AddTaskType DEF ConnectAttempt, Fail, ThreadPoints
  <2>3. CASE ConnectFails
    BY <2>3, AddTaskType DEF ConnectFails, Fail, ThreadPoints
  <2>4. CASE ConnectSucceeds
    BY <2>4, AddTaskType DEF ConnectSucceeds, Fail, ThreadPoints
  <2>5. CASE ConnectCancelled
    BY <2>5, AddTaskType DEF ConnectCancelled, Fail, ThreadPoints
  <2>6. CASE AcceptSucceeds
    BY <2>6, AddTaskType DEF AcceptSucceeds, Fail, ThreadPoints
  <2>7. CASE AcceptCancelled
    BY <2>7, AddTaskType DEF AcceptCancelled, Fail, ThreadPoints
  <2>8. CASE AcceptFails
    BY <2>8, AddTaskType DEF AcceptFails, Fail, ThreadPoints
  <2> QED
    BY <1>3, <2>1, <2>2, <2>3, <2>4, <2>5, <2>6, <2>7, <2>8 DEF ConnectStep
<1>4. CASE TransferStep
  <2>1. CASE ReadData
    BY <2>1, AddTaskType DEF ReadData, After, Looping, Fail, ThreadPoints
  <2>2. CASE ReadError
    BY <2>2, AddTaskType DEF ReadError, After, Looping, Fail, ThreadPoints
  <2>3. CASE PollTimeout
    BY <2>3, AddTaskType DEF PollTimeout, After, Looping, Fail, ThreadPoints
  <2>4. CASE SendCancelled
    BY <2>4, AddTaskType DEF SendCancelled, After, Looping, Fail, ThreadPoints
  <2>5. CASE SendDataDone
    BY <2>5, AddTaskType DEF SendDataDone, After, Looping, Fail, ThreadPoints
  <2>6. CASE TransmitDone
    BY <2>6, AddTaskType DEF TransmitDone, After, Looping, Fail, ThreadPoints
  <2> QED
    BY <1>4, <2>1, <2>2, <2>3, <2>4, <2>5, <2>6 DEF TransferStep
<1>5. CASE CallbackStep
  <2>1. CASE CallbackWrite
    BY <2>1, AddTaskType DEF CallbackWrite, InCallback, ThreadPoints, Tasks
  <2>2. CASE CallbackTransmit
    BY <2>2, AddTaskType DEF CallbackTransmit, InCallback, ThreadPoints, Tasks
  <2>3. CASE CallbackDisconnect
    BY <2>3, AddTaskType DEF CallbackDisconnect, InCallback, ThreadPoints, Tasks
  <2>4. CASE CallbackPut
    BY <2>4, AddTaskType DEF CallbackPut, InCallback, ThreadPoints, Tasks
  <2>5. CASE CallbackReturn
    BY <2>5, AddTaskType DEF CallbackReturn, InCallback, ThreadPoints, Tasks
  <2> QED
    BY <1>5, <2>1, <2>2, <2>3, <2>4, <2>5 DEF CallbackStep
<1>6. CASE FailStep
  <2>1. CASE Notify
    BY <2>1, AddTaskType DEF Notify, ThreadPoints, Tasks
  <2>2. CASE FailedPut
    BY <2>2, AddTaskType DEF FailedPut, ThreadPoints, Tasks
  <2>3. CASE Erase
    BY <2>3, AddTaskType DEF Erase, ThreadPoints, Tasks
  <2>4. CASE Destroy
    BY <2>4, AddTaskType DEF Destroy, ThreadPoints, Tasks
  <2> QED
    BY <1>6, <2>1, <2>2, <2>3, <2>4 DEF FailStep
<1>7. CASE CallerStep
  <2> PICK c \in Callers : CallDisconnect(c) \/ CallAddTask(c) \/ CallUpdated(c)
    BY <1>7 DEF CallerStep
  <2>1. CASE CallDisconnect(c)
    BY <2>1 DEF CallDisconnect
  <2>2. CASE CallAddTask(c)
    BY <2>2, AddTaskType DEF CallAddTask, Tasks
  <2>3. CASE CallUpdated(c)
    BY <2>3, AddTaskType DEF CallUpdated, Tasks
  <2> QED
    BY <2>1, <2>2, <2>3
<1>8. CASE BeginShutdown \/ StopStep
  BY <1>8, AddTaskType DEF BeginShutdown, StopStep, Stop, CloseSources, SweepFlag,
     SweepTask, SweepNothing, Drained, StopPoints, Tasks
<1>9. CASE UNCHANGED vars
  BY <1>9 DEF vars
<1> QED
  BY <1>1, <1>2, <1>3, <1>4, <1>5, <1>6, <1>7, <1>8, <1>9 DEF Next

\* TypeOK is inductive by itself.
THEOREM TypeCorrect == Spec => []TypeOK
<1>1. Init => TypeOK
  <2>1. Init => disconnecting \in BOOLEAN
    BY DEF Init
  <2>2. Init => StatesOK
    BY DEF Init, StatesOK, OwnerStates, CreatorPoints, ThreadPoints, StopPoints, Kinds
  <2> QED
    BY <2>1, <2>2 DEF TypeOK
<1>2. TypeOK /\ [Next]_vars => TypeOK'
  BY FlagType, StatesType DEF TypeOK
<1> QED
  BY <1>1, <1>2, PTL DEF Spec

-----------------------------------------------------------------------------
\* A task and its signal come together.
QueueCounts ==
  /\ Len(tasks) = sem => Len(tasks') = sem'
  /\ Len(tasks) = sem + 1 => Len(tasks') = sem' + 1

\* What AddTask does to the queue. SHUTDOWN comes with the owner's deletion.
LEMMA AddTaskInv ==
  ASSUME tasks \in Seq(Tasks), sem \in Nat, QueueInv, NEW t \in Tasks, AddTask(t),
         owner # "deleted",
         t = "SHUTDOWN" <=> owner' = "deleted",
         creator \in {"port", "up"} \/ t \in {"CONNECT", "ACCEPTED"}
           => creator' \in {"port", "up"}
  PROVE  QueueInv' /\ QueueCounts
<1>1. CASE UNCHANGED queueVars /\ t = "DISCONNECT"
  BY <1>1 DEF QueueInv, queueVars, QueueCounts
<1>2. CASE tasks' = Append(tasks, t) /\ sem' = sem + 1
  <2>1. /\ Len(tasks') = Len(tasks) + 1
        /\ \A i \in 1..Len(tasks) : tasks'[i] = tasks[i]
        /\ tasks'[Len(tasks) + 1] = t
        /\ Len(tasks) \in Nat
    BY <1>2
  <2>2. ASSUME NEW i \in 1..Len(tasks')
        PROVE  i \in 1..Len(tasks) \/ i = Len(tasks')
    BY <2>1
  <2>3. ASSUME NEW i \in 1..Len(tasks'), tasks'[i] = "SHUTDOWN"
        PROVE  i = Len(tasks') /\ owner' = "deleted"
    BY <2>1, <2>2, <2>3 DEF QueueInv
  <2>4. ASSUME NEW i \in 1..Len(tasks'), tasks'[i] \in {"CONNECT", "ACCEPTED"}
        PROVE  creator' \in {"port", "up"}
    BY <2>1, <2>2, <2>4 DEF QueueInv
  <2> QED
    BY <1>2, <2>1, <2>3, <2>4 DEF QueueInv, QueueCounts
<1> QED
  BY <1>1, <1>2 DEF AddTask

\* LifeInv is inductive.
LEMMA LifeStep ==
  ASSUME StatesOK, LifeInv, [Next]_vars
  PROVE  LifeInv'
<1> USE DEF StatesOK, LifeInv, StartingInv, RunningInv, FailedInv, ThreadInv,
        SignalMatchesQueue, RegistryRead, registered, ownerVars, queueVars,
        socketVars, OwnerStates, Others, Quiet
<1>1. CASE Creator
  <2>1. CASE GetConnection
    BY <2>1 DEF CreatorPoints, ThreadPoints, Tasks, QueueInv, GetConnection
  <2>2. CASE GetBufferedSocket
    BY <2>2 DEF CreatorPoints, ThreadPoints, Tasks, QueueInv, GetBufferedSocket
  <2>3. CASE OpenSocket
    BY <2>3 DEF CreatorPoints, ThreadPoints, Tasks, QueueInv, OpenSocket
  <2>4. CASE InitMyINFOLoader
    BY <2>4 DEF CreatorPoints, ThreadPoints, Tasks, QueueInv, InitMyINFOLoader
  <2>5. CASE QueueStart
    <3>1. QueueInv' /\ QueueCounts
      BY <2>5, AddTaskInv DEF Tasks, QueueStart
    <3> QED
      BY <2>5, <3>1 DEF QueueCounts, CreatorPoints, ThreadPoints, QueueStart
  <2>6. CASE SetPort
    BY <2>6 DEF CreatorPoints, ThreadPoints, Tasks, QueueInv, SetPort
  <2>7. CASE CreatorDisconnect
    <3>1. QueueInv' /\ QueueCounts
      BY <2>7, AddTaskInv DEF Tasks, CreatorDisconnect
    <3> QED
      BY <2>7, <3>1 DEF QueueCounts, CreatorPoints, ThreadPoints, CreatorDisconnect
  <2>8. CASE CreatorErase
    BY <2>8 DEF CreatorPoints, ThreadPoints, Tasks, QueueInv, CreatorErase
  <2>9. CASE CreatorDelete
    <3>1. QueueInv' /\ QueueCounts
      BY <2>9, AddTaskInv DEF Tasks, CreatorDelete
    <3> QED
      BY <2>9, <3>1 DEF QueueCounts, CreatorPoints, ThreadPoints, CreatorDelete
  <2> QED
    BY <1>1, <2>1, <2>2, <2>3, <2>4, <2>5, <2>6, <2>7, <2>8, <2>9 DEF Creator
<1>2. CASE TaskStep
  <2>1. CASE TakeSignal
    BY <2>1 DEF CreatorPoints, ThreadPoints, Tasks, QueueInv, TakeSignal, Popped, Fail, Handled
  <2>2. CASE NothingQueued
    BY <2>2 DEF CreatorPoints, ThreadPoints, Tasks, QueueInv, NothingQueued, Popped, Fail, Handled
  <2>3. CASE StartConnect
    BY <2>3 DEF CreatorPoints, ThreadPoints, Tasks, QueueInv, StartConnect, Popped, Fail, Handled
  <2>4. CASE StartAccept
    BY <2>4 DEF CreatorPoints, ThreadPoints, Tasks, QueueInv, StartAccept, Popped, Fail, Handled
  <2>5. CASE RunUpdated
    BY <2>5 DEF CreatorPoints, ThreadPoints, Tasks, QueueInv, RunUpdated, Popped, Fail, Handled
  <2>6. CASE RunSendData
    BY <2>6 DEF CreatorPoints, ThreadPoints, Tasks, QueueInv, RunSendData, Popped, Fail, Handled
  <2>7. CASE RunSendFile
    BY <2>7 DEF CreatorPoints, ThreadPoints, Tasks, QueueInv, RunSendFile, Popped, Fail, Handled
  <2>8. CASE RunDisconnect
    BY <2>8 DEF CreatorPoints, ThreadPoints, Tasks, QueueInv, RunDisconnect, Popped, Fail, Handled
  <2>9. CASE DropTask
    BY <2>9 DEF CreatorPoints, ThreadPoints, Tasks, QueueInv, DropTask, Popped, Fail, Handled
  <2>10. CASE EndThread
    BY <2>10 DEF CreatorPoints, ThreadPoints, Tasks, QueueInv, EndThread, Popped, Fail, Handled
  <2> QED
    BY <1>2, <2>1, <2>2, <2>3, <2>4, <2>5, <2>6, <2>7, <2>8, <2>9, <2>10 DEF TaskStep
<1>3. CASE ConnectStep
  <2>1. CASE ConnectError
    BY <2>1 DEF CreatorPoints, ThreadPoints, Tasks, QueueInv, ConnectError, Fail
  <2>2. CASE ConnectAttempt
    BY <2>2 DEF CreatorPoints, ThreadPoints, Tasks, QueueInv, ConnectAttempt, Fail
  <2>3. CASE ConnectFails
    BY <2>3 DEF CreatorPoints, ThreadPoints, Tasks, QueueInv, ConnectFails, Fail
  <2>4. CASE ConnectSucceeds
    BY <2>4 DEF CreatorPoints, ThreadPoints, Tasks, QueueInv, ConnectSucceeds, Fail
  <2>5. CASE ConnectCancelled
    BY <2>5 DEF CreatorPoints, ThreadPoints, Tasks, QueueInv, ConnectCancelled, Fail
  <2>6. CASE AcceptSucceeds
    BY <2>6 DEF CreatorPoints, ThreadPoints, Tasks, QueueInv, AcceptSucceeds, Fail
  <2>7. CASE AcceptCancelled
    BY <2>7 DEF CreatorPoints, ThreadPoints, Tasks, QueueInv, AcceptCancelled, Fail
  <2>8. CASE AcceptFails
    BY <2>8 DEF CreatorPoints, ThreadPoints, Tasks, QueueInv, AcceptFails, Fail
  <2> QED
    BY <1>3, <2>1, <2>2, <2>3, <2>4, <2>5, <2>6, <2>7, <2>8 DEF ConnectStep
<1>4. CASE TransferStep
  <2>1. CASE ReadData
    BY <2>1 DEF CreatorPoints, ThreadPoints, Tasks, QueueInv, ReadData, After, Looping, Fail
  <2>2. CASE ReadError
    BY <2>2 DEF CreatorPoints, ThreadPoints, Tasks, QueueInv, ReadError, After, Looping, Fail
  <2>3. CASE PollTimeout
    BY <2>3 DEF CreatorPoints, ThreadPoints, Tasks, QueueInv, PollTimeout, After, Looping, Fail
  <2>4. CASE SendCancelled
    BY <2>4 DEF CreatorPoints, ThreadPoints, Tasks, QueueInv, SendCancelled, After, Looping, Fail
  <2>5. CASE SendDataDone
    BY <2>5 DEF CreatorPoints, ThreadPoints, Tasks, QueueInv, SendDataDone, After, Looping, Fail
  <2>6. CASE TransmitDone
    BY <2>6 DEF CreatorPoints, ThreadPoints, Tasks, QueueInv, TransmitDone, After, Looping, Fail
  <2> QED
    BY <1>4, <2>1, <2>2, <2>3, <2>4, <2>5, <2>6 DEF TransferStep
<1>5. CASE CallbackStep
  <2>1. CASE CallbackWrite
    <3>1. QueueInv' /\ QueueCounts
      <4>1. CASE writeBuf = "data"
        BY <2>1, <4>1 DEF CallbackWrite, InCallback, QueueInv, QueueCounts
      <4>2. CASE writeBuf # "data"
        BY <2>1, <4>2, AddTaskInv DEF Tasks, CallbackWrite, InCallback
      <4> QED
        BY <4>1, <4>2
    <3> QED
      BY <2>1, <3>1 DEF QueueCounts, CreatorPoints, ThreadPoints, CallbackWrite, InCallback
  <2>2. CASE CallbackTransmit
    <3>1. QueueInv' /\ QueueCounts
      BY <2>2, AddTaskInv DEF Tasks, CallbackTransmit, InCallback
    <3> QED
      BY <2>2, <3>1 DEF QueueCounts, CreatorPoints, ThreadPoints, CallbackTransmit, InCallback
  <2>3. CASE CallbackDisconnect
    <3>1. QueueInv' /\ QueueCounts
      BY <2>3, AddTaskInv DEF Tasks, CallbackDisconnect, InCallback
    <3> QED
      BY <2>3, <3>1 DEF QueueCounts, CreatorPoints, ThreadPoints, CallbackDisconnect, InCallback
  <2>4. CASE CallbackPut
    <3>1. QueueInv' /\ QueueCounts
      BY <2>4, AddTaskInv DEF Tasks, CallbackPut, InCallback
    <3> QED
      BY <2>4, <3>1 DEF QueueCounts, CreatorPoints, ThreadPoints, CallbackPut, InCallback
  <2>5. CASE CallbackReturn
    BY <2>5 DEF CreatorPoints, ThreadPoints, Tasks, QueueInv, CallbackReturn, InCallback
  <2> QED
    BY <1>5, <2>1, <2>2, <2>3, <2>4, <2>5 DEF CallbackStep
<1>6. CASE FailStep
  <2>1. CASE Notify
    BY <2>1 DEF CreatorPoints, ThreadPoints, Tasks, QueueInv, Notify
  <2>2. CASE FailedPut
    <3>1. QueueInv' /\ QueueCounts
      <4>1. CASE ~registered
        BY <2>2, <4>1 DEF FailedPut, QueueInv, QueueCounts
      <4>2. CASE registered
        BY <2>2, <4>2, AddTaskInv DEF Tasks, FailedPut
      <4> QED
        BY <4>1, <4>2
    <3> QED
      BY <2>2, <3>1 DEF QueueCounts, CreatorPoints, ThreadPoints, FailedPut
  <2>3. CASE Erase
    BY <2>3 DEF CreatorPoints, ThreadPoints, Tasks, QueueInv, Erase
  <2>4. CASE Destroy
    <3>1. QueueInv' /\ QueueCounts
      BY <2>4, AddTaskInv DEF Tasks, Destroy
    <3> QED
      BY <2>4, <3>1 DEF QueueCounts, CreatorPoints, ThreadPoints, Destroy
  <2> QED
    BY <1>6, <2>1, <2>2, <2>3, <2>4 DEF FailStep
<1>7. CASE CallerStep
  <2> PICK c \in Callers : CallDisconnect(c) \/ CallAddTask(c) \/ CallUpdated(c)
    BY <1>7 DEF CallerStep
  <2>1. CASE CallDisconnect(c)
    BY <2>1 DEF CallDisconnect, Known, QueueInv
  <2>2. CASE CallAddTask(c)
    <3>1. QueueInv' /\ QueueCounts
      BY <2>2, AddTaskInv DEF Tasks, CallAddTask, Tasks
    <3> QED
      BY <2>2, <3>1 DEF QueueCounts, CallAddTask
  <2>3. CASE CallUpdated(c)
    <3>1. QueueInv' /\ QueueCounts
      BY <2>3, AddTaskInv DEF Tasks, CallUpdated, Known, Tasks
    <3> QED
      BY <2>3, <3>1 DEF QueueCounts, CallUpdated, Known
  <2> QED
    BY <2>1, <2>2, <2>3
<1>8. CASE BeginShutdown \/ StopStep
  <2>1. CASE SweepTask
    <3>1. QueueInv' /\ QueueCounts
      BY <2>1, AddTaskInv DEF SweepTask, Stop, Tasks
    <3> QED
      BY <2>1, <3>1 DEF QueueCounts, SweepTask, Stop
  <2>2. CASE BeginShutdown \/ CloseSources \/ SweepFlag \/ SweepNothing \/ Drained
    BY <2>2 DEF BeginShutdown, Stop, CloseSources, SweepFlag, SweepNothing, Drained,
       QueueInv
  <2> QED
    BY <1>8, <2>1, <2>2 DEF StopStep
<1>9. CASE UNCHANGED vars
  BY <1>9 DEF vars, QueueInv
<1> QED
  BY <1>1, <1>2, <1>3, <1>4, <1>5, <1>6, <1>7, <1>8, <1>9 DEF Next


\* The invariant of every behaviour.
LEMMA LifeCorrect == Spec => []LifeInv
<1>1. Init => LifeInv
  BY DEF Init, LifeInv, StartingInv, RunningInv, FailedInv, ThreadInv, QueueInv,
     SignalMatchesQueue, RegistryRead, registered
<1>2. StatesOK /\ LifeInv /\ [Next]_vars => LifeInv'
  BY LifeStep
<1>3. TypeOK => StatesOK
  BY DEF TypeOK
<1> QED
  BY <1>1, <1>2, <1>3, TypeCorrect, PTL DEF Spec

\* The semaphore counts the queued tasks: checkEvents' dcassert that a signal
\* always finds a task holds, for any number of callers and calls.
THEOREM SignalCorrect == Spec => []SignalMatchesQueue
<1>1. LifeInv => SignalMatchesQueue
  BY DEF LifeInv
<1> QED
  BY <1>1, LifeCorrect, PTL

\* No thread that reaches the connection through a registry finds it freed.
THEOREM CallsCorrect == Spec => []NoCallOnFreed
<1>1. LifeInv => NoCallOnFreed
  BY DEF LifeInv, NoCallOnFreed, ThreadInv, registered
<1> QED
  BY <1>1, LifeCorrect, PTL

\* A connection that ran reports Failed before it is destroyed.
THEOREM OwnerCorrect == Spec => []OwnerOutlivesRun
<1>1. StatesOK /\ LifeInv => OwnerOutlivesRun
  BY DEF LifeInv, OwnerOutlivesRun, StatesOK, StartingInv, RunningInv, FailedInv
<1>2. TypeOK => StatesOK
  BY DEF TypeOK
<1> QED
  BY <1>1, <1>2, TypeCorrect, LifeCorrect, PTL

-----------------------------------------------------------------------------
SendQueued == \E i \in DOMAIN tasks : tasks[i] = "SEND_DATA"

\* Only callbacks of a running socket write.
WriteInv == NoStalledWrite /\ (state = "STARTING" => writeBuf = "empty")

LEMMA AddTaskKeepsSend ==
  ASSUME tasks \in Seq(Tasks), NEW t \in Tasks, AddTask(t), SendQueued \/ t = "SEND_DATA"
  PROVE  SendQueued'
<1>1. CASE tasks' = tasks /\ SendQueued
  BY <1>1 DEF SendQueued
<1>2. CASE tasks' = Append(tasks, t)
  <2>1. /\ DOMAIN tasks = 1..Len(tasks) /\ Len(tasks) \in Nat
        /\ DOMAIN tasks' = 1..(Len(tasks) + 1)
        /\ \A i \in 1..Len(tasks) : tasks'[i] = tasks[i]
        /\ tasks'[Len(tasks) + 1] = t
    BY <1>2
  <2>2. CASE t = "SEND_DATA"
    BY <2>1, <2>2 DEF SendQueued
  <2>3. CASE SendQueued
    <3>1. PICK i \in 1..Len(tasks) : tasks[i] = "SEND_DATA"
      BY <2>1, <2>3 DEF SendQueued
    <3>2. i \in DOMAIN tasks' /\ tasks'[i] = "SEND_DATA"
      BY <2>1, <3>1
    <3>. QED
      BY <3>2 DEF SendQueued
  <2>. QED
    BY <2>2, <2>3
<1>. QED
  BY <1>1, <1>2 DEF AddTask, queueVars

LEMMA PopKeepsSend ==
  ASSUME tasks \in Seq(Tasks), tasks # <<>>, Head(tasks) # "SEND_DATA", tasks' = Tail(tasks),
         SendQueued
  PROVE  SendQueued'
<1>1. PICK i \in 1..Len(tasks) : tasks[i] = "SEND_DATA"
  BY DEF SendQueued
<1>2. i # 1 /\ Len(tasks) \in Nat
  BY <1>1
<1>3. i - 1 \in 1..Len(tasks') /\ tasks'[i - 1] = tasks[i] /\ DOMAIN tasks' = 1..Len(tasks')
  BY <1>1, <1>2
<1>. QED
  BY <1>1, <1>3 DEF SendQueued

\* A step that leaves buffer and queue alone, and starts nothing.
LEMMA NoWriteKeeps ==
  ASSUME WriteInv, UNCHANGED <<tasks, writeBuf>>,
         state' = state \/ state' = "FAILED"
  PROVE  WriteInv'
BY DEF WriteInv, NoStalledWrite

\* So does one that adds a task.
LEMMA AddWriteKeeps ==
  ASSUME WriteInv, StatesOK, NEW t \in Tasks, AddTask(t), UNCHANGED <<state, writeBuf>>
  PROVE  WriteInv'
<1>1. SendQueued => SendQueued'
  BY AddTaskKeepsSend DEF StatesOK
<1>. QED
  BY <1>1 DEF WriteInv, NoStalledWrite, SendQueued

LEMMA WriteStep ==
  ASSUME StatesOK, LifeInv, WriteInv, [Next]_vars
  PROVE  WriteInv'
<1>. USE DEF ownerVars, queueVars, socketVars, Others, Quiet
<1>1. CASE Creator
  <2>1. CASE QueueStart \/ CreatorDisconnect \/ CreatorDelete
    BY <2>1, AddWriteKeeps DEF QueueStart, CreatorDisconnect, CreatorDelete, Tasks
  <2>2. CASE GetConnection \/ GetBufferedSocket \/ OpenSocket \/ InitMyINFOLoader \/ SetPort
               \/ CreatorErase
    BY <2>2, NoWriteKeeps DEF GetConnection, GetBufferedSocket, OpenSocket, InitMyINFOLoader,
       SetPort, CreatorErase
  <2>. QED
    BY <1>1, <2>1, <2>2 DEF Creator
<1>2. CASE TaskStep
  <2>1. CASE TakeSignal \/ NothingQueued
    BY <2>1, NoWriteKeeps DEF TakeSignal, NothingQueued
  <2>2. CASE StartConnect \/ StartAccept
    BY <2>2 DEF StartConnect, StartAccept, Popped, WriteInv, NoStalledWrite
  <2>3. CASE RunSendData
    BY <2>3 DEF RunSendData, WriteInv, NoStalledWrite
  <2>4. CASE RunDisconnect
    BY <2>4 DEF RunDisconnect, Fail, Popped, WriteInv, NoStalledWrite
  <2>5. CASE RunUpdated \/ RunSendFile \/ DropTask
    <3>1. PICK t \in Tasks : Popped(t) /\ (state = "RUNNING" => t # "SEND_DATA")
      BY <2>5 DEF RunUpdated, RunSendFile, DropTask, Handled, Tasks
    <3>2. UNCHANGED <<state, writeBuf>>
      BY <2>5 DEF RunUpdated, RunSendFile, DropTask
    <3>3. state = "RUNNING" /\ SendQueued => SendQueued'
      BY <3>1, PopKeepsSend DEF StatesOK, Popped
    <3>. QED
      BY <3>2, <3>3 DEF WriteInv, NoStalledWrite, SendQueued
  <2>6. CASE EndThread
    <3>1. state # "RUNNING"
      <4>1. Len(tasks) = sem + 1 /\ sem \in Nat
        BY <2>6 DEF EndThread, LifeInv, SignalMatchesQueue, StatesOK
      <4>2. 1 \in 1..Len(tasks) /\ tasks[1] = "SHUTDOWN"
        BY <2>6, <4>1 DEF EndThread, StatesOK
      <4>. QED
        BY <4>2 DEF LifeInv, QueueInv, RunningInv
    <3>. QED
      BY <2>6, <3>1 DEF EndThread, WriteInv, NoStalledWrite
  <2>. QED
    BY <1>2, <2>1, <2>2, <2>3, <2>4, <2>5, <2>6 DEF TaskStep
<1>3. CASE ConnectStep
  BY <1>3, NoWriteKeeps DEF ConnectStep, ConnectError, ConnectAttempt, ConnectFails,
     ConnectSucceeds, ConnectCancelled, AcceptSucceeds, AcceptCancelled, AcceptFails, Fail
<1>4. CASE TransferStep
  BY <1>4, NoWriteKeeps DEF TransferStep, ReadData, ReadError, PollTimeout, SendCancelled,
     SendDataDone, TransmitDone, Fail
<1>5. CASE CallbackStep
  <2>1. CASE CallbackWrite
    <3>1. state = "RUNNING" /\ state' = "RUNNING"
      BY <2>1 DEF CallbackWrite, InCallback, StatesOK, LifeInv, StartingInv, FailedInv
    <3>2. CASE writeBuf = "data"
      BY <2>1, <3>1, <3>2 DEF CallbackWrite, WriteInv, NoStalledWrite
    <3>3. CASE writeBuf # "data"
      <4>1. SendQueued'
        BY <2>1, <3>3, AddTaskKeepsSend DEF CallbackWrite, StatesOK, Tasks
      <4>. QED
        BY <3>1, <4>1 DEF WriteInv, NoStalledWrite, SendQueued
    <3>. QED
      BY <3>2, <3>3
  <2>2. CASE CallbackTransmit \/ CallbackDisconnect \/ CallbackPut
    BY <2>2, AddWriteKeeps DEF CallbackTransmit, CallbackDisconnect, CallbackPut, Tasks
  <2>3. CASE CallbackReturn
    BY <2>3, NoWriteKeeps DEF CallbackReturn
  <2>. QED
    BY <1>5, <2>1, <2>2, <2>3 DEF CallbackStep
<1>6. CASE FailStep
  <2>1. CASE FailedPut /\ registered
    BY <2>1, AddWriteKeeps DEF FailedPut, Tasks
  <2>2. CASE Destroy
    BY <2>2, AddWriteKeeps DEF Destroy, Tasks
  <2>3. CASE Notify \/ Erase \/ (FailedPut /\ ~registered)
    BY <2>3, NoWriteKeeps DEF Notify, Erase, FailedPut
  <2>. QED
    BY <1>6, <2>1, <2>2, <2>3 DEF FailStep
<1>7. CASE CallerStep
  <2>. PICK c \in Callers : CallDisconnect(c) \/ CallAddTask(c) \/ CallUpdated(c)
    BY <1>7 DEF CallerStep
  <2>1. CASE CallDisconnect(c)
    BY <2>1, NoWriteKeeps DEF CallDisconnect
  <2>2. CASE CallAddTask(c) \/ CallUpdated(c)
    BY <2>2, AddWriteKeeps DEF CallAddTask, CallUpdated, Tasks
  <2>. QED
    BY <2>1, <2>2
<1>8. CASE BeginShutdown \/ StopStep
  <2>1. CASE SweepTask
    BY <2>1, AddWriteKeeps DEF SweepTask, Tasks
  <2>2. CASE BeginShutdown \/ CloseSources \/ SweepFlag \/ SweepNothing \/ Drained
    BY <2>2, NoWriteKeeps DEF BeginShutdown, CloseSources, SweepFlag, SweepNothing, Drained
  <2>. QED
    BY <1>8, <2>1, <2>2 DEF StopStep
<1>9. CASE UNCHANGED vars
  BY <1>9, NoWriteKeeps DEF vars
<1>. QED
  BY <1>1, <1>2, <1>3, <1>4, <1>5, <1>6, <1>7, <1>8, <1>9 DEF Next

\* Bytes in the buffer of a running socket have a SEND_DATA on its way: what
\* write() relies on when it queues one for the first bytes only.
THEOREM WriteCorrect == Spec => []NoStalledWrite
<1>1. Init => WriteInv
  BY DEF Init, WriteInv, NoStalledWrite
<1>2. TypeOK /\ LifeInv /\ WriteInv /\ [Next]_vars => WriteInv'
  BY WriteStep DEF TypeOK
<1>3. WriteInv => NoStalledWrite
  BY DEF WriteInv
<1>. QED
  BY <1>1, <1>2, <1>3, TypeCorrect, LifeCorrect, PTL DEF Spec
=============================================================================
