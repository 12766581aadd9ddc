-------------------------- MODULE SocketLifeProofs --------------------------
(***************************************************************************)
(* BufferedSocket implements SocketLife: what a connection promises its    *)
(* owner holds whoever calls it, however often, and however the program is *)
(* shut down.  Eight actions are steps of SocketLife, the others stutter.  *)
(*                                                                         *)
(* LifeInv says where the thread and the owner can be; HeardInv adds what  *)
(* the owner has heard at the places where he is told something more.      *)
(***************************************************************************)
EXTENDS BufferedSocketProofs

Unfailed == {<<>>, <<"Connecting">>, <<"Connecting", "Connected">>}

HeardInv ==
  /\ thread \in {"connect", "polling"} => heard = <<"Connecting">>
  /\ state = "RUNNING" \/ thread = "notify" => heard \in Unfailed

SocketInv == StatesOK /\ LifeInv /\ HeardInv

\* The owner of SocketLife.
lifeOwner == IF owner \in {"registered", "erased"} THEN "alive" ELSE owner

Alive == owner \in {"registered", "erased"}
Runs == thread \notin {"none", "gone"}

\* A step SocketLife does not see.
Stutters == UNCHANGED heard /\ Alive' = Alive /\ (Alive \/ owner' = owner) /\ Runs' = Runs

LEMMA StuttersLife ==
  ASSUME Stutters
  PROVE  UNCHANGED Life!vars
  BY DEF Stutters, Alive, Runs, Life!vars

\* What the places where the owner is told something say of him.
LEMMA Places ==
  ASSUME SocketInv
  PROVE  /\ creator = "idle" => owner = "none" /\ ~Runs
         /\ creator = "made" => Alive /\ thread = "none"
         /\ creator = "deleting" => Alive /\ Runs /\ heard = <<>> /\ owner = "erased"
         /\ thread = "polling" => Alive /\ Runs /\ heard = <<"Connecting">> /\ state = "RUNNING"
         /\ thread = "notify" => Alive /\ Runs /\ heard \in Unfailed /\ state = "FAILED"
         /\ thread = "destroy" => Alive /\ Runs /\ heard # <<>> /\ heard[Len(heard)] = "Failed"
  BY DEF SocketInv, StatesOK, LifeInv, HeardInv, StartingInv, RunningInv, FailedInv, ThreadInv,
         Alive, Runs, OwnerStates

\* Two places where a task begins or ends the connection.
LEMMA TaskPlaces ==
  ASSUME SocketInv
  PROVE  /\ StartConnect \/ StartAccept => Alive /\ heard = <<>>
         /\ EndThread => owner = "deleted"
<1>1. ASSUME NEW t \in {"CONNECT", "ACCEPTED"}, Popped(t), state = "STARTING"
      PROVE  Alive /\ heard = <<>>
  <2>1. 1 \in 1..Len(tasks) /\ tasks[1] = t
    BY <1>1 DEF Popped, SocketInv, StatesOK
  <2>2. creator \in {"port", "up"}
    BY <1>1, <2>1 DEF SocketInv, LifeInv, QueueInv
  <2>. QED
    BY <1>1, <2>2 DEF SocketInv, LifeInv, StartingInv, StatesOK, OwnerStates, Alive
<1>2. ASSUME EndThread PROVE owner = "deleted"
  <2>1. Len(tasks) = sem + 1 /\ sem \in Nat
    BY <1>2 DEF EndThread, SocketInv, LifeInv, SignalMatchesQueue, StatesOK
  <2>2. 1 \in 1..Len(tasks) /\ tasks[1] = "SHUTDOWN"
    BY <1>2, <2>1 DEF EndThread, SocketInv, StatesOK
  <2>. QED
    BY <2>2 DEF SocketInv, LifeInv, QueueInv
<1>. QED
  BY <1>1, <1>2 DEF StartConnect, StartAccept

-----------------------------------------------------------------------------
(* The steps that SocketLife sees.                                         *)

LEMMA OwnerSteps ==
  ASSUME SocketInv
  PROVE  /\ GetConnection => Life!Create
         /\ GetBufferedSocket => Life!Begin
         /\ CreatorDelete \/ Destroy => Life!Leave
         /\ EndThread => Life!End
<1>. USE DEF Alive, Runs, Others, queueVars, socketVars, ownerVars
<1>1. GetConnection => Life!Create
  BY Places DEF GetConnection, Life!Create
<1>2. GetBufferedSocket => Life!Begin
  BY Places DEF GetBufferedSocket, Life!Begin
<1>3. CreatorDelete => Life!Leave
  BY Places DEF CreatorDelete, Life!Leave
<1>4. Destroy => Life!Leave
  <2>. HAVE Destroy
  <2>1. Alive /\ Runs /\ heard # <<>> /\ heard[Len(heard)] = "Failed"
    BY Places DEF Destroy
  <2>2. Life!Heard("Failed")
    BY <2>1 DEF Life!Heard, SocketInv, StatesOK
  <2>. QED
    BY <2>1, <2>2 DEF Destroy, Life!Leave
<1>5. EndThread => Life!End
  BY TaskPlaces DEF EndThread, Life!End
<1>. QED
  BY <1>1, <1>2, <1>3, <1>4, <1>5

LEMMA EventSteps ==
  ASSUME SocketInv
  PROVE  /\ StartConnect => Life!Hear("Connecting")
         /\ ConnectSucceeds => Life!Hear("Connected") \/ Stutters
         /\ Notify => Life!Hear("Failed")
<1>. USE DEF Alive, Runs, Others, queueVars, socketVars, ownerVars
<1>1. StartConnect => Life!Hear("Connecting")
  <2>. HAVE StartConnect
  <2>1. Alive /\ heard = <<>> /\ ~Life!Heard("Connecting") /\ ~Life!Heard("Failed")
    BY TaskPlaces DEF Life!Heard
  <2>. QED
    BY <2>1 DEF StartConnect, Popped, Life!Hear
<1>2. ConnectSucceeds => Life!Hear("Connected") \/ Stutters
  <2>. HAVE ConnectSucceeds
  <2>0. thread = "polling"
    BY DEF ConnectSucceeds
  <2>1. Alive /\ Runs /\ heard = <<"Connecting">>
    BY <2>0, Places
  <2>2. Life!Heard("Connecting") /\ ~Life!Heard("Connected") /\ ~Life!Heard("Failed")
    BY <2>1 DEF Life!Heard
  <2>3. CASE disconnecting
    BY <2>0, <2>3 DEF ConnectSucceeds, Stutters
  <2>4. CASE ~disconnecting
    BY <2>0, <2>1, <2>2, <2>4 DEF ConnectSucceeds, Life!Hear
  <2>. QED
    BY <2>3, <2>4
<1>3. Notify => Life!Hear("Failed")
  <2>. HAVE Notify
  <2>1. Alive /\ Runs /\ heard \in Unfailed
    BY Places DEF Notify
  <2>2. ~Life!Heard("Failed")
    BY <2>1 DEF Life!Heard, Unfailed
  <2>. QED
    BY <2>1, <2>2 DEF Notify, Life!Hear
<1>. QED
  BY <1>1, <1>2, <1>3

-----------------------------------------------------------------------------
(* The other steps stutter.                                                *)

LEMMA CreatorStutters ==
  ASSUME SocketInv, Creator
  PROVE  GetConnection \/ GetBufferedSocket \/ CreatorDelete \/ Stutters
<1>1. OpenSocket \/ InitMyINFOLoader \/ QueueStart \/ SetPort \/ CreatorDisconnect => Stutters
  BY DEF OpenSocket, InitMyINFOLoader, QueueStart, SetPort, CreatorDisconnect, Stutters, Alive, Runs
<1>2. CreatorErase => Stutters
  <2>. HAVE CreatorErase
  <2>1. creator = "erasing" /\ heard' = heard /\ thread' = thread /\ owner' = "erased"
    BY DEF CreatorErase
  <2>2. owner = "registered"
    BY <2>1 DEF SocketInv, StatesOK, LifeInv, StartingInv, RunningInv, FailedInv, OwnerStates
  <2>. QED
    BY <2>1, <2>2 DEF Stutters, Alive, Runs
<1>. QED
  BY <1>1, <1>2 DEF Creator

LEMMA TaskStutters ==
  ASSUME TaskStep
  PROVE  StartConnect \/ EndThread \/ Stutters
<1>1. TakeSignal \/ NothingQueued => Stutters
  BY DEF TakeSignal, NothingQueued, Stutters, Alive, Runs
<1>2. StartAccept \/ RunUpdated \/ RunSendData \/ RunSendFile \/ RunDisconnect => Stutters
  BY DEF StartAccept, RunUpdated, RunSendData, RunSendFile, RunDisconnect, Popped, Fail,
         Stutters, Alive, Runs
<1>3. DropTask => Stutters
  BY DEF DropTask, Popped, Stutters, Alive, Runs
<1>. QED
  BY <1>1, <1>2, <1>3 DEF TaskStep

LEMMA SocketStutters ==
  ASSUME SocketInv, ConnectStep \/ TransferStep \/ CallbackStep
  PROVE  ConnectSucceeds \/ Stutters
<1>. USE DEF Quiet, Others, Stutters, Alive, Runs
<1>1. ConnectError \/ ConnectAttempt \/ ConnectFails \/ ConnectCancelled => Stutters
  BY DEF ConnectError, ConnectAttempt, ConnectFails, ConnectCancelled, Fail
<1>2. AcceptSucceeds \/ AcceptCancelled \/ AcceptFails => Stutters
  BY DEF AcceptSucceeds, AcceptCancelled, AcceptFails, Fail
<1>3. TransferStep => Stutters
  BY DEF TransferStep, ReadData, ReadError, PollTimeout, SendCancelled, SendDataDone,
         TransmitDone, Looping, After, Fail
<1>4. CallbackWrite \/ CallbackTransmit \/ CallbackDisconnect \/ CallbackPut => Stutters
  BY DEF CallbackWrite, CallbackTransmit, CallbackDisconnect, CallbackPut, InCallback
<1>5. CallbackReturn => Stutters
  BY DEF CallbackReturn, SocketInv, StatesOK
<1>. QED
  BY <1>1, <1>2, <1>3, <1>4, <1>5 DEF ConnectStep, CallbackStep

LEMMA FailStutters ==
  ASSUME SocketInv, FailStep
  PROVE  Notify \/ Destroy \/ Stutters
<1>1. FailedPut => Stutters
  BY DEF FailedPut, Others, Stutters, Alive, Runs
<1>2. Erase => Stutters
  <2>. HAVE Erase
  <2>1. Alive
    BY DEF Erase, SocketInv, StatesOK, LifeInv, StartingInv, RunningInv, FailedInv, OwnerStates, Alive
  <2>. QED
    BY <2>1 DEF Erase, Stutters, Alive, Runs
<1>. QED
  BY <1>1, <1>2 DEF FailStep

LEMMA OthersStutter ==
  ASSUME CallerStep \/ BeginShutdown \/ StopStep \/ UNCHANGED vars
  PROVE  Stutters /\ thread' = thread
<1>. USE DEF ownerVars, Stutters, Alive, Runs
<1>1. CallerStep => Stutters /\ thread' = thread
  BY DEF CallerStep, CallDisconnect, CallAddTask, CallUpdated
<1>2. BeginShutdown \/ StopStep => Stutters /\ thread' = thread
  BY DEF BeginShutdown, StopStep, CloseSources, SweepFlag, SweepTask, SweepNothing, Drained, Stop
<1>3. UNCHANGED vars => Stutters /\ thread' = thread
  BY DEF vars
<1>. QED
  BY <1>1, <1>2, <1>3

\* Every step of a connection is a step of SocketLife or stutters.
LEMMA NextImplements ==
  ASSUME SocketInv, [Next]_vars
  PROVE  [Life!Next]_(Life!vars)
<1>1. CASE Creator
  BY <1>1, CreatorStutters, OwnerSteps, StuttersLife DEF Life!Next
<1>2. CASE TaskStep
  BY <1>2, TaskStutters, OwnerSteps, EventSteps, StuttersLife DEF Life!Next
<1>3. CASE ConnectStep \/ TransferStep \/ CallbackStep
  BY <1>3, SocketStutters, EventSteps, StuttersLife DEF Life!Next
<1>4. CASE FailStep
  BY <1>4, FailStutters, OwnerSteps, EventSteps, StuttersLife DEF Life!Next
<1>5. CASE CallerStep \/ BeginShutdown \/ StopStep \/ UNCHANGED vars
  BY <1>5, OthersStutter, StuttersLife
<1>. QED
  BY <1>1, <1>2, <1>3, <1>4, <1>5 DEF Next

-----------------------------------------------------------------------------
(* HeardInv is inductive.                                                  *)

\* A step that tells the owner nothing and neither begins to connect nor fails.
LEMMA QuietHeard ==
  ASSUME HeardInv, UNCHANGED heard,
         thread' \in {"connect", "polling"} => thread \in {"connect", "polling"},
         state' = "RUNNING" \/ thread' = "notify" => state = "RUNNING" \/ thread = "notify"
  PROVE  HeardInv'
  BY DEF HeardInv

LEMMA HeardStep ==
  ASSUME SocketInv, [Next]_vars
  PROVE  HeardInv'
<1>0. HeardInv
  BY DEF SocketInv
<1>. USE DEF Others, Quiet, queueVars, socketVars, ownerVars
<1>1. CASE Creator
  BY <1>0, <1>1, QuietHeard DEF Creator, GetConnection, GetBufferedSocket, OpenSocket,
     InitMyINFOLoader, QueueStart, SetPort, CreatorDisconnect, CreatorErase, CreatorDelete
<1>2. CASE TaskStep
  <2>1. CASE StartConnect
    <3>1. heard' = <<"Connecting">>
      BY <2>1, TaskPlaces DEF StartConnect
    <3>. QED
      BY <3>1 DEF HeardInv, Unfailed
  <2>2. CASE StartAccept
    BY <2>2, TaskPlaces DEF StartAccept, HeardInv, Unfailed
  <2>3. CASE TakeSignal \/ NothingQueued \/ EndThread
    BY <1>0, <2>3, QuietHeard DEF TakeSignal, NothingQueued, EndThread
  <2>4. CASE RunUpdated \/ RunSendData \/ RunSendFile \/ RunDisconnect \/ DropTask
    BY <1>0, <2>4, QuietHeard DEF RunUpdated, RunSendData, RunSendFile, RunDisconnect,
       DropTask, Popped, Fail
  <2>. QED
    BY <1>2, <2>1, <2>2, <2>3, <2>4 DEF TaskStep
<1>3. CASE ConnectStep
  <2>1. CASE ConnectSucceeds
    <3>1. thread = "polling" /\ heard = <<"Connecting">>
      BY <2>1, Places DEF ConnectSucceeds
    <3>2. heard' \in Unfailed /\ thread' \in {"check", "callback"}
      BY <2>1, <3>1 DEF ConnectSucceeds, Unfailed
    <3>. QED
      BY <3>2 DEF HeardInv
  <2>2. CASE ConnectError \/ ConnectAttempt \/ ConnectFails \/ ConnectCancelled
    <3>1. thread \in {"connect", "polling"} /\ heard' = heard
      BY <2>2 DEF ConnectError, ConnectAttempt, ConnectFails, ConnectCancelled
    <3>. QED
      BY <1>0, <3>1 DEF HeardInv, Unfailed
  <2>3. CASE AcceptSucceeds \/ AcceptCancelled \/ AcceptFails
    <3>1. thread = "accept" /\ state = "RUNNING"
      BY <2>3 DEF AcceptSucceeds, AcceptCancelled, AcceptFails, SocketInv, StatesOK, LifeInv,
         StartingInv, FailedInv
    <3>. QED
      BY <1>0, <2>3, <3>1, QuietHeard DEF AcceptSucceeds, AcceptCancelled, AcceptFails, Fail
  <2>. QED
    BY <1>3, <2>1, <2>2, <2>3 DEF ConnectStep
<1>4. CASE TransferStep
  <2>1. state = "RUNNING"
    BY <1>4 DEF TransferStep, ReadData, ReadError, PollTimeout, SendCancelled, SendDataDone,
       TransmitDone, Looping, After, SocketInv, StatesOK, LifeInv, StartingInv, FailedInv
  <2>. QED
    BY <1>0, <1>4, <2>1, QuietHeard DEF TransferStep, ReadData, ReadError, PollTimeout,
       SendCancelled, SendDataDone, TransmitDone, Looping, After, Fail
<1>5. CASE CallbackStep
  BY <1>0, <1>5, QuietHeard DEF CallbackStep, CallbackWrite, CallbackTransmit,
     CallbackDisconnect, CallbackPut, CallbackReturn, InCallback, SocketInv, StatesOK
<1>6. CASE FailStep
  <2>1. CASE Notify
    BY <2>1, Places DEF Notify, HeardInv
  <2>2. CASE FailedPut \/ Erase \/ Destroy
    BY <1>0, <2>2, QuietHeard DEF FailedPut, Erase, Destroy
  <2>. QED
    BY <1>6, <2>1, <2>2 DEF FailStep
<1>7. CASE CallerStep \/ BeginShutdown \/ StopStep \/ UNCHANGED vars
  <2>1. UNCHANGED state
    BY <1>7 DEF CallerStep, CallDisconnect, CallAddTask, CallUpdated, BeginShutdown, StopStep,
       CloseSources, SweepFlag, SweepTask, SweepNothing, Drained, vars
  <2>. QED
    BY <1>0, <1>7, <2>1, OthersStutter, QuietHeard DEF Stutters
<1>. QED
  BY <1>1, <1>2, <1>3, <1>4, <1>5, <1>6, <1>7 DEF Next

LEMMA HeardCorrect == Spec => []HeardInv
<1>1. Init => HeardInv
  BY DEF Init, HeardInv
<1>2. TypeOK /\ LifeInv /\ HeardInv /\ [Next]_vars => HeardInv'
  BY HeardStep DEF SocketInv, TypeOK
<1>. QED
  BY <1>1, <1>2, TypeCorrect, LifeCorrect, PTL DEF Spec

-----------------------------------------------------------------------------
\* A connection keeps its promise to its owner: Connecting, Connected and Failed
\* at most once, in that order, while the owner lives; he goes after Failed or
\* before anything began, and then the thread ends for good.
THEOREM LifeImplemented == Spec => LifeSpec
<1>1. Init => Life!Init
  BY DEF Init, Life!Init
<1>2. TypeOK /\ LifeInv /\ HeardInv /\ [Next]_vars => [Life!Next]_(Life!vars)
  BY NextImplements DEF SocketInv, TypeOK
<1>. QED
  BY <1>1, <1>2, TypeCorrect, LifeCorrect, HeardCorrect, PTL DEF Spec, LifeSpec, Life!Spec
=============================================================================
