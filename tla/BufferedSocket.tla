--------------------------- MODULE BufferedSocket ---------------------------
(***************************************************************************)
(* One BufferedSocket, the UserConnection that owns it, and the threads    *)
(* that reach it:                                                          *)
(*   creator   the thread inside ConnectionManager::nmdcConnect,           *)
(*             adcConnect or accept that builds the connection,            *)
(*   thread    the socket's own thread, BufferedSocket::run,               *)
(*   caller    threads that find the connection in a locked registry of a  *)
(*             manager and call disconnect() or updated() on it,           *)
(*   stop      the main thread going through the program's shutdown.       *)
(* The only channel between them and the socket thread is the task queue   *)
(* with its semaphore and the flag m_is_disconnecting.                     *)
(***************************************************************************)
EXTENDS Integers, Sequences

CONSTANTS Callers,   \* threads that use the managers' registries
          MaxCalls   \* bound: calls made on the connection after it started

ASSUME CallsAssumption == MaxCalls \in Nat

VARIABLES
  kind,          \* how the connection is made: see Kinds
  creator,       \* control point of the creating thread
  owner,         \* the UserConnection: see OwnerStates
  tasks,         \* m_tasks
  sem,           \* count of m_socket_semaphore
  state,         \* m_state
  disconnecting, \* m_is_disconnecting
  writeBuf,      \* m_writeBuf: "empty" or "data"
  thread,        \* control point of the socket thread
  back,          \* where the socket thread goes on after a callback
  heard,         \* connection events delivered to the owner, in order
  caller,        \* control point of each caller
  stop,          \* control point of the shutting-down main thread
  calls          \* calls made so far, for the bound MaxCalls

ownerVars  == <<kind, creator, owner>>
queueVars  == <<tasks, sem>>
socketVars == <<state, disconnecting, writeBuf>>
vars == <<ownerVars, queueVars, socketVars, thread, back, heard, caller,
          stop, calls>>

\* "nat" is a connect with a natRole other than NAT_NONE.
Kinds == {"connect", "nat", "accept"}

Tasks == {"CONNECT", "DISCONNECT", "SEND_DATA", "SEND_FILE", "SHUTDOWN",
          "ACCEPTED", "UPDATED"}

\* "registered" while in g_userConnections, "erased" from there to its delete.
OwnerStates == {"none", "registered", "erased", "deleted"}

CreatorPoints == {"idle", "made", "started", "opened", "reset", "port", "up",
                  "throwing", "erasing", "deleting", "abandoned"}

ThreadPoints == {"none", "check", "pop", "connect", "polling", "accept",
                 "socket", "send", "file", "callback", "put", "notify",
                 "failed", "unregister", "destroy", "gone"}

StopPoints == {"no", "before", "closed", "sweeping", "waiting", "done"}

StatesOK ==
  /\ kind \in Kinds
  /\ creator \in CreatorPoints
  /\ owner \in OwnerStates
  /\ tasks \in Seq(Tasks)
  /\ sem \in Nat
  /\ state \in {"STARTING", "RUNNING", "FAILED"}
  /\ writeBuf \in {"empty", "data"}
  /\ thread \in ThreadPoints
  /\ back \in {"check", "socket", "send", "file"}
  /\ heard \in Seq({"Connecting", "Connected", "Failed"})
  /\ caller \in [Callers -> {"idle", "adding"}]
  /\ stop \in StopPoints
  /\ calls \in Nat

TypeOK == StatesOK /\ disconnecting \in BOOLEAN

Init ==
  /\ kind \in Kinds
  /\ creator = "idle"
  /\ owner = "none"
  /\ tasks = <<>>
  /\ sem = 0
  /\ state = "STARTING"
  /\ disconnecting = FALSE
  /\ writeBuf = "empty"
  /\ thread = "none"
  /\ back = "check"
  /\ heard = <<>>
  /\ caller = [c \in Callers |-> "idle"]
  /\ stop = "no"
  /\ calls = 0

-----------------------------------------------------------------------------
(* The task queue *)

\* Mutant of AddTask: a dropped DISCONNECT is signalled all the same.
AddTaskAlwaysSignals(t) ==
  /\ tasks' = IF t = "DISCONNECT" /\ tasks # <<>> /\ tasks[Len(tasks)] = "DISCONNECT"
              THEN tasks ELSE Append(tasks, t)
  /\ sem' = sem + 1

\* addTaskL: a DISCONNECT behind a DISCONNECT is dropped and not signalled.
AddTask(t) ==
  IF t = "DISCONNECT" /\ tasks # <<>> /\ tasks[Len(tasks)] = "DISCONNECT"
  THEN UNCHANGED queueVars
  ELSE /\ tasks' = Append(tasks, t)
       /\ sem' = sem + 1

\* A thread is inside a loop over the registry, holding its lock.
RegistryRead == stop = "sweeping" \/ \E c \in Callers : caller[c] = "adding"

registered == owner = "registered"

BeforeShutdown == stop # "no"

-----------------------------------------------------------------------------
(* The creating thread *)

\* getConnection: the UserConnection is registered before it has a socket.
GetConnection ==
  /\ creator = "idle"
  /\ stop \in {"no", "before"}
  /\ creator' = "made"
  /\ owner' = "registered"
  /\ UNCHANGED <<kind, queueVars, socketVars, thread, back, heard, caller, stop, calls>>

\* getBufferedSocket and addListener: the constructor starts the thread.
GetBufferedSocket ==
  /\ creator = "made"
  /\ creator' = "started"
  /\ thread' = "check"
  /\ UNCHANGED <<kind, owner, queueVars, socketVars, back, heard, caller, stop, calls>>

\* Socket::create, Socket::accept and Socket::bind may throw.
OpenSocket ==
  /\ creator \in {"started", "opened"}
  /\ \/ creator = "started" /\ creator' \in {"opened", "throwing"}
     \/ creator = "opened" /\ kind # "accept" /\ creator' = "throwing"
  /\ UNCHANGED <<kind, owner, queueVars, socketVars, thread, back, heard, caller, stop, calls>>

InitMyINFOLoader ==
  /\ creator = "opened" /\ kind # "accept"
  /\ creator' = "reset"
  /\ disconnecting' = FALSE
  /\ UNCHANGED <<kind, owner, queueVars, state, writeBuf, thread, back, heard, caller, stop, calls>>

QueueStart ==
  /\ \/ creator = "reset" /\ AddTask("CONNECT") /\ creator' = "up"
     \/ creator = "opened" /\ kind = "accept" /\ AddTask("ACCEPTED") /\ creator' = "port"
  /\ UNCHANGED <<kind, owner, socketVars, thread, back, heard, caller, stop, calls>>

\* setPort(socket->accept(...)): the owner is touched after the task is queued.
SetPort ==
  /\ creator = "port"
  /\ creator' = "up"
  /\ UNCHANGED <<kind, owner, queueVars, socketVars, thread, back, heard, caller, stop, calls>>

\* deleteConnection in the catch block: putConnection, then the destructor.
CreatorDisconnect ==
  /\ creator = "throwing"
  /\ creator' = "erasing"
  /\ disconnecting' = TRUE
  /\ AddTask("DISCONNECT")
  /\ UNCHANGED <<kind, owner, state, writeBuf, thread, back, heard, caller, stop, calls>>

CreatorErase ==
  /\ creator = "erasing"
  /\ ~RegistryRead
  /\ creator' = "deleting"
  /\ owner' = "erased"
  /\ UNCHANGED <<kind, queueVars, socketVars, thread, back, heard, caller, stop, calls>>

CreatorDelete ==
  /\ creator = "deleting"
  /\ creator' = "abandoned"
  /\ owner' = "deleted"
  /\ disconnecting' = TRUE
  /\ AddTask("SHUTDOWN")
  /\ UNCHANGED <<kind, state, writeBuf, thread, back, heard, caller, stop, calls>>

Creator ==
  \/ GetConnection \/ GetBufferedSocket \/ OpenSocket \/ InitMyINFOLoader
  \/ QueueStart \/ SetPort \/ CreatorDisconnect \/ CreatorErase \/ CreatorDelete

-----------------------------------------------------------------------------
(* The socket thread: run, checkEvents *)

\* The parts a step of the socket thread leaves alone unless it says otherwise.
Others == <<kind, creator, caller, stop>>

\* Mutant of TakeSignal: the wait does not wait.
TakeSignalUncounted ==
  /\ thread = "check"
  /\ sem' = sem - 1
  /\ thread' = "pop"
  /\ UNCHANGED <<Others, owner, tasks, socketVars, back, heard, calls>>

\* m_socket_semaphore.wait(): blocks in STARTING and FAILED, polls in RUNNING.
TakeSignal ==
  /\ thread = "check" /\ sem > 0
  /\ sem' = sem - 1
  /\ thread' = "pop"
  /\ UNCHANGED <<Others, owner, tasks, socketVars, back, heard, calls>>

NothingQueued ==
  /\ thread = "check" /\ sem = 0 /\ state = "RUNNING"
  /\ thread' = "socket"
  /\ UNCHANGED <<Others, owner, queueVars, socketVars, back, heard, calls>>

Popped(t) ==
  /\ thread = "pop" /\ tasks # <<>> /\ Head(tasks) = t
  /\ tasks' = Tail(tasks)
  /\ UNCHANGED <<Others, owner, sem, calls>>

\* Mutant of Fail: the state stays what it was.
FailKeepsState == UNCHANGED state /\ thread' = "notify"

\* fail(): closes the socket; only a RUNNING one tells its owner.
Fail == state' = "FAILED" /\ thread' = "notify"

StartConnect ==
  /\ Popped("CONNECT") /\ state = "STARTING"
  /\ heard' = Append(heard, "Connecting")
  /\ state' = "RUNNING"
  /\ thread' = "connect"
  /\ UNCHANGED <<disconnecting, writeBuf, back>>

StartAccept ==
  /\ Popped("ACCEPTED") /\ state = "STARTING"
  /\ state' = "RUNNING"
  /\ thread' = "accept"
  /\ UNCHANGED <<disconnecting, writeBuf, back, heard>>

RunUpdated ==
  /\ Popped("UPDATED") /\ state = "RUNNING"
  /\ thread' = "callback" /\ back' = "check"
  /\ UNCHANGED <<socketVars, heard>>

\* Mutant of RunSendData: the buffer is sent, but not swapped out.
RunSendDataInPlace ==
  /\ Popped("SEND_DATA") /\ state = "RUNNING"
  /\ thread' = IF writeBuf = "data" THEN "send" ELSE "check"
  /\ UNCHANGED <<socketVars, back, heard>>

\* threadSendData swaps m_writeBuf out before it sends.
RunSendData ==
  /\ Popped("SEND_DATA") /\ state = "RUNNING"
  /\ writeBuf' = "empty"
  /\ thread' = IF writeBuf = "data" THEN "send" ELSE "check"
  /\ UNCHANGED <<state, disconnecting, back, heard>>

RunSendFile ==
  /\ Popped("SEND_FILE") /\ state = "RUNNING"
  /\ thread' = IF disconnecting THEN "socket" ELSE "file"
  /\ UNCHANGED <<socketVars, back, heard>>

RunDisconnect ==
  /\ Popped("DISCONNECT") /\ state = "RUNNING"
  /\ Fail
  /\ UNCHANGED <<disconnecting, writeBuf, back, heard>>

\* A task the state does not expect is dropped with a debug message.
Handled ==
  [RUNNING |-> {"UPDATED", "SEND_DATA", "SEND_FILE", "DISCONNECT", "SHUTDOWN"},
   STARTING |-> {"CONNECT", "ACCEPTED", "SHUTDOWN"},
   FAILED |-> {"SHUTDOWN"}]

DropTask ==
  /\ \E t \in Tasks \ Handled[state] : Popped(t)
  /\ thread' = "check"
  /\ UNCHANGED <<socketVars, back, heard>>

\* checkEvents returns false on SHUTDOWN, or when a signal finds no task; the
\* thread then deletes the BufferedSocket and ends.
EndThread ==
  /\ thread = "pop"
  /\ tasks = <<>> \/ Head(tasks) = "SHUTDOWN"
  /\ tasks' = IF tasks = <<>> THEN tasks ELSE Tail(tasks)
  /\ thread' = "gone"
  /\ UNCHANGED <<Others, owner, sem, socketVars, back, heard, calls>>

-----------------------------------------------------------------------------
(* The socket thread: threadConnect, threadAccept *)

\* Leaves everything but the thread's own control and state alone.
Quiet == UNCHANGED <<Others, owner, queueVars, disconnecting, writeBuf, back, heard, calls>>

\* A SocketException: with a NAT role the outer loop tries again.
ConnectError ==
  /\ thread \in {"connect", "polling"}
  /\ IF kind = "nat" THEN thread' = "connect" /\ UNCHANGED state ELSE Fail
  /\ Quiet

\* The head of the outer loop: a disconnecting socket leaves it and times out.
ConnectAttempt ==
  /\ thread = "connect"
  /\ IF disconnecting THEN Fail ELSE thread' = "polling" /\ UNCHANGED state
  /\ Quiet

ConnectFails ==
  /\ thread \in {"connect", "polling"}
  /\ Fail
  /\ Quiet

\* waitConnected succeeds: a disconnecting socket hides it from its owner.
ConnectSucceeds ==
  /\ thread = "polling"
  /\ ~BeforeShutdown
  /\ IF disconnecting
     THEN thread' = "check" /\ UNCHANGED <<heard, back>>
     ELSE /\ heard' = Append(heard, "Connected")
          /\ thread' = "callback" /\ back' = "check"
  /\ UNCHANGED <<Others, owner, queueVars, socketVars, calls>>

ConnectCancelled ==
  /\ thread = "polling"
  /\ disconnecting
  /\ thread' = "check"
  /\ UNCHANGED state
  /\ Quiet

AcceptSucceeds ==
  /\ thread = "accept"
  /\ thread' = "check"
  /\ UNCHANGED state
  /\ Quiet

AcceptCancelled ==
  /\ thread = "accept"
  /\ disconnecting
  /\ thread' = "check"
  /\ UNCHANGED state
  /\ Quiet

AcceptFails ==
  /\ thread = "accept"
  /\ Fail
  /\ Quiet

-----------------------------------------------------------------------------
(* The socket thread: checkSocket, threadRead, threadSendData, threadSendFile *)

\* Where each transfer loop goes when it finishes or is cut short.
After == [socket |-> "check", send |-> "check", file |-> "socket"]

Looping == thread \in DOMAIN After

\* threadRead delivers a line or data to the owner, who may act in the callback.
\* The loops of threadSendData and threadSendFile test the flag first.
ReadData ==
  /\ Looping
  /\ thread \in {"send", "file"} => ~disconnecting
  /\ thread' = "callback"
  /\ back' = IF thread = "socket" THEN "check" ELSE thread
  /\ UNCHANGED <<Others, owner, queueVars, socketVars, heard, calls>>

\* The peer closed the connection, or the socket reported an error.
ReadError ==
  /\ Looping
  /\ Fail
  /\ Quiet

\* The poll timed out without data.
PollTimeout ==
  /\ thread = "socket"
  /\ thread' = "check"
  /\ UNCHANGED state
  /\ Quiet

\* Mutant of SendCancelled: threadSendData does not look at the flag.
SendCancelledFileOnly ==
  /\ thread = "file"
  /\ disconnecting
  /\ thread' = After[thread]
  /\ UNCHANGED state
  /\ Quiet

SendCancelled ==
  /\ thread \in {"send", "file"}
  /\ disconnecting
  /\ thread' = After[thread]
  /\ UNCHANGED state
  /\ Quiet

SendDataDone ==
  /\ thread = "send"
  /\ thread' = After[thread]
  /\ UNCHANGED state
  /\ Quiet

\* TransmitDone is fired from inside threadSendFile.
TransmitDone ==
  /\ thread = "file"
  /\ thread' = "callback" /\ back' = After[thread]
  /\ UNCHANGED <<Others, owner, queueVars, socketVars, heard, calls>>

-----------------------------------------------------------------------------
(* Callbacks: the managers' handlers, run by the socket thread *)

InCallback == thread = "callback" /\ calls < MaxCalls /\ calls' = calls + 1

\* write(): a SEND_DATA is queued only when the buffer was empty.
CallbackWrite ==
  /\ InCallback
  /\ writeBuf' = "data"
  /\ IF writeBuf = "data" THEN UNCHANGED queueVars ELSE AddTask("SEND_DATA")
  /\ UNCHANGED <<Others, owner, state, disconnecting, thread, back, heard>>

CallbackTransmit ==
  /\ InCallback
  /\ AddTask("SEND_FILE")
  /\ UNCHANGED <<Others, owner, socketVars, thread, back, heard>>

CallbackDisconnect ==
  /\ InCallback
  /\ disconnecting' \in {disconnecting, TRUE}
  /\ AddTask("DISCONNECT")
  /\ UNCHANGED <<Others, owner, state, writeBuf, thread, back, heard>>

\* putConnection from a handler: disconnect(true), then the registry.
CallbackPut ==
  /\ InCallback /\ registered
  /\ disconnecting' = TRUE
  /\ AddTask("DISCONNECT")
  /\ thread' = "put"
  /\ UNCHANGED <<Others, owner, state, writeBuf, back, heard>>

CallbackReturn ==
  /\ thread = "callback"
  /\ thread' = back
  /\ UNCHANGED state
  /\ Quiet

-----------------------------------------------------------------------------
(* UserConnection::on(Failed): the managers first, then "delete this" *)

Notify ==
  /\ thread = "notify"
  /\ heard' = Append(heard, "Failed")
  /\ thread' = "failed"
  /\ UNCHANGED <<Others, owner, queueVars, socketVars, back, calls>>

\* ConnectionManager::failed ends in putConnection, unless it was called before.
FailedPut ==
  /\ thread = "failed"
  /\ IF registered
     THEN disconnecting' = TRUE /\ AddTask("DISCONNECT") /\ thread' = "unregister"
     ELSE thread' = "destroy" /\ UNCHANGED <<disconnecting, queueVars>>
  /\ UNCHANGED <<Others, owner, state, writeBuf, back, heard, calls>>

\* Mutant of Erase: the registry is changed without its lock.
EraseUnlocked ==
  /\ thread \in {"put", "unregister"}
  /\ owner' = "erased"
  /\ thread' = IF thread = "put" THEN "callback" ELSE "destroy"
  /\ UNCHANGED <<kind, creator, queueVars, socketVars, back, heard, caller, stop, calls>>

\* putConnection erases under the registry's write lock.
Erase ==
  /\ thread \in {"put", "unregister"}
  /\ ~RegistryRead
  /\ owner' = "erased"
  /\ thread' = IF thread = "put" THEN "callback" ELSE "destroy"
  /\ UNCHANGED <<kind, creator, queueVars, socketVars, back, heard, caller, stop, calls>>

\* Mutant of Destroy: the socket thread is not told to end.
DestroyQuietly ==
  /\ thread = "destroy"
  /\ owner' = "deleted"
  /\ disconnecting' = TRUE
  /\ thread' = "check"
  /\ UNCHANGED <<Others, queueVars, state, writeBuf, back, heard, calls>>

\* ~UserConnection: removeListeners and putBufferedSocket.
Destroy ==
  /\ thread = "destroy"
  /\ owner' = "deleted"
  /\ disconnecting' = TRUE
  /\ AddTask("SHUTDOWN")
  /\ thread' = "check"
  /\ UNCHANGED <<Others, state, writeBuf, back, heard, calls>>

-----------------------------------------------------------------------------
(* Other threads, through the registries *)

\* The managers look connections up by the user they learnt from its lines.
Known == registered /\ state # "STARTING"

CallDisconnect(c) ==
  /\ caller[c] = "idle" /\ calls < MaxCalls
  /\ Known
  /\ disconnecting' \in {disconnecting, TRUE}
  /\ caller' = [caller EXCEPT ![c] = "adding"]
  /\ calls' = calls + 1
  /\ UNCHANGED <<ownerVars, queueVars, state, writeBuf, thread, back, heard, stop>>

CallAddTask(c) ==
  /\ caller[c] = "adding"
  /\ AddTask("DISCONNECT")
  /\ caller' = [caller EXCEPT ![c] = "idle"]
  /\ UNCHANGED <<ownerVars, socketVars, thread, back, heard, stop, calls>>

\* DownloadManager::remove_idlers' caller: updated() on an idle connection.
CallUpdated(c) ==
  /\ caller[c] = "idle" /\ calls < MaxCalls
  /\ Known
  /\ AddTask("UPDATED")
  /\ calls' = calls + 1
  /\ UNCHANGED <<ownerVars, socketVars, thread, back, heard, caller, stop>>

-----------------------------------------------------------------------------
(* Shutdown *)

CreatorBusy == creator \notin {"idle", "up", "abandoned"}

Stop(from, to) ==
  /\ stop = from /\ stop' = to
  /\ UNCHANGED <<ownerVars, thread, back, heard, caller, calls>>

\* ClientManager::before_shutdown.
BeginShutdown == Stop("no", "before") /\ UNCHANGED <<queueVars, socketVars>>

\* The hubs are closed and the listening servers joined: no thread is left
\* that creates connections.
CloseSources ==
  /\ ~CreatorBusy
  /\ Stop("before", "closed")
  /\ UNCHANGED <<queueVars, socketVars>>

\* Mutant of SweepFlag: the sweep disconnects gracefully.
SweepGracefully ==
  /\ registered
  /\ Stop("closed", "sweeping")
  /\ UNCHANGED <<queueVars, socketVars>>

\* ConnectionManager::shutdown: disconnect(true) for all that are registered.
SweepFlag ==
  /\ registered
  /\ Stop("closed", "sweeping")
  /\ disconnecting' = TRUE
  /\ UNCHANGED <<queueVars, state, writeBuf>>

SweepTask ==
  /\ Stop("sweeping", "waiting")
  /\ AddTask("DISCONNECT")
  /\ UNCHANGED socketVars

SweepNothing ==
  /\ ~registered
  /\ Stop("closed", "waiting")
  /\ UNCHANGED <<queueVars, socketVars>>

\* "Wait until all connections have died out..."
Drained ==
  /\ ~registered
  /\ Stop("waiting", "done")
  /\ UNCHANGED <<queueVars, socketVars>>

-----------------------------------------------------------------------------

ConnectStep ==
  \/ ConnectError \/ ConnectAttempt \/ ConnectFails \/ ConnectSucceeds
  \/ ConnectCancelled \/ AcceptSucceeds \/ AcceptCancelled \/ AcceptFails

TransferStep ==
  \/ ReadData \/ ReadError \/ PollTimeout \/ SendCancelled \/ SendDataDone
  \/ TransmitDone

TaskStep ==
  \/ TakeSignal \/ NothingQueued \/ StartConnect \/ StartAccept \/ RunUpdated
  \/ RunSendData \/ RunSendFile \/ RunDisconnect \/ DropTask \/ EndThread

CallbackStep ==
  \/ CallbackWrite \/ CallbackTransmit \/ CallbackDisconnect \/ CallbackPut
  \/ CallbackReturn

FailStep == Notify \/ FailedPut \/ Erase \/ Destroy

StopStep ==
  \/ CloseSources \/ SweepFlag \/ SweepTask \/ SweepNothing \/ Drained

CallerStep == \E c \in Callers : CallDisconnect(c) \/ CallAddTask(c) \/ CallUpdated(c)

Next ==
  \/ Creator \/ TaskStep \/ ConnectStep \/ TransferStep \/ CallbackStep
  \/ FailStep \/ CallerStep \/ BeginShutdown \/ StopStep

Spec == Init /\ [][Next]_vars

(***************************************************************************)
(* The scheduler runs every thread that can go on. What depends on the     *)
(* peer (data, errors, a connection that succeeds, room to send) need not  *)
(* happen: only the polls that time out are certain.                       *)
(***************************************************************************)
Fairness ==
  /\ WF_vars(Creator /\ creator # "idle")
  /\ WF_vars(TaskStep)
  /\ WF_vars(ConnectFails \/ ConnectCancelled)
  /\ WF_vars(AcceptCancelled \/ AcceptFails)
  /\ WF_vars(ConnectAttempt)
  /\ WF_vars(PollTimeout)
  /\ WF_vars(SendCancelled)
  /\ WF_vars(CallbackReturn)
  /\ WF_vars(FailStep)
  /\ \A c \in Callers : WF_vars(CallAddTask(c))
  /\ WF_vars(StopStep)

FairSpec == Spec /\ Fairness

-----------------------------------------------------------------------------
(* Safety *)

\* Every signal of the semaphore stands for one queued task, so checkEvents
\* never wakes up to an empty queue: its dcassert(!m_tasks.empty()) holds and
\* the thread never ends without a SHUTDOWN.
SignalMatchesQueue ==
  Len(tasks) = sem + (IF thread = "pop" THEN 1 ELSE 0)

\* Data waiting in m_writeBuf of a running socket always has a SEND_DATA
\* queued: write() queues one only for the first bytes, so a single lost task
\* would leave the connection mute for ever.
NoStalledWrite ==
  writeBuf = "data" /\ state = "RUNNING" => \E i \in DOMAIN tasks : tasks[i] = "SEND_DATA"

\* A thread inside a call on the connection, or about to make one through the
\* registry, never finds the UserConnection or its BufferedSocket deleted:
\* putConnection leaves the registry, under its lock, before "delete this".
NoCallOnFreed ==
  /\ RegistryRead => registered
  /\ registered => thread # "gone"
  /\ thread = "gone" => owner = "deleted" /\ tasks = <<>>

\* A UserConnection is destroyed only after its socket failed or before it
\* ever ran: a running connection always reports Failed to the managers
\* before it goes, so none of them keeps a stale pointer to it.
OwnerOutlivesRun ==
  owner = "deleted" =>
    \/ state = "FAILED" /\ heard # <<>> /\ heard[Len(heard)] = "Failed"
    \/ state = "STARTING" /\ heard = <<>>

\* accept() calls setPort on the connection after the socket thread may have
\* run: setPort asserts that the connection still has its socket.
SetPortHasSocket == creator = "port" => owner # "deleted"

-----------------------------------------------------------------------------
(* The inductive invariant behind NoCallOnFreed and OwnerOutlivesRun *)

\* Where each thread can be in each state of the socket, and who is alive then.
StartingInv ==
  state = "STARTING" =>
    /\ heard = <<>>
    /\ thread \in {"none", "check", "pop", "gone"}
    /\ creator = "idle" <=> owner = "none"
    /\ creator = "deleting" <=> owner = "erased"
    /\ creator = "abandoned" <=> owner = "deleted"

RunningInv ==
  state = "RUNNING" =>
    /\ creator \in {"port", "up"}
    /\ owner \in {"registered", "erased"}
    /\ thread \in {"check", "pop", "connect", "polling", "accept", "socket",
                   "send", "file", "callback", "put"}

FailedInv ==
  state = "FAILED" =>
    /\ creator \in {"port", "up"}
    /\ thread \in {"check", "pop", "notify", "failed", "unregister", "destroy", "gone"}
    /\ thread \in {"check", "pop", "gone"} <=> owner = "deleted"
    /\ thread = "destroy" => owner = "erased"
    /\ thread # "notify" => heard # <<>> /\ heard[Len(heard)] = "Failed"
    /\ owner # "none"

ThreadInv ==
  /\ thread = "none" <=> creator \in {"idle", "made"}
  /\ thread = "gone" => owner = "deleted" /\ tasks = <<>>

\* SHUTDOWN is the last task ever queued, when the owner is deleted.
QueueInv ==
  /\ \A i \in 1..Len(tasks) :
       tasks[i] = "SHUTDOWN" => i = Len(tasks) /\ owner = "deleted"
  /\ \A i \in 1..Len(tasks) :
       tasks[i] \in {"CONNECT", "ACCEPTED"} => creator \in {"port", "up"}

LifeInv ==
  /\ StartingInv /\ RunningInv /\ FailedInv /\ ThreadInv /\ QueueInv
  /\ SignalMatchesQueue
  /\ RegistryRead => registered

-----------------------------------------------------------------------------
(* Liveness *)

\* The wait loop of ConnectionManager::shutdown ends: the one sweep of
\* disconnect(true) is enough for every connection to die, whatever its peer does.
ShutdownDrains == stop = "waiting" ~> stop = "done"

\* disconnect(true) ends a running connection even when its peer neither
\* reads nor answers and a transfer is in progress.
GracelessDies == state = "RUNNING" /\ disconnecting ~> state = "FAILED"

\* The socket thread of a destroyed connection ends and frees the socket.
ThreadEnds == owner = "deleted" ~> thread = "gone"

-----------------------------------------------------------------------------
\* What a connection promises its owner: see SocketLife.
Life == INSTANCE SocketLife WITH
          running <- thread \notin {"none", "gone"},
          owner <- IF owner \in {"registered", "erased"} THEN "alive" ELSE owner
LifeSpec == Life!Spec
=============================================================================
