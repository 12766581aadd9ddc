# FlylinkDC++ core: TLA+ specifications, model checking and proofs

FlylinkDC++ is a Direct Connect client. Its own logic is in `src/client` (the
"core", about 58 000 lines); `src/windows` is the Win32 user interface and most
of the rest is vendored. This directory models the parts of the core where
several threads share state through locks that do not span the whole operation:
the socket threads, the connection queue, the download side from the user queue
to the parts of a file, the upload slots and the hasher.

Contents: 1 inventory, 2 the models and how they correspond to the code,
3 the runs, 4 the fairness, 5 the proofs, 6 the findings, 7 what is left out,
8 the plan.

How to use it: `tlc -config X.cfg M` for each row of section 3, `tlapm M.tla`
for each module of section 5.

---

## 1. Inventory

### Components, their state and their operations

| Component | State | Operations | What makes it correct |
|---|---|---|---|
| **BufferedSocket / UserConnection** (`BufferedSocket.cpp`, `UserConnection.cpp`) | `m_tasks` and a semaphore, `m_state`, `m_is_disconnecting`, `m_writeBuf`; one thread per socket | `connect`, `accept`, `write`, `transmitFile`, `disconnect(graceless)`, `updated`, `shutdown`; `run`, `checkEvents`, `threadConnect/Accept/Read/SendData/SendFile`, `fail` | a signal for each task; a connection reports `Failed` once and last; nobody calls a freed connection; the exit does not wait for ever |
| **ConnectionManager** | `g_downloads`, `g_uploads` (a `ConnectionQueueItem` each: state, `lastAttempt`, errors), `g_userConnections` | `getDownloadConnection`, `force`, timer `Second`, the NMDC and ADC handshakes, `addDownloadConnection`, `addUploadConnection`, `failed`, `disconnect`, `shutdown` | registries agree with connections; a wanted user is asked until he answers or is removed |
| **QueueItem / QueueManager::putDownload** | `m_done_segment`, `m_downloads`, temporary file | `getNextSegmentL`, `addSegment`, `setOverlapped`, `disconectedSlow`, `getDownload`, `putDownload` | what is recorded as done is on disk; the file is moved only when whole; every part is received |
| **HashManager::Hasher** | `w`, `m_hash_semaphore`, `m_paused`, `m_running`, `m_rebuild`, `m_fname` | `hashFile`, `stopHashing`, `pause`/`resume`, `scheduleRebuild`, `shutdown`; `run`, `fastHash`, `instantPause` | no waiting file loses its signal; no part of a file passes for the file; the thread ends |
| **DownloadManager** | `g_download_map`, `g_idlers`, `ConnectionManager::m_checkIdle` | `addConnection`, `checkDownloads`, `isStartDownload`, `startData`, `fireData`, `endData`, `noSlots`, `fileNotAvailable`, `failDownload`, `checkIdle` | only living connections are called; the limit of downloads; an idle connection is used again |
| **UserQueue and file queue** (`QueueManager.cpp`) | lists of items by user and priority, `g_runningMap`, `m_sources`, `m_downloads`, `m_priority` | `add`, `addSourceL`, `addL`, `getNextL`, `getDownload`, `putDownload`, `removeUserL`, `removeSource`, `setPriority`, `removeTarget` | sources and lists agree, running downloads and connections agree; who has something is asked |
| **UploadManager** | `g_uploads`, `g_uploadsPerUser`, `m_slotQueue`, `m_notifiedUsers`, the three slot counters | `on(Get/Send/TransmitDone/Failed)`, `prepareFile`, `process_slot`, `removeUpload`, `addFailedUpload`, `notifyQueuedUsers`, timer `Minute` | counters equal the slots held; those who wait keep their place and get their turn |
| **ShareManager** | the shared tree, `m_is_refreshing` | `refresh_share`, `run`, `buildTreeL` | one refresh at a time; hashing is paused while the tree is built |
| **Hubs** (`Client`, `NmdcHub`, `AdcHub`) | log-in state, users | connect, parse, reconnect timer | reconnects; the log-in order |
| **SearchManager / SearchQueue** | queue of searches, interval | `add`, `pop`, `cancel` | manual before automatic, one entry per search |
| **ThrottleManager** | tokens of a second | `read`, `write`, timer | the limit is kept; nobody starves |
| **SharedFileStream** | pool of open files, files to delete | open, close, `delete_file`, `cleanup` | one handle per file; deletion after the last reader |
| **TimerManager, TaskQueue, Speaker** | timers, listeners | `Second`/`Minute`, `fly_fire` | no listener called after `removeListener` |
| **Locks** | critical sections, spin locks, RW locks | | mutual exclusion |
| **Data base, favourites, finished files, logs, settings** | SQLite, LevelDB, XML | | storage |
| **Algorithms** | Tiger tree, Base32, bzip2, crypto | | data |
| **User interface** | windows | close, pause, force, ... | drives the core |

`PROJECT.json` lists them with their sources and their status.

### How they interact

* **Threads.** The main (GUI) thread; a timer thread (`Second`, `Minute`); one
  thread per socket, which runs every callback of its connection; the listening
  servers; the hasher; the share refresh; the file mover.
* **Calls.** A socket thread calls its `UserConnection`, which fires to
  ConnectionManager (handshake), then DownloadManager or UploadManager
  (transfer), which call QueueManager (`getDownload`, `putDownload`).
  QueueManager calls ConnectionManager to ask for connections. The timer walks
  ConnectionManager's items and asks QueueManager for each.
* **Back channel.** Other threads never touch a socket: they find a connection
  in a registry, under its lock, and add a task to its queue or set
  `m_is_disconnecting`.
* **Locks.** Each registry has a lock of its own. Several "read" locks protect
  sections that write; operations are cut into several critical sections.

### Hard behaviours

1. A check under one lock and the use under another, or both under a shared
   lock (segments, the claim of a connection item, the timer's visit).
2. The end of a connection: five places fail a socket, other threads hold its
   pointer, the owner deletes itself in a callback.
3. Shutdown: one sweep and then a wait; semaphores with several meanings.
4. Retries: protocol errors, forced attempts and time-outs in one item.
5. Arithmetic of segments: last blocks, overlaps, joining.
6. Pauses that use up the signals of the queue they share a semaphore with.
7. Counters without a lock and limits tested long before they are used up
   (upload and download slots).
8. One fact kept in several maps under several locks (sources and lists, running
   downloads and connections, uploads and their number by user).

The `hazards` of `PROJECT.json` name each at its line, with the properties that
cover it or the reason why none does yet.

---

## 2. The models

Names are the code's where TLA+ allows it; each definition that models code has
its file and lines in `map` of `PROJECT.json`. Definitions whose comment begins
with "Mutant of" are not part of a specification: each is the definition below
it with a plausible bug, kept to show that a property notices it.

### `BufferedSocket`, `SocketLife`

One connection from its creation to the deletion of its socket.

| Variable | Code |
|---|---|
| `tasks`, `sem` | `m_tasks`, `m_socket_semaphore` |
| `state`, `disconnecting`, `writeBuf` | `m_state`, `m_is_disconnecting`, whether `m_writeBuf` is empty |
| `thread`, `back` | the point of `BufferedSocket::run` reached, and where a callback returns to |
| `creator` | the point reached in `nmdcConnect`, `adcConnect` or `accept` |
| `owner` | the UserConnection: registered in `g_userConnections`, erased, deleted |
| `caller[c]` | a thread between `setDisconnect` and `addTask` of a `disconnect()` |
| `stop` | the main thread: `before_shutdown`, hubs closed, the sweep of `ConnectionManager::shutdown`, its wait |
| `heard` | the events fired to the owner |

One action per task handled, per way out of each transfer loop, per step of
creation, failure and destruction. A lock is the guard `~RegistryRead`: a writer
of the registry waits while a caller is inside a loop over it.

The order of the exit comes from `ClientManager.cpp:140-156` and
`ConnectionManager.cpp:1888-1943`: flag, hubs closed, the servers joined (hence
`~CreatorBusy`), sweep, wait.

`SocketLife` is what a connection promises its owner: `Connecting`, `Connected`,
`Failed` at most once, in that order, only while the owner lives; the owner goes
after `Failed` or before anything began; the thread ends after it, once.
`LifeSpec` is that specification under the mapping at the end of
`BufferedSocket`, and a property of the run `socket`.

### `QueueItem`, `FileLife`, `MCQueueItem`

One file, its sources, each with a connection and its thread. `done` is
`m_done_segment` (a set of `[start, end)`), `downloads` is `m_downloads` in
order, `disk` the units written to the temporary file, `phase[u]` where u's
thread is. The code takes `QueueItem::g_cs`, `m_fcs_download` and
`m_fcs_segment` one after the other and none over the whole of `getDownload` or
`putDownload`; so each is cut into one action per critical section:

| Actions | Code |
|---|---|
| `Ask` | `UserQueue::getNextL` with its look at `getNextSegmentL` |
| `ChooseSegment`, `ChooseOverlap`, `markOriginal`, `Relock` | the constructor of `Download`: `getNextSegmentL`, `setOverlapped` |
| `addDownload` | `QueueItem::addDownload` |
| `startData`, `startOverlap` | `DownloadManager::startData`, with `disconectedSlow` |
| `fireData`, `endData`, `endDataFails` | the same of DownloadManager |
| `addFinished`, `segmentDone`, `fileDone`, `removeQueueItem`, `dropDownload` | `putDownload(finished)` |
| `failDownload`, `addUnfinished`, `removeDownload`, `unmarkOriginal` | `failDownload`, `putDownload` of an unfinished one |

`addSegment` is the code's insertion and joining of neighbours, as a fold over
the set in its order (`Latest`);
`NextShared` is the scan over free blocks with `ENABLE_MULTI_CHUNK`,
`NextSingle` the other branch. Sizes are counted in units, `BlockSize` of which
make a tree block. Speeds are the relation `Faster`: who was at some time twice
as fast as whom, hence who may overlap whom.

`FileLife` is what a QueueItem promises of its file, however many connections
load it: what was written stays written, a part is recorded only when it was
written, the file is moved only while all of it is recorded and leaves the queue
only once it was moved. `FileSpec` is that specification under the mapping at
the end of `QueueItem` (the disk, what `m_done_segment` covers, whether the file
was moved or is gone), and a property of the run `queueitem`.

### `ConnectionManager`

`item[u]` is the state of u's item in `g_downloads` ("none" without one),
`age[u]` the class of `lastAttempt` (never; under 50 s; under 60 s; more),
`barred` the users with `errors == -1`, `uploads` is `g_uploads`; `phase[c]`,
`peer[c]`, `role[c]`, `associated` are a connection's state, user, direction
flag and `FLAG_ASSOCIATED`; `at`, `visited`, `todo`, `removed`, `attempts` are
the timer's loop.

`g_csDownloads` is a reader-writer lock, and most of the code that changes an
item holds it as a reader. So the visit of an item by the timer is one action to
look (`StartAttempt`, `SeeTimeout`), one for the answer of the queue (`Decide`,
`Unwanted`) and one to write (`Ask`, `NoSlots`, `SlotFree`, `TimeOut`); the end
of a handshake is `FindItem` and `ClaimItem`; what needs the lock as a writer
(`getDownloadConnection`, `putCQI`, `FailDownload`) has the guard `WriteLock`.

The handshakes: `Connected`, `SUP`, `INF` (ADC); `MyNick`, `CLock`, `Direction`,
`Key` (NMDC); `Unexpected` for connections that are not trusted, not expected or
unknown; `failed` for a socket error or a protocol error.

Answers of other parts (online? wanted? slot free? expected?) are free choices,
so what holds here holds whatever they are.

### `Hasher`

The thread of `HashManager::Hasher` and all who drive it. `w`, `tokens`
(`m_hash_semaphore`), `paused` (`m_paused`: pauses plus signals owed, and below
zero after too many resumes), `running`, `rebuild`, `fname`, `stop`
(`isShutdown()`); `pc`, `file`, `mode`, `left` are the thread's position, its
file, the reader that has it (`fastHash` or the slow loop) and the buffers not
yet in the tree; `holds[s]` is what the `HashPauser` of a sharing thread will do;
`gui` is where the exit, or a dialog's button, is.

`hashFile` is called only under a `HashPauser` (`ShareManager.cpp:984, 1132,
1728`), by the refresh thread or the GUI thread, and may name a file hashed
already, since the cache of the data base is flushed late. `OnClose`, `Answer`,
`shutdown`, `join` follow `MainFrm.cpp:2653-2715`: the program refuses to close
while `IsHashing()`, but then asks the user, and hashing may start meanwhile.

### `UserQueue`, `MCUserQueue`

Which file is loaded from whom, and who is asked for a connection.

| Variable | Code |
|---|---|
| `status`, `completed` | whether an item is new, in the queue, begun, finished or gone; the items that were finished at some time |
| `prio`, `changes` | `m_priority`, written under no lock; how often it was changed (bound) |
| `sources`, `list` | `QueueItem::m_sources`; `g_userQueueMap`, by priority and user, in order |
| `running`, `downloads` | `g_runningMap`; `QueueItem::m_downloads`, by user |
| `conn`, `dl` | where a user's connection is in `getDownload`, the item it has in hand |
| `adding`, `leaving` | threads that found an item and have yet to add a source to it; items out of the lists and not yet out of `g_queue` |
| `asking`, `asked`, `doomed` | calls of `get_download_connection` to come, `ConnectionManager::g_downloads`, the timer's `l_removed` |
| `online` | `User::isOnline` |

| Actions | Code |
|---|---|
| `add`, `find_target`, `addSourceL`, `Refuse` | `QueueManager::add`, `readd` and search results: the item is found under one lock and gets its source under another |
| `setPriority`, `removeSource` | the same of QueueManager |
| `removeTarget`, `removeDeferredDB` | `fire_remove_internal`: out of the lists of the sources, then out of `g_queue` under another lock |
| `UserConnected`, `UserDisconnected` | the hubs: all his files are asked for; `g_runningMap` forgets him |
| `getDownloadConnection`, `addConnection`, `SeeUnwanted`, `putCQI`, `putUpload` | ConnectionManager as far as a request goes |
| `getDownload`, `addDownload`, `SetRunning` | `QueueManager::getDownload` in its three critical sections |
| `putDownload`, `Finish`, `putUnfinished`, `endData`, `failDownload`, `removeConnection` | `putDownload` of a part, of the last part, of one that failed; the end of the connection |

An item is the object and not the target: one that was removed may still be
chosen, listed or in the hands of a thread. Its parts are `QueueItem`'s: here it
has a free part for the user or not, and a part that ends completes it or not.

### `DownloadManager`

The connections that download. `state[c]` is where the connection's thread is
(`none`, looking for a download, `snd`, `running`, `idle`, ...), `cur[c]` its
`getDownload()`, `seen[c]` the number of downloads it counted in
`checkDownloads`, `gets[c]` the requests without an answer, `updates[c]` the
`UPDATED` tasks in its socket's queue; `idlers` is `g_idlers`, `listed` is
`g_download_map`; `check` and `l_idlers` are `m_checkIdle` and the timer's copy.
`stray` is a history variable (see section 6).

`checkDownloads` is cut where its locks are: `checkDownloads` (the count and the
decision), `getDownload`, `Request` (listed and `GET` sent) or `MissDownload`,
`BecomeIdle`. `SND`, `noSlots`, `fileNotAvailable`, `BadState`, `fireData`,
`endData`, `onFailed` and `Updated` are what the thread is told;
`getDownloadConnection`, `Second` and `checkIdle` are the way of a wake-up. The
answers of QueueManager are free choices here.

### `UploadManager`, `WaitingLine`, `MCUploadManager`

Who may download from us. `phase[c]` is the state of a connection and how far
its `prepareFile` is; `slotType[c]` is `getSlotType`, `wanted[c]` the type
decided on; `count` has `g_running`, `extra` and `extraPartial`, which no lock
protects; `uploads` and `stale` are `g_uploads`: the connections whose last upload
is in it, and the uploads there that their connection forgot; `errors[c]` is how
often a ZFilter failed for c; `perUser` is `g_uploadsPerUser`; `waiting` is
`m_slotQueue`, `notified[u]` the 90 seconds of a user who was told.

| Actions | Code |
|---|---|
| `addConnection`, `prepareFile`, `Ban` | a connection comes; Get or GET: the file is readable, who has a slot keeps it |
| `SeeFreeSlots`, `SeeQueue`, `SeeAutoSlot`, `Decide`, `DecideExtra`, `Refuse` | one look after the other, each under its own lock or none: free slots, the right of others, `getAutoSlot`, `hasUpload`, minislots (operators get one even when none is free) and partial slots, or a place in the queue |
| `LeaveQueue`, `ListUpload` | `clearUserFilesL` with `m_notifiedUsers`; the new `Upload` |
| `CountSlot`, `CountTogether` | `process_slot`; of two threads at once, one may count in vain |
| `Answer`, `FilterFails` | the rest of `on(Get)` and `on(AdcCommand::GET)`: the answer, or the return after a ZFilter that threw, with the upload listed and the state left as it was |
| `Send`, `TransmitDone`, `Failed` | the events of the connection, with `removeUpload` and `removeConnection` |
| `notifyQueuedUsers`, `Elapse`, `Minute` | the timer tells as many as there are free slots, and forgets those who did not come |
| `UserConnected`, `UserDisconnected` | a user who goes loses his place |

An upload that a failed ZFilter left in `g_uploads` is replaced on its connection by
the next request, and then nothing takes it out: `upload_race` reaches a deleted
connection that the timer still calls (`UploadManager.cpp:984, 1435`).
`UploadsAlive` exempts exactly these, `stale`, and states that each goes back to a
failure of its own: no other order of steps leaves an upload behind.

`WaitingLine` is what those who wait are promised: a line in the order they
came, called from its front only; nobody is passed by another, and nobody leaves
it but to be called, served, because he is late or goes offline. `LineSpec` is
that specification under the mapping at the end of `UploadManager`: who is
before whom in `m_slotQueue` (`Precedes`), `m_notifiedUsers` (`Notified`, `Late`)
and the connections about to list their upload (`Served`). It is a property of
the run `upload`.

### How they compose

`BufferedSocket` gives a connection's life; `ConnectionManager` what it is used
for between `Connected` and `Failed` (its `putConnection` frees a connection at
once, which `NoCallOnFreed` and `OwnerOutlivesRun` of `BufferedSocket` justify);
`DownloadManager` and `UploadManager` what its thread does once it has an item;
`UserQueue` which file a download connection is given and `QueueItem` which part
of it. Each module makes what it does not own a free choice: `DownloadManager`
may be given a download or none, `ConnectionManager` may find a user wanted or
not, `UserQueue` may find a part or not. So what holds in a module holds
whatever its neighbours do. `UserQueue` repeats of ConnectionManager what a
request is (asked, answered, removed in two steps), because the loss of a
request needs both. No module has another's variables; the composition of
`ConnectionManager`, `UserQueue` and `DownloadManager` as one specification is
in the plan.

---

## 3. The runs

`pass` runs. Their properties each have a mutant of a mapped definition that
breaks them, under `mutants` in `PROJECT.json`.

| Run | Instance | Shows |
|---|---|---|
| `socket` (`BufferedSocket.cfg`), 291 288 states | two callers, four calls, all three ways to connect, a shutdown at any moment | `SignalMatchesQueue`, `NoStalledWrite`, `NoCallOnFreed`, refinement `LifeSpec`; `ShutdownDrains`, `GracelessDies`, `ThreadEnds` |
| `queueitem` (`MCQueueItem.cfg`), 1.7 million | three interchangeable users, a file of two blocks of two units, two segments at once, both settings of multi-chunk, one failure, flush errors at the end | `DoneOnDisk`, `SegmentsAligned`, `NoGhostDownload`, refinement `FileSpec` |
| `queueitem_live` (`MCQueueItemLive.cfg`), 90 090 | two users, one the faster, five units in blocks of two (a last block that is not whole), two failures | `AllReceived` |
| `conn` (`ConnectionManager.cfg`), 30 737 | one user, two connections, a limit of one attempt a second | `UploadsMatch`, `ActiveIsManaged`, `RemovedIsQueued`; `WaitingMoves`, `ConnectingEnds` |
| `hasher` (`Hasher.cfg`), 207 799 | two files of two buffers, the refresh thread and the GUI, three signals | `NoFileStranded`, `RunningHasWork`, `WholeTrees`; `HashingEnds`, `JoinUnlessPaused` |
| `userqueue` (`MCUserQueue.cfg`), 2.6 million | two files, one user, priorities 0 and 1, one change of priority, a limit of one file at a time | `SourceListed`, `RunningIsDownload`, `NoPhantomDownload` |
| `downloads` (`DownloadManager.cfg`), 669 184 | two connections with two download objects each, one slot and one extra, up to two wake-ups queued | `OnlyLive`; `SlotLimit`, `WakeUpServed` |
| `upload` (`MCUploadManager.cfg`), 281 668 | two users with a connection each, one slot of each kind, no filter fails | refinement `LineSpec`; `QueueMoves` |
| `upload_race` (`MCUploadManagerRace.cfg`), 2.7 million | one user with two connections, one update of the counters lost, one failing filter for each | `SlotsCounted`, `UploadsAlive`, `NeverOvercounted` |

`violation` runs: each checks one statement of the repository that the code does
not keep (section 6): `queueitem_shared` (`MCQueueItemShared.cfg`,
`NoSharedPart`), `hasher_join` (`HasherJoin.cfg`, `JoinReturns`) and
`userqueue_order` (`MCUserQueueOrder.cfg`, `HighestPriority`).

### Bounds, and why they are enough

* `MaxCalls = 4` (socket): calls from callbacks and callers after the start. A
  second call can only meet the first in the queue, in the same registry lock or
  behind a drop; two callers and the thread's own callback give three at once,
  and one more follows an already failed socket. The safety theorems do not
  depend on it.
* `FileSize` 4 or 5, `BlockSize` 2: a part that is whole, a part of a part, a
  boundary inside a block, and, with 5, a last block that is short. Three users
  let a third interfere with an overlap of two. `MaxSegments = 2` makes the
  limit bite. `MaxFails` bounds the failures that have no cause in the model
  (peer, network, time-out); a `killed` connection fails without being counted.
* One user in `conn`: items of two users meet only in the timer's loop, in
  `attempts` and in `MyNick`, which clears errors of any item it walks past. The
  theorems cover every number of users; two users and two connections (2.3
  million states) satisfy the same invariants.
* `MaxSignals = 3` (hasher): bounds `tokens + |paused|`. Three is a file, a
  second file and a pause, or shutdown's two signals after one that was left
  over. The theorems hold for every bound.
* `age` is an abstraction of a clock to the two comparisons the code makes
  (50 s, 60 s). An item that was asked is visited between its 50th second and
  its 60th because the timer comes once a second: `Elapse` does not pass that
  moment by.
* `userqueue`: two items make an order in a list and let a file slot be taken
  from one by the other; one user, since lists, downloads and requests of two
  users meet only in the count of running files, and the theorems cover every
  number of both. `MaxChanges = 1`: one change is enough to leave an item in a
  list of another priority (with three priorities, 11.9 million states, the same
  invariants hold); `MaxThreads = 1`: one thread between its search and
  its `addSourceL`, while the connection, the timer and the hubs go on.
* `downloads`: two connections compete for one slot and one may overtake the
  other between the test and the listing; `MaxUpdates = 2` lets the second
  `UPDATED` find the connection busy with what the first one started.
* `upload`: with as many users as slots and one more, one of them waits, is
  told, comes late or never; `upload_race` puts two threads of one user into
  `prepareFile`, `removeUpload` and the counters. `MaxLost` is the number of
  counter updates lost, and `SlotsCounted` states the error in terms of it, so
  the bound does not hide one. `MaxErrors = 1` (`upload_race`): one failure leaves an
  upload behind once the connection asks again; the waiting queue of `upload` does
  not see it, hence 0 there.

`CHECK_DEADLOCK FALSE` stands where the system really stops: a freed connection,
a finished download, a closed program. The other modules have no final state,
and deadlock is checked there.

---

## 4. Fairness

* **BufferedSocket.** Threads that can go on go on. What depends on the peer
  (data, errors, a connection that succeeds, room to send) need not happen; the
  polls' time-outs do, since every wait of the code has one. `TransferStep` as a
  whole is not fair, so a transfer may stall for ever: `GracelessDies` has to
  come from `m_is_disconnecting` alone. A callback returns. A `disconnect()` once
  begun queues its task.
* **QueueItem.** Each connection's thread goes on: a silent peer is disconnected
  by the timer, which counts as one of the `MaxFails` failures. `AllReceived`
  is checked with one user always the faster one (`OneFaster`); when each of two users may be the faster in turn they can
  overlap one another without end, which is a property of the speeds and not of
  the order of steps.
* **ConnectionManager.** The timer thread is fair and time passes. `StartAttempt`
  is strongly fair: `DOWNCONN_PER_SEC` may put an item off in one second, but
  those it lets through then wait a minute. `putCQI` is strongly fair because a
  waiting writer of the lock keeps new readers out (`rw_lock_winxp_win.cc`). A
  thread inside the lock goes on (`ClaimItem`). Nothing is assumed of peers.
* **Hasher.** The thread runs; a `HashPauser` lives as long as a block of code;
  what the GUI has begun (button, rebuild, exit) it ends. Nobody has to press a
  button. `HashingEnds` assumes in its statement that from some time on no file
  is added and that pauses do not last for ever; `JoinUnlessPaused` the latter.
* **DownloadManager.** The timer ticks (`Second`, and `checkIdle` for each user it
  took over) and a socket's thread takes its `UPDATED`, since its poll has a
  time-out. That the peer answers a `GET`, or that a part is found, is not assumed.
* **UploadManager.** The timer ticks (`notifyQueuedUsers`, `Minute`) and time
  passes (`Elapse`). Nobody who was told has to come, and no upload has to end.
* **UserQueue.** No liveness is checked: the property one would want is refuted
  (`WantedIsAsked`, section 6).

---

## 5. Proofs

Eight modules, checked by `tlapm` to the last leaf. Assumptions are the named
`ASSUME`s of the models (bounds are naturals, `NoUser` is no user, the set of
files is finite, the GUI is one of the sharers), all evaluated by TLC in the runs.

| Module | Theorems | Argument |
|---|---|---|
| `BufferedSocketProofs` | `TypeCorrect`, `SignalCorrect`, `CallsCorrect`, `OwnerCorrect`, `WriteCorrect` | `StatesOK /\ LifeInv` is inductive. `LifeInv` says, for each of the three socket states, where the creator and the thread can be and whether the owner lives; that a `SHUTDOWN` is the last task ever queued, and only with the owner deleted; that `CONNECT` or `ACCEPTED` is queued only when the creator can no longer throw. Without the last two, "deleted after Failed" is not preserved by the pop of a task. `WriteCorrect` adds that a socket that has not started has an empty buffer: a `SEND_DATA` queued before that would be dropped. |
| `SocketLifeProofs` | `LifeImplemented` | Refinement: eight actions of `BufferedSocket` are steps of `SocketLife` (`GetConnection` is `Create`, `GetBufferedSocket` is `Begin`, `StartConnect`, `ConnectSucceeds` and `Notify` are `Hear`, `CreatorDelete` and `Destroy` are `Leave`, `EndThread` is `End`), the others stutter. `HeardInv` says what the owner has heard where he is told more: `Connecting` and nothing else while the thread connects, and no `Failed` before `Notify`. |
| `ConnectionManagerProofs` | `TypeCorrect`, `UploadsCorrect`, `ActiveCorrect`, `RemovedCorrect` | The three invariants with `ConnShape` (who a connection is with is known before it gets an item and fixed while it is associated) and `TimerShape` (no item leaves `g_downloads` while the timer walks it: the writers' lock). The steps are sorted by what they leave alone, one lemma each. |
| `HasherProofs` | `TypeCorrect`, `NoneStranded`, `RunningCorrect`, `TreesCorrect` | `NoFileStranded` is not inductive: a thread in `instantPause` has counted itself in `m_paused` and will use a signal up. `Covered` adds it to what the signals must cover. `Flags` says when the thread may have left its file early (told by `stop` or `~running`, which it looks at again before it records), and that `stop` is set only after the user's answer. |
| `QueueItemProofs` | `DownloadsCorrect`, `TypeCorrect`, `AlignedCorrect`, `DiskCorrect`, `MovedCorrect`, `ShrinksCorrect`, `ChosenCorrect`, `FileImplemented` | Three inductive invariants. `NoGhostDownload` with the types of `downloads` and of the control points (`ListTypes`): it does not matter what the parts are. `Shape`: every part in hand begins at a block and ends at one or at the end of the file, and what is recorded are such segments that do not touch; it rests on the arithmetic of `getNextSegmentL` (`NextGiven`), of overlaps and cuts (`CutGiven`) and on what joining makes of any set of segments (`addSegmentJoins`). `OnDisk`, on top of `Shape`: what is recorded, what ended or failed downloads received and, once moved, the whole file was written. `FileImplemented` maps `endData` and `failDownload` to `Write`, `addFinished` and `addUnfinished` to `Record`, `fileDone` to `Move`, `removeQueueItem` to `Leave`; `LeavesMoved` says that the last follows the third. That the fold of `addSegment` obeys its equation (`FoldEquation`) is shown with a least counterexample among the sizes of sets. |
| `UserQueueProofs` | `TypeCorrect`, `SourcesCorrect`, `RunningCorrect`, `PhantomCorrect`, `HighestCorrect` | The three invariants with four more: an object not yet in the queue is nowhere (`NewUnused`), a finished one is in `completed` (`FinishedCompleted`), whom `g_runningMap` names has a connection with that item in hand or the item is removed (`RunningLoads`), and so has each listed download of an item in the queue that was never finished (`ListedDownloads`). `SourceListed` survives a change of priority because it asks for *some* list, and `removeUserL` because it looks only where `addL` put the item or leaves it. The minimum that `getNextL` chooses exists by well-foundedness of `<`. `HighestCorrect`: until the first change of a priority an item is listed under the one it has (`PlacedByPrio`), so the first list in which `getNextL` finds something is that of the highest (`NextIsBest`). |
| `DownloadManagerProofs` | `TypeCorrect`, `LiveCorrect`, `SlotsCorrect`, `AnswersCorrect`, `WokenOnce` | `OnlyLive` says of connections outside `stray` that a listed download is their current one; it is inductive with the types. For `SlotLimit`, `SeenOpen` keeps what `isStartDownload` found true of the count a connection still has in `seen`. `AnswersAwaited` (outside `stray`, exactly the connections in `snd` have a request open) is inductive. For `WokenOnce`, an `UPDATED` that waits finds its connection among the idle ones (`WokenIdle`). |
| `UploadManagerProofs` | `TypeCorrect`, `UploadsCorrect`, `AmountCorrect`, `SlotsCorrect`, `OnceWaiting`, `PlaceCorrect`, `LineImplemented`, `LimitCorrect`, `AmountKnownOfOne` | `UsedCovers` says that a connection with an upload has its `getUpload` set; `SlotChanges` what the type and the type wanted may be at each point of `prepareFile`, so that `process_slot` counts out what was counted in; `FailedLast` that a connection asked anew while an upload of it is listed had that one's filter fail and did not replace it yet, so an upload left behind has a failure of its own. The counters are compared with cardinalities of the sets of holders, which is why the set of connections is assumed finite. For the queue, `OnceInv` says that nobody is in it twice; `WithoutKeeps` that taking users out leaves all others in their order, shown for one beginning of the queue after the other with the shortest that were wrong. `LineImplemented` maps `Ban` and `Refuse` to `Join`, `notifyQueuedUsers` to `Call`, `LeaveQueue` to `Serve`, `Minute` to `Forget`, and so on. `LimitCorrect` (`NotifiedLimit`): no more users hold a promise than there are slots, plus the updates lost. `OneEach` counts a user exactly when his upload is listed. |

They hold for any number of callers, calls, users, connections, files, sharers,
signals, items, priorities, slots and wake-ups and for any size of files and
blocks, so they do not depend on the bounds of section 3.

Five theorems have a hypothesis besides, each the condition without which the
code refutes the statement:

* `DiskCorrect`, `MovedCorrect`, `FileImplemented`: `"aborted" \notin
  FlushErrors`. `removeDownload` swallows the error when the last buffer of a
  download that failed is not written (`DownloadManager.cpp:781`), and what was
  in it may then be recorded as done.
* `AmountKnownOfOne`: each user has one connection at most, and no ZFilter has
  failed for it.
* `WokenOnce`: `MaxUpdates <= 1`, that is, `checkIdle` waits while an `UPDATED`
  is in the socket's queue. The code does not, and two of them make `stray`.

Every safety property of a `pass` run is a theorem, the refinements `LifeSpec`,
`FileSpec` and `LineSpec` among them. Only model-checked is all liveness
(fairness is outside this prover's reach): `ShutdownDrains`, `GracelessDies`,
`ThreadEnds`, `AllReceived`, `WaitingMoves`, `ConnectingEnds`, `HashingEnds`,
`JoinUnlessPaused`, `WakeUpServed`, `QueueMoves`. Some theorems state what no run
checks by itself: `OwnerCorrect`, `ShrinksCorrect`, `ChosenCorrect`,
`HighestCorrect`, `LimitCorrect`, `OnceWaiting`, `AnswersCorrect`, the positive halves in section
6, and, in the words of the code, what a refinement contains: `MovedCorrect`
(of `FileSpec`) and `PlaceCorrect` (of `LineSpec`).

---

## 6. Findings

Each is the one property of a `violation` run, with the quotation in
`PROJECT.json`.

1. `queueitem_shared`: the segment is chosen before the download is listed; two
   connections get the same part (`QueueManager.cpp:1719`).
2. `hasher_join`: paused by the dialog and closed, the thread uses up both of
   shutdown's signals inside the file, and `join` does not return
   (`HashManager.h:125`).
3. `userqueue_order`: `setPriority` leaves the item in the list of its old
   priority, so `hasDownload` may answer PAUSED while another file waits, and the
   timer takes the request for unwanted (`QueueManager.cpp:2634`,
   `QueueManager.h:228`).

More statements of the repository stay in the modules without a run. TLC refutes
each; the hazards name the lines.

| Module | Statement | Refuted because |
|---|---|---|
| `BufferedSocket` | `SetPortHasSocket` | `accept` uses its connection after the thread was started |
| `QueueItem` | `DoneNeverShrinks` | joining a segment with one it contains loses the end of the first (`QueueItem.cpp:847`) |
| | `NeverRelocks` | a lock that is not recursive is taken twice (`QueueItem.cpp:519`) |
| | `FileCompletes` | a file completed by the part of an aborted download is not moved (`QueueManager.cpp:2270`) |
| `ConnectionManager` | `OneDownload` | two connections claim one item under a shared lock (`ConnectionManager.cpp:1545`) |
| | `RecentlyAsked` | an item barred by a protocol error and then forced stays CONNECTING (`ConnectionManager.cpp:508`) |
| | `BarHolds` | the handshake of anybody clears the errors of items it walks past |
| | `FailedFindsItem` | the timer removes an item that a connection claimed meanwhile |
| `UploadManager` | `AmountKnown` | `getUpload` is never cleared: the failure of a connection counts its last upload out again (`UploadManager.cpp:801, 815`) |
| `UserQueue` | `WantedIsAsked` | a request found unwanted by the timer is removed after the user was asked anew; a full `FILE_SLOTS` answers PAUSED |

What is true instead is proved for some of them:

| Refuted | Proved |
|---|---|
| `NoSharedPart` | `ChosenFree`: what is chosen is free of all that is listed or done at that moment, so two connections share a part only when one chose between the choice of the other and its entry in `m_downloads` |
| `DoneNeverShrinks` | `ShrinksOnlyInside`: a part is lost from the record only where the segment added and one that is there lie one strictly inside the other |
| `HighestPriority` | `HighestUntilChanged`: it holds until somebody changes a priority |
| `AmountKnown` | it holds if no user has two connections, until a ZFilter fails (`AmountKnownOfOne`) |
| the assertion at `DownloadManager.cpp:433` | `AnswersAwaited`: it holds for every connection that no `UPDATED` met busy, and there is none if one `UPDATED` at most waits for a connection (`WokenOnce`) |

What the modules show besides, as part of what their properties exclude:

* A second `UPDATED` that a connection takes while it is busy makes it ask for a
  second download; the first stays in `g_download_map` for ever and counts
  against the slots (`DownloadManager`: `stray`; the assertion at
  `DownloadManager.cpp:433`, the wait of the destructor at 62-80).
* The wake-up that comes between a fruitless `getDownload`
  (`DownloadManager.cpp:385`) and the entry in `g_idlers` finds nobody idle and
  is gone; `WakeUpServed` therefore speaks of connections that are idle when the
  user is written down.
* A finished file may be found in a stale list and begun anew, and leave a
  download behind (`UserQueue`: `completed`).
* An upload whose ZFilter failed outlives its connection in `g_uploads`, where the
  timer and `hasUpload` call it (`UploadManager`: `stale`;
  `UploadManager.cpp:984, 230, 1435`).
* A user who came in vain after he was told loses his new place too when
  `Minute` forgets him (`PlaceKept` names the case).

---

## 7. Abstractions, and what is not modelled

* **BufferedSocket**: content of lines and of the write buffer, compression,
  SSL, proxies, the MyINFO loader of hub sockets, speed limits. A callback "may
  act": write, send a file, disconnect, put its connection back. The dropping of
  duplicate tasks that exists in debug builds only is left out.
* **QueueItem**: partial sources, removal of sources, file lists and trees,
  priorities and file slots, `DONT_BEGIN_SEGMENT` speed limits, corrupted data
  and the recheck, deletion of the temporary file by others. Zero-size requests
  are made by the code and refused by the peer (`UploadManager.cpp:319`).
  `FlushErrors`: in the runs only the flush of a complete part may fail; if the
  flush of an aborted one fails too, `DoneOnDisk` is refuted (see the hazard at
  `DownloadManager.cpp:781`).
* **ConnectionManager**: flood filters, the expected-connections map, the idle
  list and `checkIdle`, tokens, GUI events, the servers, shutdown (in
  `BufferedSocket`). The error count is -1 or not.
* **Hasher**: order of waiting files, progress figures, the speed limit, the
  content of NTFS streams, media information. A partial tree recorded during
  the exit is marked by its size in the data base, so the next scan hashes the
  file again; that is why `WholeTrees` excludes the exit.
* **UserQueue**: file lists, partial sources, trees, the rechecker and the mover,
  `removeSource(user)`, a target added again after its removal (a new object),
  the priorities computed by `calcPriority`, reads of `userIsDownloadedFiles`
  under no lock, a user with more than one download connection. The end
  of the last part leaves the lists and `g_queue` in one step (`Finish`): what others
  see in between is a finished file that is kept and then removed, which is modelled.
* **DownloadManager**: what a download does to its file and queue item, tree
  downloads, the tick and its speeds, the disconnection of slow sources, the
  torrent session, the shutdown; an exception that `startData` swallows leaves
  the connection where it is.
* **UploadManager**: `g_delayUploads`; reserving slots by hand; favourites, the
  grant by address, the time and speed of automatic slots and who is an operator
  are free choices; `AUTO_KICK`; saving and loading the queue; the texts of
  bans; the shutdown. A deleted connection that is still listed keeps its name to
  itself, and what `hasUpload` finds at its address is a free choice.
* Not modelled at all: the components of section 1 without a module; the
  reasons are in `PROJECT.json`. Storage is taken as reliable, locks as what
  they promise, timers as coming once a second.

---

## 8. Plan

Done: `BufferedSocket` (with `SocketLife`), `QueueItem`, `ConnectionManager`,
`Hasher`, `UploadManager`, `UserQueue`, `DownloadManager`, each with its runs and
a module of proofs, in that order: the socket carries everything, the download is
what the program is for, the connection queue feeds it, and the hasher has the
most intricate use of one semaphore.

Next, in order:

| Module | Models | Abstract specification, properties | To prove |
|---|---|---|---|
| `Transfers` (composition) | ConnectionManager with UserQueue and DownloadManager | an abstract user who is wanted, asked and served; the request lost in `l_removed` | refinement, without liveness |
| `ConnectionManagerProofs`, further | | what is true instead of `OneDownload`, `FailedFindsItem`, `BarHolds` | a connection is the second one only after a race of two claims or a late write of the timer |
| `SearchQueue`, `MerkleTree` | pure operators against reference definitions over bounded inputs | manual searches before automatic ones, interval, duplicates; tree shapes | |
| `ThrottleManager` | tokens of a second, readers that wait for them | no token lost or created, a failed read does not refill | sums |
| `SharedFileStream` | pool of handles with counts | no deletion under a reader | counts |
| `ShareManager` | `m_is_refreshing`, the thread's life | one refresh at a time | |

Bounds planned for them: two or three users, two slots, two files. Runs that
state weaker disagreements give way to those of new modules.
